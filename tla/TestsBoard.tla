------------------------------ MODULE TestsBoard ------------------------------
(***************************************************************************)
(* The board of validation tests.  /api/tests reads the reports, grades    *)
(* them, reads the proof and shows its cards; scripts rewrite both kinds   *)
(* of files meanwhile.  The page was rendered with the proof of its own    *)
(* time (meta), polls while it is visible and does not check which of its  *)
(* requests an answer belongs to.                                          *)
(***************************************************************************)
EXTENDS ValidationTests, Page, Sequences

CONSTANTS
  Worlds,   \* sequence of [reports, proof]: what the files may hold
  Locales,  \* languages of the dashboard
  Found     \* for a text that is searched, by language of the cards: the
            \* tests whose id, title or purpose has it

VARIABLES
  files,    \* index of what the files hold
  meta,     \* proofMeta: cards of the proof when the page was rendered
  locale, visible, filter,
  search    \* text that is searched, "" for none

boardVars ==
  <<files, meta, flight, data, locale, visible, filter, search, events>>

Statuses == {"pass", "warn", "fail", "pending"}

\* A list of cards with no test twice, as competitive-proof.json is.
DistinctCards(P) ==
  /\ IsFiniteSet(P)
  /\ \A c \in P : c.status \in Statuses
  /\ \A c, e \in P : c.id = e.id => c = e

ASSUME TestsBoardAssumption ==
  /\ MaxFlight \in Nat \ {0} /\ MaxEvents \in Nat
  /\ \A w \in DOMAIN Worlds : /\ IsFiniteSet(DOMAIN Worlds[w].reports)
                             /\ DistinctCards(Worlds[w].proof)
  /\ "" \notin DOMAIN Found

\* reports and proof are indexes of the worlds they were read in, 0 before.
NoData == [st |-> "none", reports |-> 0, proof |-> 0, locale |-> "none"]
NoTests == [NoData EXCEPT !.st = "unavailable"]

\* The cards exist in English and in Turkish: whoever reads another language
\* gets Turkish.
Served(l) == IF l = "en" THEN "en" ELSE "tr"

-----------------------------------------------------------------------------
(* What the panel shows of an answer.                                      *)

ProofOf(d) == IF d.proof = 0 THEN {} ELSE Worlds[d.proof].proof

ApiTests(d) ==
  IF d.st # "ready" THEN {} ELSE Tests(Worlds[d.reports].reports, ProofOf(d))

\* proof_expected and proof_test_ids, those of the page as a stand-in.
Canonical(d) == IF ProofOf(d) # {} THEN ProofOf(d) ELSE meta

\* More cards than the proof has are cut down to its own.
proofAlignedTests(cards, P) ==
  IF P = {} \/ Cardinality(cards) <= Cardinality(P) THEN cards
  ELSE {c \in cards : c.id \in Ids(P)}

normalizeTestsPayload(d) == proofAlignedTests(ApiTests(d), Canonical(d))

Listed(d) == proofAlignedTests(normalizeTestsPayload(d), Canonical(d))

\* Mutant: statistics of the answer before its cards are cut down.
displayStatsRaw(d) ==
  LET list == ApiTests(d)
      expected == Cardinality(Canonical(d))
  IN  [total |-> IF expected > 0 THEN expected ELSE Cardinality(list),
       passed |-> Count(list, "pass"), failed |-> Count(list, "fail"),
       warned |-> Count(list, "warn"), pending |-> Count(list, "pending")]

displayStats(d) ==
  LET list == Listed(d)
      expected == Cardinality(Canonical(d))
      total == IF expected > 0 THEN expected ELSE Cardinality(list)
      passed == Count(list, "pass")
  IN  [total |-> total,
       passed |-> IF expected > 0 /\ passed > expected THEN expected ELSE passed,
       failed |-> Count(list, "fail"), warned |-> Count(list, "warn"),
       pending |-> Count(list, "pending")]

\* The trophy (SummaryHero).
allPassed(d) ==
  LET s == displayStats(d)
  IN  s.total > 0 /\ s.passed = s.total /\ s.failed = 0 /\ s.warned = 0

\* The number on a tab; one with no card is not there.
TabCount(s, f) ==
  CASE f = "all" -> s.total [] f = "pass" -> s.passed
    [] f = "warn" -> s.warned [] f = "fail" -> s.failed
    [] f = "pending" -> s.pending

FilterTabs(d) ==
  LET s == displayStats(d)
  IN  {"all"} \union {f \in Statuses : TabCount(s, f) > 0}

\* The cards under the filter that have the text searched.
filtered(list, f, q, l) ==
  {c \in list : /\ f = "all" \/ c.status = f
                /\ q = "" \/ c.id \in Found[q][l]}

\* The answer disagrees with its proof; when its cards were cut down, the
\* cards that are left with the proof they were cut down to.
drift(d) ==
  LET got == Cardinality(ApiTests(d))
      expected == Cardinality(Canonical(d))
  IN  IF Canonical(d) # {} /\ got > expected
      THEN Cardinality(normalizeTestsPayload(d)) # expected
      ELSE ProofOf(d) # {} /\ got # Cardinality(ProofOf(d))

\* The cards, the notes and the banners.
PanelView(d, f, q) ==
  LET list == Listed(d)
      cards == filtered(list, f, q, d.locale)
  IN  [loading |-> d.st = "none",
       hint |-> d.st # "none" /\ ApiTests(d) = {},
       cards |-> cards,
       noResults |-> cards = {} /\ list # {},
       drift |-> Canonical(d) # {} /\ displayStats(d).total > 0 /\ drift(d),
       banners |-> IF d.st = "ready" THEN Banners(Worlds[d.reports].reports)
                   ELSE [soak |-> FALSE, morning |-> FALSE, eps |-> FALSE]]

-----------------------------------------------------------------------------
NoPoll == [NoData EXCEPT !.st = "idle"]

Waiting == \E i \in Slots : flight[i] # NoPoll

\* No poll once something is shown.
pollOnce ==
  /\ visible /\ data = NoData /\ ~Waiting
  /\ flight' = [flight EXCEPT ![1] = [NoData EXCEPT !.st = "sent",
                                                    !.locale = locale]]
  /\ UNCHANGED <<files, meta, data, locale, visible, filter, search, events>>

\* poll, once a minute while the page is visible; overtaking an unanswered
\* request is counted as a fault.
poll ==
  /\ visible
  /\ IF Waiting THEN Acts ELSE UNCHANGED events
  /\ \E i \in Slots :
       /\ flight[i] = NoPoll
       /\ flight' = [flight EXCEPT ![i] = [NoData EXCEPT !.st = "sent",
                                                         !.locale = locale]]
  /\ UNCHANGED <<files, meta, data, locale, visible, filter, search>>

\* /api/tests settles the language and reads its reports, and the proof
\* after they are graded.
ReadReports(i) ==
  /\ flight[i].st = "sent"
  /\ flight' = [flight EXCEPT ![i].st = "graded", ![i].reports = files,
                              ![i].locale = Served(@)]
  /\ UNCHANGED <<files, meta, data, locale, visible, filter, search, events>>

ReadProof(i) ==
  /\ flight[i].st = "graded"
  /\ flight' = [flight EXCEPT ![i].st = "ready", ![i].proof = files]
  /\ UNCHANGED <<files, meta, data, locale, visible, filter, search, events>>

PollFails(i) ==
  /\ flight[i].st \in {"sent", "graded"}
  /\ Acts
  /\ \E st \in {"refused", "lost"} : flight' = [flight EXCEPT ![i].st = st]
  /\ UNCHANGED <<files, meta, data, locale, visible, filter, search>>

\* An answer is shown, a refusal changes nothing, an exception empties the
\* board.
ShowBoard(i) ==
  /\ flight[i].st \in {"ready", "refused", "lost"}
  /\ data' = CASE flight[i].st = "ready" -> flight[i]
               [] flight[i].st = "refused" -> data
               [] flight[i].st = "lost" -> NoTests
  /\ flight' = [flight EXCEPT ![i] = NoPoll]
  /\ UNCHANGED <<files, meta, locale, visible, filter, search, events>>

-----------------------------------------------------------------------------
(* The operator, and the scripts that write the files.                     *)

\* Leaving and coming back; coming back polls at once, which poll covers.
Switch ==
  /\ Acts
  /\ visible' = ~visible
  /\ UNCHANGED <<files, meta, flight, data, locale, filter, search>>

\* Another language: the cards follow with the next poll.
SetLocale ==
  /\ Acts
  /\ locale' \in Locales \ {locale}
  /\ UNCHANGED <<files, meta, flight, data, visible, filter, search>>

\* The tabs and the search box are there when there are cards.
SetFilter ==
  /\ Acts /\ Listed(data) # {}
  /\ filter' \in FilterTabs(data) \ {filter}
  /\ UNCHANGED <<files, meta, flight, data, locale, visible, search>>

SetSearch ==
  /\ Acts /\ Listed(data) # {}
  /\ search' \in (DOMAIN Found \union {""}) \ {search}
  /\ UNCHANGED <<files, meta, flight, data, locale, visible, filter>>

\* Opening the page anew renders it with the proof of the moment, and with
\* the text of its address (?q=), if it has one.
Reload ==
  /\ Acts
  /\ meta' = Worlds[files].proof
  /\ data' = NoData
  /\ flight' = [i \in Slots |-> NoPoll]
  /\ filter' = "all"
  /\ search' \in DOMAIN Found \union {""}
  /\ UNCHANGED <<files, locale, visible>>

FilesMove ==
  /\ Acts
  /\ files' \in DOMAIN Worlds \ {files}
  /\ UNCHANGED <<meta, flight, data, locale, visible, filter, search>>

-----------------------------------------------------------------------------
BoardInit ==
  /\ files \in DOMAIN Worlds
  /\ meta = Worlds[files].proof
  /\ flight = [i \in Slots |-> NoPoll]
  /\ data = NoData
  /\ locale \in Locales
  /\ visible = TRUE
  /\ filter = "all"
  /\ search \in DOMAIN Found \union {""}
  /\ events = 0

BoardNext ==
  \/ poll
  \/ \E i \in Slots : \/ ReadReports(i) \/ ReadProof(i)
                      \/ PollFails(i) \/ ShowBoard(i)
  \/ Switch \/ SetLocale \/ SetFilter \/ SetSearch \/ Reload
  \/ FilesMove

BoardSpec == BoardInit /\ [][BoardNext]_boardVars

\* The interval keeps firing while the page is visible, and every request
\* comes to an end.
BoardFairSpec ==
  /\ BoardSpec /\ WF_boardVars(poll)
  /\ \A i \in Slots :
       WF_boardVars(ReadReports(i) \/ ReadProof(i) \/ ShowBoard(i))

-----------------------------------------------------------------------------
\* The figures of the page belong together although the cards are cut down
\* to the proof the page knows: the statistics add up to the cards; the number
\* on a tab is the number of cards under it, unless a text is searched, which
\* can only leave fewer, or the tab "all" counts tests of a proof the answer
\* came without; the note that cards and proof had drifted apart never stands
\* beside the trophy, nor beside a proof of the answer's own; and the morning
\* banner leads to a green card where that is listed.
StatisticsAddUp ==
  LET list == Listed(data)
      s == displayStats(data)
      v == PanelView(data, filter, search)
      n == Cardinality(v.cards)
  IN  /\ s.passed + s.failed + s.warned + s.pending = Cardinality(list)
      /\ n <= TabCount(s, filter)
      /\ search = "" /\ (filter = "all" => ProofOf(data) # {} \/ meta = {})
           => n = TabCount(s, filter)
      /\ v.drift => ~allPassed(data) /\ ProofOf(data) = {}
      /\ v.banners.morning =>
           \A c \in list :
             c.id = "morning-operator-gate" => c.status = "pass"

\* The trophy is earned: when it is shown every card is green, none against
\* the grade of its own report, and the cards are exactly the tests the proof
\* lists, although reports and proof are read at different times and the page
\* may know an older proof.  A card without a graded report is as green as the
\* proof says: auth-log-report.json and ops-gate-report.json are read and
\* never graded, so a failure they report does not take the trophy away.
TrophyIsEarned ==
  allPassed(data) =>
    LET graded == evaluateValidationTests(Worlds[data.reports].reports)
    IN  /\ \A c \in Listed(data) :
             /\ c.status = "pass"
             /\ \/ \E g \in graded : g = c
                \/ c \in ProofOf(data) /\ c.id \notin Ids(graded)
        /\ ProofOf(data) # {} => Ids(Listed(data)) = Ids(ProofOf(data))

\* Once scripts, faults and the operator rest, a visible board comes to show
\* the files as they are, in the language chosen where that is English, and
\* otherwise in Turkish.
BoardSettles ==
  <>[](visible => data = [st |-> "ready", reports |-> files, proof |-> files,
                          locale |-> Served(locale)])
=============================================================================
