----------------------------- MODULE ViewsProofs ----------------------------
(***************************************************************************)
(* The bans page (BansView) and the views of the operations centre         *)
(* (SocView), each for every value of its constants.  The two are proved   *)
(* one after the other and never meet: no statement speaks of both.        *)
(*                                                                         *)
(* BansView: no answer older than the last success of the ban route, and   *)
(* the bans page as one answer, for any number of addresses, posts and     *)
(* events, any slots for overlapping requests and any page size.           *)
(*                                                                         *)
(* What was read before the success is the problem: it may still be under  *)
(* way, or in the cache.  The invalidation empties the cache and leaves    *)
(* the reads under way behind as late, and the invariant follows which of  *)
(* them may still be handed out: to requests that were sent before it      *)
(* (Requests), and the entries that a late handler stores (Entries).       *)
(***************************************************************************)
EXTENDS BansView, SocView, FiniteSetTheorems, TLAPS

ReqType ==
  [phase : {"free", "sent", "read"},
   opts : [off : Nat, q : Searches, lim : Nat, count : BOOLEAN], snap : SnapType,
   after : SUBSET Ops, cached : BOOLEAN, late : BOOLEAN, cancelled : BOOLEAN, then : BOOLEAN]
EntryType == [snap : SnapType, late : BOOLEAN, fresh : BOOLEAN]
OpType ==
  [phase : {"new", "posted", "api", "cli", "ok", "failed", "confirmed", "end"},
   ip : Searches, action : {"ban", "unban"}, called : BOOLEAN, applied : BOOLEAN,
   off : Nat, q : Searches]
PageType ==
  [rows : SUBSET Ips, total : Nat, off : Nat, search : Searches, filter : Searches,
   preview : BOOLEAN, loading : BOOLEAN, refreshing : BOOLEAN, timer : BOOLEAN]

(* The types of what the two properties depend on. *)
Shape ==
  /\ kernel \in SUBSET Ips /\ live \in SUBSET Ips /\ file \in SUBSET Ips
  /\ cache \in [Ips -> EntryType]
  /\ req \in [Slots -> ReqType]
  /\ op \in [Ops -> OpType]
  /\ page \in PageType
  /\ unfresh \in BOOLEAN

(* The posts: a success was carried out, and who was called has an address. *)
Posts ==
  \A o \in Ops :
    /\ op[o].phase \in {"ok", "confirmed"} => op[o].applied
    /\ op[o].called \/ op[o].phase # "new" => op[o].ip \in Ips

(* What a request under way asks for, and that it was sent after the successes
   that its answer has to follow. *)
Sent(i) ==
  /\ req[i].after \subseteq Confirmed
  /\ i[1] = "page" => req[i].opts = PageOpts(req[i].opts.off, req[i].opts.q)
  /\ i[1] = "tele" => req[i].opts.q \in Ips
  /\ req[i].cached => i[1] = "tele"

(* What a handler has read was read after every success before the request; if
   no invalidation has come since, after every success so far. *)
ReadInTime(i) ==
  /\ ~req[i].late => Confirmed \subseteq req[i].snap.seen
  /\ ~(req[i].cached /\ req[i].late) => req[i].after \subseteq req[i].snap.seen

Requests ==
  \A i \in Slots : /\ req[i].phase # "free" => Sent(i)
                   /\ req[i].phase = "read" => ReadInTime(i)

(* So does an entry of the cache, unless it was stored after an invalidation
   that came between its reads and its end. *)
Entries ==
  \A ip \in Ips : cache[ip].fresh /\ ~cache[ip].late => Confirmed \subseteq cache[ip].snap.seen

IInv == Shape /\ Posts /\ Requests /\ Entries /\ FreshAfterBan /\ PageIsOneAnswer

-----------------------------------------------------------------------------
OptType == [off : Nat, q : Searches, lim : Nat, count : BOOLEAN]

(* The options of every component. *)
LEMMA OptTypes ==
  /\ NoOpts \in OptType /\ CountOpts \in OptType /\ PanelOpts \in OptType
  /\ \A off \in Nat, q \in Searches :
       /\ PageOpts(off, q) \in OptType
       /\ PageOpts(off, q).off = off /\ PageOpts(off, q).q = q
       /\ TeleOpts(q) \in OptType /\ TeleOpts(q).q = q
  BY SizeAssumption
     DEF OptType, NoOpts, CountOpts, PanelOpts, PageOpts, TeleOpts, Searches

(* A free slot, and the request that is put into one. *)
LEMMA FreeReqType == FreeReq \in ReqType /\ FreeReq.phase = "free"
<1>1. NoOpts \in OptType /\ NoSnap \in SnapType
  BY OptTypes DEF NoSnap, SnapType, Sources
<1> QED BY <1>1 DEF FreeReq, ReqType, OptType

(* A request just sent asks for what it was given and follows the posts confirmed
   by now. *)
LEMMA RequestFields ==
  ASSUME NEW o \in OptType
  PROVE  /\ Request(o) \in ReqType
         /\ Request(o).phase = "sent" /\ Request(o).opts = o
         /\ Request(o).after = Confirmed /\ ~Request(o).cached
<1>1. FreeReq \in ReqType /\ ~FreeReq.cached
  BY FreeReqType DEF FreeReq
<1>2. Confirmed \in SUBSET Ops
  BY DEF Confirmed
<1> HIDE DEF FreeReq
<1> QED BY <1>1, <1>2 DEF Request, ReqType, OptType

(* Sending leaves every slot alone but one of the component's. *)
LEMMA SendFacts ==
  ASSUME NEW r \in [Slots -> ReqType], NEW who \in {"badge", "panel", "page", "tele"},
         NEW o \in OptType
  PROVE  /\ Send(r, who, o) \in [Slots -> ReqType]
         /\ \A i \in Slots : \/ Send(r, who, o)[i] = r[i]
                             \/ i[1] = who /\ Send(r, who, o)[i] = Request(o)
<1>1. Request(o) \in ReqType
  BY RequestFields
<1>2. PICK n \in {1, 2} : Send(r, who, o) = [r EXCEPT ![<<who, n>>] = Request(o)]
  BY DEF Send
<1>3. <<who, n>> \in Slots /\ <<who, n>>[1] = who
  BY DEF Slots
<1>4. [r EXCEPT ![<<who, n>>] = Request(o)] \in [Slots -> ReqType]
  BY <1>1, <1>3
<1>5. ASSUME NEW i \in Slots
      PROVE  \/ [r EXCEPT ![<<who, n>>] = Request(o)][i] = r[i]
             \/ i[1] = who /\ [r EXCEPT ![<<who, n>>] = Request(o)][i] = Request(o)
  BY <1>3, <1>5
<1> QED BY <1>2, <1>4, <1>5

(* What the handler reads is a list of addresses with its source, read after
   every success so far. *)
LEMMA ReadBansFacts ==
  ASSUME Shape, NEW o \in OptType, NEW b \in BOOLEAN
  PROVE  ReadBans(o, b) \in SnapType /\ Confirmed \subseteq ReadBans(o, b).seen
<1> DEFINE Good(s) == s \in SnapType /\ Confirmed \subseteq s.seen
<1>0. Confirmed \in SUBSET Ops /\ live \in SUBSET Ips /\ file \in SUBSET Ips
  BY DEF Confirmed, Shape
<1>1. ASSUME NEW S \in SUBSET Ips, NEW src \in Sources
      PROVE  Good([ips |-> S, source |-> src, seen |-> Confirmed])
  BY <1>0 DEF SnapType
<1>2. Good(FetchBanned(b))
  <2>1. PICK S \in {live, file}, src \in Sources :
          FetchBanned(b) = [ips |-> S, source |-> src, seen |-> Confirmed]
    BY DEF FetchBanned, Sources
  <2> QED BY <1>0, <1>1, <2>1
<1>3. ASSUME NEW s, Good(s) PROVE Good(ProofBans(s))
  <2>1. Good([ips |-> ProofIps, source |-> "proof-reports", seen |-> Confirmed])
    <3>1. ProofIps \in SUBSET Ips /\ "proof-reports" \in Sources
      BY IpAssumption DEF Sources
    <3> QED BY <1>1, <3>1
  <2> QED BY <1>3, <2>1 DEF ProofBans
<1>4. Good([NoSnap EXCEPT !.seen = Confirmed])
  <2>1. [NoSnap EXCEPT !.seen = Confirmed] = [ips |-> {}, source |-> "empty", seen |-> Confirmed]
    BY DEF NoSnap
  <2>2. {} \in SUBSET Ips /\ "empty" \in Sources
    BY DEF Sources
  <2> QED BY <1>1, <2>1, <2>2
<1>5. Good([ips |-> DemoIps, source |-> "live-demo", seen |-> Confirmed])
  <2>1. DemoIps \in SUBSET Ips /\ "live-demo" \in Sources
    BY IpAssumption DEF Sources
  <2> QED BY <1>1, <2>1
<1> HIDE DEF Good
<1>6. CASE DisplayMode = "proof"
  <2>1. ReadBans(o, b) = ProofBans([NoSnap EXCEPT !.seen = Confirmed])
    BY <1>6 DEF ReadBans
  <2> QED BY <1>3, <1>4, <2>1 DEF Good
<1>7. CASE DisplayMode = "live-demo"
  <2>1. ReadBans(o, b) = [ips |-> DemoIps, source |-> "live-demo", seen |-> Confirmed]
    BY <1>7 DEF ReadBans
  <2> QED BY <1>5, <2>1 DEF Good
<1>8. CASE DisplayMode # "proof" /\ DisplayMode # "live-demo"
  <2>1. ReadBans(o, b) = IF Match(FetchBanned(b).ips, o.q) = {} THEN ProofBans(FetchBanned(b))
                         ELSE FetchBanned(b)
    BY <1>8 DEF ReadBans
  <2> QED BY <1>2, <1>3, <2>1 DEF Good
<1> QED BY <1>6, <1>7, <1>8

(* An answer's rows are addresses and its count is a number; neither depends on
   the posts that the answer shows. *)
LEMMA PackFacts ==
  ASSUME NEW o \in OptType, NEW s \in SnapType
  PROVE  /\ Pack(o, s).rows \in SUBSET Ips /\ Pack(o, s).count \in Nat
         /\ Pack(o, s).preview \in BOOLEAN
         /\ Pack(o, s) = Pack(o, [ips |-> s.ips, source |-> s.source, seen |-> {}])
<1>1. s.ips \in SUBSET Ips
  BY DEF SnapType
<1>2. Match(s.ips, o.q) \in SUBSET Ips
  BY <1>1 DEF Match
<1>3. Slice(Match(s.ips, o.q), o.off, o.lim) \in SUBSET Ips
  BY <1>2 DEF Slice
<1>4. Cardinality(Match(s.ips, o.q)) \in Nat
  BY <1>2, IpAssumption, FS_Subset, FS_CardinalityType
<1>5. Pack(o, s) = [count   |-> Cardinality(Match(s.ips, o.q)),
                    rows    |-> IF o.count THEN {} ELSE Slice(Match(s.ips, o.q), o.off, o.lim),
                    source  |-> s.source,
                    preview |-> s.source = "proof-reports"]
  BY DEF Pack
<1>6. Pack(o, [ips |-> s.ips, source |-> s.source, seen |-> {}]) = Pack(o, s)
  BY DEF Pack
<1>7. /\ Pack(o, s).rows = IF o.count THEN {} ELSE Slice(Match(s.ips, o.q), o.off, o.lim)
      /\ Pack(o, s).count = Cardinality(Match(s.ips, o.q))
      /\ Pack(o, s).preview \in BOOLEAN
  BY <1>5
<1> QED BY <1>3, <1>4, <1>6, <1>7

(* At the start nothing has been asked but the first page and the count. *)
LEMMA InitIInv == Init => IInv
<1> SUFFICES ASSUME Init PROVE IInv
  OBVIOUS
<1>0. NoEntry \in EntryType /\ ~NoEntry.fresh
  BY DEF NoEntry, EntryType, SnapType, NoSnap, Sources
<1> DEFINE First(o) == [FreeReq EXCEPT !.phase = "sent", !.opts = o]
<1>1. ASSUME NEW o \in OptType
      PROVE  /\ First(o) \in ReqType /\ First(o).phase = "sent" /\ First(o).opts = o
             /\ First(o).after = {} /\ ~First(o).cached
  <2>1. FreeReq \in ReqType /\ ~FreeReq.cached /\ FreeReq.after = {}
    BY FreeReqType DEF FreeReq
  <2> HIDE DEF FreeReq
  <2> QED BY <2>1 DEF ReqType, OptType
<1>2. ASSUME NEW i \in Slots
      PROVE  /\ req[i] \in ReqType
             /\ req[i].phase # "free" =>
                  /\ req[i].phase = "sent" /\ req[i].after = {} /\ ~req[i].cached /\ i[1] # "tele"
                  /\ i[1] = "page" => req[i].opts = PageOpts(0, 0)
  <2>1. \/ i[1] = "badge" /\ req[i] = First(CountOpts)
        \/ i[1] = "panel" /\ req[i] = First(PanelOpts)
        \/ i[1] = "page" /\ req[i] = First(PageOpts(0, 0))
        \/ req[i] = FreeReq
    <3>1. \/ i = <<"badge", 1>> /\ req[i] = First(CountOpts)
          \/ i = <<"panel", 1>> /\ req[i] = First(PanelOpts)
          \/ i = <<"page", 1>> /\ req[i] = First(PageOpts(0, 0))
          \/ req[i] = FreeReq
      <4>1. req[i] = CASE i = <<"badge", 1>> -> First(CountOpts)
                       [] i = <<"panel", 1>> /\ session.mounted = "panel" -> First(PanelOpts)
                       [] i = <<"page", 1>> /\ session.mounted = "page" -> First(PageOpts(0, 0))
                       [] OTHER -> FreeReq
        BY DEF Init
      <4> HIDE DEF First
      <4> QED BY <4>1
    <3>2. <<"badge", 1>>[1] = "badge" /\ <<"panel", 1>>[1] = "panel" /\ <<"page", 1>>[1] = "page"
      OBVIOUS
    <3> HIDE DEF First
    <3> QED BY <3>1, <3>2
  <2>2. PageOpts(0, 0) \in OptType
    BY OptTypes DEF Searches
  <2> HIDE DEF First
  <2> QED BY <1>1, <2>1, <2>2, OptTypes, FreeReqType
<1>3. Shape
  <2>1. req \in [Slots -> ReqType]
    BY <1>2 DEF Init
  <2>2. cache \in [Ips -> EntryType]
    BY <1>0 DEF Init
  <2>3. kernel \in SUBSET Ips /\ live \in SUBSET Ips /\ file \in SUBSET Ips
    BY SizeAssumption DEF Init
  <2>4. op \in [Ops -> OpType]
    BY DEF Init, OpType, Searches
  <2>5. page \in PageType
    BY DEF Init, PageType, Searches
  <2> QED BY <2>1, <2>2, <2>3, <2>4, <2>5 DEF Shape, Init
<1>4. Posts
  BY DEF Init, Posts
<1>5. Requests
  <2>1. 0 \in Nat /\ 0 \in Searches
    BY DEF Searches
  <2>2. PageOpts(0, 0).off = 0 /\ PageOpts(0, 0).q = 0
    BY <2>1, OptTypes
  <2> QED BY <1>2, <2>2 DEF Requests, Sent
<1>6. Entries
  BY <1>0 DEF Init, Entries
<1>7. FreshAfterBan /\ PageIsOneAnswer
  BY DEF Init, FreshAfterBan, PageIsOneAnswer
<1> QED BY <1>3, <1>4, <1>5, <1>6, <1>7 DEF IInv

-----------------------------------------------------------------------------
(* One post moves on; if it was not confirmed just now, the same posts are. *)
LEMMA OnePost ==
  ASSUME Shape, Posts, NEW o \in Ops, op' \in [Ops -> OpType],
         \A p \in Ops \ {o} : op'[p] = op[p],
         op'[o].phase \in {"ok", "confirmed"} => op'[o].applied,
         op'[o].called \/ op'[o].phase # "new" => op'[o].ip \in Ips
  PROVE  /\ Posts'
         /\ (op[o].phase \in {"ok", "confirmed"} <=> op'[o].phase \in {"ok", "confirmed"})
              => Confirmed' = Confirmed
         /\ op[o].phase \notin {"ok", "confirmed"} => Confirmed \subseteq Confirmed'
<1>1. Posts'
  BY DEF Posts
<1>3. ASSUME op[o].phase \notin {"ok", "confirmed"}
      PROVE  Confirmed \subseteq Confirmed'
  BY <1>3 DEF Confirmed
<1>2. ASSUME op[o].phase \in {"ok", "confirmed"} <=> op'[o].phase \in {"ok", "confirmed"}
      PROVE  Confirmed' = Confirmed
  BY <1>2 DEF Confirmed
<1> QED BY <1>1, <1>2, <1>3

(* The steps of the posts. *)
PostStep(o) ==
  \/ AcceptPost(o) \/ Apply(o) \/ ApiSuccess(o) \/ ApiRefuses(o) \/ ApiThrows(o)
  \/ \E ok \in BOOLEAN : RunCli(o, ok)
  \/ Succeed(o) \/ FailOp(o)
  \/ \E ip \in Ips, a \in {"ban", "unban"} : Click(o, ip, a)

(* A confirmation comes with the invalidation of the cache. *)
LEMMA PostMoves ==
  ASSUME Shape, Posts, NEW o \in Ops, PostStep(o)
  PROVE  /\ op' \in [Ops -> OpType] /\ Posts'
         /\ kernel' \in SUBSET Ips /\ UNCHANGED <<live, file>>
         /\ (Confirmed' = Confirmed \/ InvalidateAll) /\ Confirmed \subseteq Confirmed'
<1> USE DEF Browser, Idle
<1>0. /\ op \in [Ops -> OpType] /\ op[o] \in OpType /\ kernel \in SUBSET Ips
      /\ page.off \in Nat /\ RefreshSearch \in Searches
  BY DEF Shape, PageType, RefreshSearch
<1>p. ASSUME op' \in [Ops -> OpType], \A p \in Ops \ {o} : op'[p] = op[p],
             op'[o].phase \in {"ok", "confirmed"} => op'[o].applied,
             op'[o].called \/ op'[o].phase # "new" => op'[o].ip \in Ips,
             kernel' \in SUBSET Ips, UNCHANGED <<live, file>>,
             \/ op[o].phase \in {"ok", "confirmed"} <=> op'[o].phase \in {"ok", "confirmed"}
             \/ InvalidateAll /\ op[o].phase \notin {"ok", "confirmed"}
      PROVE  /\ op' \in [Ops -> OpType] /\ Posts'
             /\ kernel' \in SUBSET Ips /\ UNCHANGED <<live, file>>
             /\ (Confirmed' = Confirmed \/ InvalidateAll) /\ Confirmed \subseteq Confirmed'
  BY <1>p, OnePost
<1>q. /\ op[o].phase \in {"ok", "confirmed"} => op[o].applied
      /\ op[o].called \/ op[o].phase # "new" => op[o].ip \in Ips
  BY DEF Posts
<1>1. CASE AcceptPost(o)
  <2>1. PICK c \in {"api", "failed"}, d \in BOOLEAN :
          op' = [op EXCEPT ![o] = [op[o] EXCEPT !.phase = c, !.called = d]]
    BY <1>0, <1>1 DEF AcceptPost, OpType
  <2>2. op[o].phase = "posted" /\ UNCHANGED <<kernel, live, file>>
    BY <1>1 DEF AcceptPost
  <2>3. op' \in [Ops -> OpType]
    BY <1>0, <2>1 DEF OpType
  <2>4. /\ \A p \in Ops \ {o} : op'[p] = op[p]
        /\ op'[o].phase \in {"api", "failed"} /\ op'[o].ip = op[o].ip
    BY <1>0, <2>1 DEF OpType
  <2> QED BY <1>0, <1>p, <1>q, <2>2, <2>3, <2>4
<1>2. CASE Apply(o)
  <2>1. op' \in [Ops -> OpType]
    BY <1>0, <1>2 DEF Apply, OpType
  <2>2. /\ \A p \in Ops \ {o} : op'[p] = op[p]
        /\ op'[o].phase = op[o].phase /\ op'[o].applied /\ op'[o].ip = op[o].ip /\ op[o].called
        /\ UNCHANGED <<live, file>>
    BY <1>0, <1>2 DEF Apply, OpType
  <2>3. kernel' \in SUBSET Ips
    BY <1>0, <1>2, <1>q DEF Apply, Effects
  <2> QED BY <1>p, <1>q, <2>1, <2>2, <2>3
<1>3. CASE ApiSuccess(o)
  <2>1. op' \in [Ops -> OpType]
    BY <1>0, <1>3 DEF ApiSuccess, OpType
  <2>2. /\ \A p \in Ops \ {o} : op'[p] = op[p]
        /\ op'[o].phase = "ok" /\ op'[o].applied /\ op'[o].ip = op[o].ip /\ op[o].phase = "api"
        /\ InvalidateAll /\ UNCHANGED <<kernel, live, file>>
    BY <1>0, <1>3 DEF ApiSuccess, OpType
  <2> QED BY <1>0, <1>p, <1>q, <2>1, <2>2
<1>4. CASE ApiRefuses(o)
  <2>1. op' \in [Ops -> OpType]
    BY <1>0, <1>4 DEF ApiRefuses, OpType
  <2>2. /\ \A p \in Ops \ {o} : op'[p] = op[p]
        /\ op'[o].phase = "failed" /\ op'[o].ip = op[o].ip /\ op[o].phase = "api"
        /\ UNCHANGED <<kernel, live, file>>
    BY <1>0, <1>4 DEF ApiRefuses, OpType
  <2> QED BY <1>0, <1>p, <1>q, <2>1, <2>2
<1>5. CASE ApiThrows(o)
  <2>1. op' \in [Ops -> OpType]
    BY <1>0, <1>5 DEF ApiThrows, OpType
  <2>2. /\ \A p \in Ops \ {o} : op'[p] = op[p]
        /\ op'[o].phase \in {"cli", "failed"} /\ op'[o].ip = op[o].ip /\ op[o].phase = "api"
        /\ UNCHANGED <<kernel, live, file>>
    BY <1>0, <1>5 DEF ApiThrows, OpType
  <2> QED BY <1>0, <1>p, <1>q, <2>1, <2>2
<1>6. ASSUME RunCli(o, TRUE)
      PROVE  /\ op' \in [Ops -> OpType] /\ Posts'
             /\ kernel' \in SUBSET Ips /\ UNCHANGED <<live, file>>
             /\ (Confirmed' = Confirmed \/ InvalidateAll) /\ Confirmed \subseteq Confirmed'
  <2>1. op' \in [Ops -> OpType]
    BY <1>0, <1>6 DEF RunCli, OpType
  <2>2. /\ \A p \in Ops \ {o} : op'[p] = op[p]
        /\ op'[o].phase = "ok" /\ op'[o].applied /\ op'[o].ip = op[o].ip /\ op[o].phase = "cli"
        /\ InvalidateAll /\ UNCHANGED <<live, file>>
    BY <1>0, <1>6 DEF RunCli, OpType
  <2>3. kernel' \in SUBSET Ips
    BY <1>0, <1>6, <1>q, <2>2 DEF RunCli, Effects
  <2> QED BY <1>p, <1>q, <2>1, <2>2, <2>3
<1>7. ASSUME RunCli(o, FALSE)
      PROVE  /\ op' \in [Ops -> OpType] /\ Posts'
             /\ kernel' \in SUBSET Ips /\ UNCHANGED <<live, file>>
             /\ (Confirmed' = Confirmed \/ InvalidateAll) /\ Confirmed \subseteq Confirmed'
  <2>1. op' \in [Ops -> OpType]
    BY <1>0, <1>7 DEF RunCli, OpType
  <2>2. /\ \A p \in Ops \ {o} : op'[p] = op[p]
        /\ op'[o].phase = "failed" /\ op'[o].ip = op[o].ip /\ op[o].phase = "cli"
        /\ UNCHANGED <<kernel, live, file>>
    BY <1>0, <1>7 DEF RunCli, OpType
  <2> QED BY <1>0, <1>p, <1>q, <2>1, <2>2
<1>8. CASE Succeed(o)
  <2>1. op' \in [Ops -> OpType]
    BY <1>0, <1>8 DEF Succeed, OpType
  <2>2. /\ \A p \in Ops \ {o} : op'[p] = op[p]
        /\ op'[o].phase = "confirmed" /\ op'[o].applied = op[o].applied
        /\ op'[o].ip = op[o].ip /\ op[o].phase = "ok"
        /\ UNCHANGED <<kernel, live, file>>
    BY <1>0, <1>8 DEF Succeed, OpType
  <2> QED BY <1>0, <1>p, <1>q, <2>1, <2>2
<1>9. CASE FailOp(o)
  <2>1. op' \in [Ops -> OpType]
    BY <1>0, <1>9 DEF FailOp, OpType
  <2>2. /\ \A p \in Ops \ {o} : op'[p] = op[p]
        /\ op'[o].phase = "end" /\ op'[o].ip = op[o].ip /\ op[o].phase = "failed"
        /\ UNCHANGED <<kernel, live, file>>
    BY <1>0, <1>9 DEF FailOp, OpType
  <2> QED BY <1>0, <1>p, <1>q, <2>1, <2>2
<1>10. ASSUME NEW ip \in Ips, NEW a \in {"ban", "unban"}, Click(o, ip, a)
       PROVE  /\ op' \in [Ops -> OpType] /\ Posts'
              /\ kernel' \in SUBSET Ips /\ UNCHANGED <<live, file>>
              /\ (Confirmed' = Confirmed \/ InvalidateAll) /\ Confirmed \subseteq Confirmed'
  <2>0. /\ op' = [op EXCEPT ![o] = [op[o] EXCEPT !.phase = "posted", !.ip = ip, !.action = a,
                                                 !.off = page.off, !.q = RefreshSearch]]
        /\ op[o].phase = "new" /\ UNCHANGED <<kernel, live, file>>
    BY <1>10 DEF Click
  <2>1. op' \in [Ops -> OpType]
    BY <1>0, <2>0 DEF OpType, Searches
  <2>2. /\ \A p \in Ops \ {o} : op'[p] = op[p]
        /\ op'[o].phase = "posted" /\ op'[o].ip = ip
    BY <1>0, <2>0 DEF OpType
  <2> QED BY <1>0, <1>p, <2>0, <2>1, <2>2
<1> QED
  BY <1>1, <1>2, <1>3, <1>4, <1>5, <1>6, <1>7, <1>8, <1>9, <1>10 DEF PostStep
-----------------------------------------------------------------------------
(* The fields of a request that the invariant is about. *)
Same(x, y) ==
  /\ x.phase = y.phase /\ x.opts = y.opts /\ x.snap = y.snap
  /\ x.after = y.after /\ x.cached = y.cached /\ x.late = y.late

(* What the page and the Telegram panel ask for. *)
WellAsked(who, o) ==
  /\ who = "page" => o = PageOpts(o.off, o.q)
  /\ who = "tele" => o.q \in Ips

(* Nothing is read: the requests r are those under way but for some that have
   ended and some that were sent just now. *)
Calm(r) ==
  /\ r \in [Slots -> ReqType]
  /\ \A i \in Slots :
       \/ Same(r[i], req[i])
       \/ r[i].phase = "free"
       \/ /\ r[i].phase = "sent" /\ r[i].after = Confirmed /\ ~r[i].cached
          /\ WellAsked(i[1], r[i].opts)

(* The requests as they are. *)
LEMMA CalmReq == Shape => Calm(req)
  BY DEF Shape, Calm, Same

(* One request ends. *)
LEMMA CalmDrop ==
  ASSUME Shape, NEW i \in Slots
  PROVE  Calm(Drop(i))
<1>1. req \in [Slots -> ReqType] /\ Drop(i) = [req EXCEPT ![i] = FreeReq]
  BY DEF Shape, Drop
<1>2. Drop(i) \in [Slots -> ReqType]
  BY <1>1, FreeReqType
<1>3. Drop(i)[i] = FreeReq /\ \A j \in Slots \ {i} : Drop(i)[j] = req[j]
  BY <1>1
<1>4. \A j \in Slots : Drop(i)[j].phase = "free" \/ Same(Drop(i)[j], req[j])
  BY <1>3, FreeReqType DEF Same
<1> QED BY <1>2, <1>4 DEF Calm

(* One more request is sent. *)
LEMMA CalmSend ==
  ASSUME NEW r, Calm(r), NEW who \in {"badge", "panel", "page", "tele"}, NEW o \in OptType,
         WellAsked(who, o)
  PROVE  Calm(Send(r, who, o))
<1>1. r \in [Slots -> ReqType]
  BY DEF Calm
<1>2. /\ Send(r, who, o) \in [Slots -> ReqType]
      /\ \A i \in Slots : \/ Send(r, who, o)[i] = r[i]
                          \/ i[1] = who /\ Send(r, who, o)[i] = Request(o)
  BY <1>1, SendFacts
<1>3. /\ Request(o).phase = "sent" /\ Request(o).opts = o
      /\ Request(o).after = Confirmed /\ ~Request(o).cached
  BY RequestFields
<1>4. ASSUME NEW i \in Slots
      PROVE  \/ Same(Send(r, who, o)[i], req[i])
             \/ Send(r, who, o)[i].phase = "free"
             \/ /\ Send(r, who, o)[i].phase = "sent" /\ Send(r, who, o)[i].after = Confirmed
                /\ ~Send(r, who, o)[i].cached /\ WellAsked(i[1], Send(r, who, o)[i].opts)
  <2>1. CASE Send(r, who, o)[i] = r[i]
    BY <2>1 DEF Calm
  <2>2. CASE i[1] = who /\ Send(r, who, o)[i] = Request(o)
    BY <1>3, <2>2
  <2> QED BY <1>2, <2>1, <2>2
<1> QED BY <1>2, <1>4 DEF Calm

(* A mark that the invariant is not about changes nothing. *)
LEMMA CalmMark ==
  ASSUME NEW r, Calm(r), NEW s \in [Slots -> ReqType], \A i \in Slots : Same(s[i], r[i])
  PROVE  Calm(s)
  BY DEF Calm, Same

(* The same request is sent twice in a tick. *)
LEMMA CalmSendTwice ==
  ASSUME NEW r, Calm(r), NEW who \in {"badge", "panel", "page", "tele"}, NEW o \in OptType,
         WellAsked(who, o)
  PROVE  Calm(SendTwice(r, who, o))
<1>1. Calm(Send(r, who, o))
  BY CalmSend
<1>2. Calm(Send(Send(r, who, o), who, o))
  BY <1>1, CalmSend
<1> QED BY <1>1, <1>2 DEF SendTwice

(* What the components ask for is well asked. *)
LEMMA AsksWell ==
  /\ CountOpts \in OptType /\ WellAsked("badge", CountOpts)
  /\ PanelOpts \in OptType /\ WellAsked("panel", PanelOpts)
  /\ \A off \in Nat, q \in Searches :
       PageOpts(off, q) \in OptType /\ WellAsked("page", PageOpts(off, q))
  /\ \A ip \in Ips : TeleOpts(ip) \in OptType /\ WellAsked("tele", TeleOpts(ip))
<1>1. /\ CountOpts \in OptType /\ PanelOpts \in OptType
      /\ \A off \in Nat, q \in Searches :
           /\ PageOpts(off, q) \in OptType
           /\ PageOpts(off, q).off = off /\ PageOpts(off, q).q = q
           /\ TeleOpts(q) \in OptType /\ TeleOpts(q).q = q
  BY OptTypes
<1>2. \A ip \in Ips : ip \in Searches
  BY DEF Searches
<1>3. 0 \in Nat
  OBVIOUS
<1> HIDE DEF CountOpts, PanelOpts, PageOpts, TeleOpts
<1> QED BY <1>1, <1>2, <1>3 DEF WellAsked

(* The part of the invariant that the requests and the cache decide. *)
Served ==
  /\ req \in [Slots -> ReqType] /\ cache \in [Ips -> EntryType] /\ unfresh = FALSE
  /\ Requests /\ Entries

(* It is a part of the invariant. *)
LEMMA IInvServed == IInv => Served
  BY DEF IInv, Shape, Served, FreshAfterBan

(* Where nothing is read, what is under way stays in time. *)
LEMMA CalmRequests ==
  ASSUME Served, Confirmed' = Confirmed, Calm(req')
  PROVE  req' \in [Slots -> ReqType] /\ Requests'
<1>1. ASSUME NEW i \in Slots
      PROVE  /\ req'[i].phase # "free" => Sent(i)'
             /\ req'[i].phase = "read" => ReadInTime(i)'
  <2>1. CASE Same(req'[i], req[i])
    BY <2>1 DEF Served, Requests, Sent, ReadInTime, Same
  <2>2. CASE req'[i].phase = "free"
    BY <2>2
  <2>3. CASE /\ req'[i].phase = "sent" /\ req'[i].after = Confirmed /\ ~req'[i].cached
             /\ WellAsked(i[1], req'[i].opts)
    BY <2>3 DEF Sent, WellAsked
  <2> QED BY <2>1, <2>2, <2>3 DEF Calm
<1> QED BY <1>1 DEF Calm, Requests

(* Where the cache stays as it is too, the whole part holds on. *)
LEMMA Undisturbed ==
  ASSUME Served, Confirmed' = Confirmed, Calm(req'), UNCHANGED <<cache, unfresh>>
  PROVE  Served'
<1>1. req' \in [Slots -> ReqType] /\ Requests'
  BY CalmRequests
<1>2. Entries'
  BY DEF Served, Entries
<1> QED BY <1>1, <1>2 DEF Served

(* The invalidation leaves nothing in the cache, and what was read is late. *)
LEMMA Invalidated ==
  ASSUME Served, Confirmed \subseteq Confirmed', InvalidateAll, unfresh' = unfresh
  PROVE  Served'
<1>0. NoEntry \in EntryType /\ ~NoEntry.fresh
  BY DEF NoEntry, EntryType, SnapType, NoSnap, Sources
<1>1. cache' \in [Ips -> EntryType] /\ Entries'
  BY <1>0 DEF InvalidateAll, Entries
<1>2. ASSUME NEW i \in Slots
      PROVE  /\ req'[i] \in ReqType
             /\ req'[i].phase # "free" => Sent(i)'
             /\ req'[i].phase = "read" => ReadInTime(i)'
  <2>0. req[i] \in ReqType
    BY DEF Served
  <2>1. CASE req[i].phase = "read"
    <3>1. req'[i] = [req[i] EXCEPT !.late = TRUE]
      BY <2>1 DEF InvalidateAll
    <3>2. /\ req'[i] \in ReqType /\ req'[i].late /\ req'[i].phase = "read"
          /\ req'[i].opts = req[i].opts /\ req'[i].snap = req[i].snap
          /\ req'[i].after = req[i].after /\ req'[i].cached = req[i].cached
      BY <2>0, <2>1, <3>1 DEF ReqType
    <3>3. Sent(i) /\ ReadInTime(i)
      BY <2>1 DEF Served, Requests
    <3>4. Sent(i)'
      BY <3>2, <3>3 DEF Sent
    <3>5. ReadInTime(i)'
      BY <3>2, <3>3 DEF ReadInTime
    <3> QED BY <3>2, <3>4, <3>5
  <2>2. CASE req[i].phase # "read"
    <3>1. req'[i] = req[i]
      BY <2>2 DEF InvalidateAll
    <3>2. req[i].phase # "free" => Sent(i)
      BY DEF Served, Requests
    <3>3. req'[i].phase # "free" => Sent(i)'
      BY <3>1, <3>2 DEF Sent
    <3> QED BY <2>0, <2>2, <3>1, <3>3
  <2> QED BY <2>1, <2>2
<1>3. req' \in [Slots -> ReqType]
  BY <1>2 DEF InvalidateAll
<1> QED BY <1>1, <1>2, <1>3 DEF Served, Requests
(* A handler reads: from the lists, after every success so far, or from an entry
   of the cache. *)
LEMMA ServeServed ==
  ASSUME IInv, NEW i \in Slots, NEW ok \in BOOLEAN, Serve(i, ok)
  PROVE  Served'
<1> USE DEF Browser
<1>0. /\ Served /\ Shape /\ Posts /\ req \in [Slots -> ReqType] /\ req[i] \in ReqType
      /\ cache \in [Ips -> EntryType] /\ req[i].opts \in OptType
  BY IInvServed DEF IInv, Shape, ReqType, OptType
<1>1. req[i].phase = "sent" /\ UNCHANGED <<cache, op, unfresh>>
  BY DEF Serve
<1>2. Confirmed' = Confirmed /\ Confirmed \in SUBSET Ops
  BY <1>1 DEF Confirmed
<1>3. Sent(i)
  BY <1>0, <1>1 DEF Served, Requests
<1>4. ASSUME req' \in [Slots -> ReqType], \A j \in Slots \ {i} : req'[j] = req[j],
             Sent(i)', ReadInTime(i)'
      PROVE  Served'
  <2>1. ASSUME NEW j \in Slots
        PROVE  /\ req'[j].phase # "free" => Sent(j)'
               /\ req'[j].phase = "read" => ReadInTime(j)'
    <3>1. CASE j = i
      BY <1>4, <3>1
    <3>2. CASE j # i
      BY <1>0, <1>2, <1>4, <3>2 DEF Served, Requests, Sent, ReadInTime
    <3> QED BY <3>1, <3>2
  <2>2. Entries'
    BY <1>0, <1>1, <1>2 DEF Served, Entries
  <2> QED BY <1>0, <1>1, <1>4, <2>1, <2>2 DEF Served, Requests
<1>5. CASE CacheHit(i)
  <2> DEFINE e == cache[req[i].opts.q]
  <2>1. /\ i[1] = "tele" /\ e.fresh
        /\ req' = [req EXCEPT ![i] = [req[i] EXCEPT !.phase = "read", !.snap = e.snap,
                                                    !.cached = TRUE, !.late = e.late]]
    BY <1>0, <1>5 DEF Serve, CacheHit
  <2>2. req[i].opts.q \in Ips
    BY <1>3, <2>1 DEF Sent
  <2>3. e \in EntryType /\ (~e.late => Confirmed \subseteq e.snap.seen)
    BY <1>0, <2>1, <2>2 DEF Served, Entries
  <2> HIDE DEF e
  <2>4. /\ req'[i] \in ReqType /\ req'[i].opts = req[i].opts /\ req'[i].snap = e.snap
        /\ req'[i].after = req[i].after /\ req'[i].cached /\ req'[i].late = e.late
        /\ req' \in [Slots -> ReqType]
    BY <1>0, <2>1, <2>3 DEF ReqType, EntryType
  <2>5. \A j \in Slots \ {i} : req'[j] = req[j]
    BY <1>0, <2>1
  <2>6. Sent(i)'
    BY <1>2, <1>3, <2>1, <2>4 DEF Sent
  <2>7. ReadInTime(i)'
    <3>1. e.late \in BOOLEAN
      BY <2>3 DEF EntryType
    <3>2. CASE e.late
      BY <2>4, <3>2 DEF ReadInTime
    <3>3. CASE ~e.late
      BY <1>2, <1>3, <2>3, <2>4, <3>3 DEF ReadInTime, Sent
    <3> QED BY <3>1, <3>2, <3>3
  <2> QED BY <1>4, <2>4, <2>5, <2>6, <2>7
<1>6. CASE ~CacheHit(i)
  <2> DEFINE s == ReadBans(req[i].opts, ok)
  <2>1. req' = [req EXCEPT ![i] = [req[i] EXCEPT !.phase = "read", !.snap = s]]
    BY <1>0, <1>6 DEF Serve
  <2>2. s \in SnapType /\ Confirmed \subseteq s.seen
    BY <1>0, ReadBansFacts
  <2> HIDE DEF s
  <2>3. /\ req'[i] \in ReqType /\ req'[i].opts = req[i].opts /\ req'[i].snap = s
        /\ req'[i].after = req[i].after /\ req'[i].cached = req[i].cached
        /\ req' \in [Slots -> ReqType]
    BY <1>0, <2>1, <2>2 DEF ReqType
  <2>4. \A j \in Slots \ {i} : req'[j] = req[j]
    BY <1>0, <2>1
  <2>5. Sent(i)'
    BY <1>2, <1>3, <2>3 DEF Sent
  <2>6. ReadInTime(i)'
    BY <1>2, <1>3, <2>2, <2>3 DEF ReadInTime, Sent
  <2> QED BY <1>4, <2>3, <2>4, <2>5, <2>6
<1> QED BY <1>5, <1>6

(* A handler ends: what it stores is in time or late, and its answer was read
   after the successes before the request. *)
LEMMA FinishServed ==
  ASSUME IInv, NEW i \in Slots, Finish(i), op' = op, Calm(req')
  PROVE  Served'
<1>0. /\ Served /\ req[i] \in ReqType /\ cache \in [Ips -> EntryType]
      /\ unfresh = FALSE /\ Confirmed' = Confirmed
  BY IInvServed DEF IInv, Shape, Served, Confirmed
<1>1. req[i].phase = "read"
  BY DEF Finish
<1>2. Sent(i) /\ ReadInTime(i)
  BY <1>0, <1>1 DEF Served, Requests
<1>3. req' \in [Slots -> ReqType] /\ Requests'
  BY <1>0, CalmRequests
<1>4. unfresh' = FALSE
  BY <1>0, <1>2 DEF Finish, Sent, ReadInTime
<1>5. cache' \in [Ips -> EntryType] /\ Entries'
  <2>1. CASE i[1] = "tele" /\ ~req[i].cached
    <3> DEFINE e == [snap |-> req[i].snap, late |-> req[i].late, fresh |-> TRUE]
    <3>1. req[i].opts.q \in Ips /\ cache' = [cache EXCEPT ![req[i].opts.q] = e]
      BY <1>2, <2>1 DEF Finish, Sent
    <3>2. e \in EntryType
      BY <1>0 DEF ReqType, EntryType
    <3>3. e.late = req[i].late /\ e.snap = req[i].snap
      OBVIOUS
    <3>4. ~e.late => Confirmed \subseteq e.snap.seen
      BY <1>2, <3>3 DEF ReadInTime
    <3> HIDE DEF e
    <3>5. cache' \in [Ips -> EntryType]
      BY <1>0, <3>1, <3>2
    <3>6. \A ip \in Ips : cache'[ip] = e \/ cache'[ip] = cache[ip]
      BY <1>0, <3>1
    <3>7. Entries'
      BY <1>0, <3>4, <3>6 DEF Served, Entries
    <3> QED BY <3>5, <3>7
  <2>2. CASE ~(i[1] = "tele" /\ ~req[i].cached)
    <3>1. cache' = cache
      BY <2>2 DEF Finish
    <3> QED BY <1>0, <3>1 DEF Served, Entries
  <2> QED BY <2>1, <2>2
<1> QED BY <1>3, <1>4, <1>5 DEF Served

(* An entry that expires is missed by nobody. *)
LEMMA ExpireServed ==
  ASSUME Served, NEW ip \in Ips, Expire(ip)
  PROVE  Served'
<1> USE DEF Browser
<1>0. NoEntry \in EntryType /\ ~NoEntry.fresh
  BY DEF NoEntry, EntryType, SnapType, NoSnap, Sources
<1>1. cache' = [cache EXCEPT ![ip] = NoEntry] /\ UNCHANGED <<req, op, unfresh>>
  BY DEF Expire
<1>2. Confirmed' = Confirmed
  BY <1>1 DEF Confirmed
<1>3. cache' \in [Ips -> EntryType]
  BY <1>0, <1>1 DEF Served
<1>4. Entries'
  <2>1. cache \in [Ips -> EntryType]
    BY DEF Served
  <2>2. \A j \in Ips : cache'[j] = NoEntry \/ cache'[j] = cache[j]
    BY <1>1, <2>1
  <2> QED BY <1>0, <1>2, <2>2 DEF Served, Entries
<1>5. Requests'
  BY <1>1, <1>2 DEF Served, Requests, Sent, ReadInTime
<1> QED BY <1>1, <1>3, <1>4, <1>5 DEF Served
(* Answers and failures of the four components. *)
LEMMA ReplyServed ==
  ASSUME IInv, NEW i \in Slots,
         \/ AnswerBadge(i) \/ FailBadge(i) \/ AnswerPanel(i) \/ FailPanel(i)
         \/ AnswerPage(i) \/ FailPage(i) \/ AnswerTele(i) \/ FailTele(i)
  PROVE  Served'
<1> USE DEF Browser, Rest
<1>0. Shape /\ Served /\ Calm(Drop(i))
  BY IInvServed, CalmDrop DEF IInv
<1>f. ASSUME FailRequest(i), req' = Drop(i), op' = op
      PROVE  Served'
  <2>1. Confirmed' = Confirmed
    BY <1>f DEF Confirmed
  <2> QED BY <1>0, <1>f, <2>1, Undisturbed DEF FailRequest
<1>a. ASSUME Finish(i), req' = Drop(i), op' = op
      PROVE  Served'
  BY <1>0, <1>a, FinishServed
<1>1. CASE AnswerBadge(i) \/ AnswerTele(i)
  BY <1>1, <1>a DEF AnswerBadge, AnswerTele
<1>2. CASE FailBadge(i) \/ FailPanel(i) \/ FailPage(i) \/ FailTele(i)
  BY <1>2, <1>f DEF FailBadge, FailPanel, FailPage, FailTele
<1>3. CASE AnswerPanel(i)
  <2> DEFINE r == Send(Drop(i), "badge", CountOpts)
  <2>1. PICK n \in {1, 2} : req' = [r EXCEPT ![<<"badge", n>>].then = TRUE]
    BY <1>3 DEF AnswerPanel
  <2>2. Calm(r)
    BY <1>0, AsksWell, CalmSend
  <2> HIDE DEF r
  <2>3. r \in [Slots -> ReqType] /\ <<"badge", n>> \in Slots
    BY <2>2 DEF Calm, Slots
  <2>4. r[<<"badge", n>>] \in ReqType
    BY <2>3
  <2>5. req' = [r EXCEPT ![<<"badge", n>>] = [r[<<"badge", n>>] EXCEPT !.then = TRUE]]
    BY <2>1
  <2>6. req' \in [Slots -> ReqType] /\ \A j \in Slots : Same(req'[j], r[j])
    <3> DEFINE x == [r[<<"badge", n>>] EXCEPT !.then = TRUE]
    <3>1. x \in ReqType /\ Same(x, r[<<"badge", n>>])
      BY <2>4 DEF ReqType, Same
    <3>2. \A j \in Slots : Same(r[j], r[j])
      BY DEF Same
    <3> HIDE DEF x
    <3>3. req' = [r EXCEPT ![<<"badge", n>>] = x]
      BY <2>5 DEF x
    <3> QED BY <2>3, <3>1, <3>2, <3>3
  <2>7. Calm(req')
    BY <2>2, <2>6, CalmMark
  <2> QED BY <1>3, <2>7, FinishServed DEF AnswerPanel
<1>4. CASE AnswerPage(i)
  <2> DEFINE gone == [j \in Slots |-> IF j[1] = "tele" /\ req[j].phase # "free"
                                      THEN [Drop(i)[j] EXCEPT !.cancelled = TRUE] ELSE Drop(i)[j]]
             q == req[i].opts.q
  <2>1. /\ Finish(i) /\ op' = op
        /\ \/ req' = Drop(i)
           \/ req' = gone
           \/ q # 0 /\ req' = Send(gone, "tele", TeleOpts(q))
    BY <1>4 DEF AnswerPage
  <2>2. Calm(gone)
    <3>1. Drop(i) \in [Slots -> ReqType]
      BY <1>0 DEF Calm
    <3>2. ASSUME NEW j \in Slots
          PROVE  gone[j] \in ReqType /\ Same(gone[j], Drop(i)[j])
      <4>1. Drop(i)[j] \in ReqType
        BY <3>1
      <4>2. gone[j] = [Drop(i)[j] EXCEPT !.cancelled = TRUE] \/ gone[j] = Drop(i)[j]
        OBVIOUS
      <4> HIDE DEF gone
      <4> QED BY <4>1, <4>2 DEF ReqType, Same
    <3>3. gone \in [Slots -> ReqType]
      BY <3>2
    <3> HIDE DEF gone
    <3> QED BY <1>0, <3>2, <3>3, CalmMark
  <2>3. q \in Searches
    BY <1>0 DEF Shape, ReqType
  <2> HIDE DEF gone
  <2>4. ASSUME q # 0, req' = Send(gone, "tele", TeleOpts(q)) PROVE Calm(req')
    <3>1. q \in Ips
      BY <2>3, <2>4 DEF Searches
    <3>2. TeleOpts(q) \in OptType /\ WellAsked("tele", TeleOpts(q))
      BY <3>1, AsksWell
    <3> QED BY <2>2, <2>4, <3>2, CalmSend
  <2>5. Calm(req')
    BY <1>0, <2>1, <2>2, <2>4
  <2> QED BY <2>1, <2>5, FinishServed
<1> QED BY <1>1, <1>2, <1>3, <1>4

(* The timers and the controls. *)
LEMMA ControlServed ==
  ASSUME IInv,
         \/ Tick \/ Hide \/ Show \/ RefreshPanel \/ RefreshPage \/ PrevPage \/ NextPage
         \/ FireSearch \/ \E q \in Searchable \cup {0} : TypeSearch(q)
  PROVE  Served'
<1> USE DEF Browser, Rest
<1>0. Shape /\ Served /\ Calm(req)
  BY IInvServed, CalmReq DEF IInv
<1>c. ASSUME op' = op, UNCHANGED <<cache, unfresh>>, Calm(req') PROVE Served'
  <2>1. Confirmed' = Confirmed
    BY <1>c DEF Confirmed
  <2> QED BY <1>0, <1>c, <2>1, Undisturbed
<1>1. page.off \in Nat /\ page.search \in Searches /\ page.filter \in Searches
  BY <1>0 DEF Shape, PageType
<1>2. RefreshSearch \in Searches
  BY <1>1 DEF RefreshSearch
<1>t. ASSUME NEW off \in Nat, NEW q \in Searches, Turn(off, q) PROVE Served'
  <2>1. Calm(Send(req, "page", PageOpts(off, q)))
    BY <1>0, AsksWell, CalmSend
  <2> QED BY <1>c, <1>t, <2>1 DEF Turn
<1>3. Calm(Send(req, "badge", CountOpts)) /\ Calm(Send(req, "panel", PanelOpts))
  BY <1>0, AsksWell, CalmSend
<1>4. CASE Tick
  BY <1>c, <1>3, <1>4 DEF Tick
<1>5. CASE Hide
  BY <1>0, <1>c, <1>5 DEF Hide
<1>6. CASE Show
  <2>1. Calm(Send(Send(req, "badge", CountOpts), "panel", PanelOpts))
    BY <1>3, AsksWell, CalmSend
  <2>2. Calm(req')
    BY <1>3, <1>6, <2>1 DEF Show
  <2> QED BY <1>c, <1>6, <2>2 DEF Show
<1>7. CASE RefreshPanel
  BY <1>c, <1>3, <1>7 DEF RefreshPanel
<1>8. CASE RefreshPage
  <2>1. Calm(Send(req, "page", PageOpts(page.off, RefreshSearch)))
    BY <1>0, <1>1, <1>2, AsksWell, CalmSend
  <2>2. Calm(Send(Send(req, "page", PageOpts(page.off, RefreshSearch)), "badge", CountOpts))
    BY <2>1, AsksWell, CalmSend
  <2> QED BY <1>c, <1>8, <2>2 DEF RefreshPage
<1>9. CASE PrevPage
  <2>1. PICK off \in Nat : Turn(off, page.search)
    BY <1>1, <1>9, SizeAssumption DEF PrevPage
  <2> QED BY <1>1, <1>t, <2>1
<1>10. CASE NextPage
  <2>1. PICK off \in Nat : Turn(off, page.search)
    BY <1>1, <1>10, SizeAssumption DEF NextPage
  <2> QED BY <1>1, <1>t, <2>1
<1>11. CASE FireSearch
  BY <1>1, <1>t, <1>11 DEF FireSearch
<1>12. CASE \E q \in Searchable \cup {0} : TypeSearch(q)
  BY <1>0, <1>c, <1>12 DEF TypeSearch
<1> QED BY <1>4, <1>5, <1>6, <1>7, <1>8, <1>9, <1>10, <1>11, <1>12

(* The posts: a confirmation invalidates, and the refreshes that follow one are
   sent after it. *)
LEMMA PostServed ==
  ASSUME IInv, NEW o \in Ops, PostStep(o)
  PROVE  Served'
<1> USE DEF Browser, Idle
<1>0. Shape /\ Posts /\ Served /\ Calm(req)
  BY IInvServed, CalmReq DEF IInv
<1>1. /\ Confirmed' = Confirmed \/ InvalidateAll
      /\ Confirmed \subseteq Confirmed'
  BY <1>0, PostMoves
<1>i. ASSUME InvalidateAll, unfresh' = unfresh PROVE Served'
  BY <1>0, <1>1, <1>i, Invalidated
<1>c. ASSUME UNCHANGED <<cache, unfresh>>, Calm(req'), Confirmed' = Confirmed PROVE Served'
  BY <1>0, <1>c, Undisturbed
<1>2. CASE ApiSuccess(o) \/ RunCli(o, TRUE)
  BY <1>i, <1>2 DEF ApiSuccess, RunCli
<1>3. CASE \/ AcceptPost(o) \/ Apply(o) \/ ApiRefuses(o) \/ ApiThrows(o) \/ RunCli(o, FALSE)
           \/ \E ip \in Ips, a \in {"ban", "unban"} : Click(o, ip, a)
  <2>1. UNCHANGED <<cache, req, unfresh>>
    BY <1>3 DEF AcceptPost, Apply, ApiRefuses, ApiThrows, RunCli, Click
  <2> QED BY <1>0, <1>1, <1>c, <1>i, <2>1
<1>4. CASE Succeed(o)
  <2>0. /\ UNCHANGED <<cache, unfresh>>
        /\ \/ req' = SendTwice(req, "panel", PanelOpts)
           \/ req' = Send(SendTwice(req, "page", PageOpts(op[o].off, op[o].q)), "badge", CountOpts)
    BY <1>4 DEF Succeed
  <2>1. op[o].off \in Nat /\ op[o].q \in Searches
    BY <1>0 DEF Shape, OpType
  <2>2. Calm(SendTwice(req, "panel", PanelOpts))
    BY <1>0, AsksWell, CalmSendTwice
  <2>3. Calm(SendTwice(req, "page", PageOpts(op[o].off, op[o].q)))
    BY <1>0, <2>1, AsksWell, CalmSendTwice
  <2>4. Calm(Send(SendTwice(req, "page", PageOpts(op[o].off, op[o].q)), "badge", CountOpts))
    BY <2>3, AsksWell, CalmSend
  <2>5. Calm(req')
    BY <2>0, <2>2, <2>4
  <2> QED BY <1>1, <1>c, <1>i, <2>0, <2>5
<1>5. CASE FailOp(o)
  <2>1. Calm(Send(req, "panel", PanelOpts))
    BY <1>0, AsksWell, CalmSend
  <2>2. UNCHANGED <<cache, unfresh>> /\ Calm(req')
    BY <1>0, <1>5, <2>1 DEF FailOp
  <2> QED BY <1>1, <1>c, <1>i, <2>2
<1> QED BY <1>2, <1>3, <1>4, <1>5 DEF PostStep

(* Every step keeps the requests and the cache in time. *)
LEMMA NextServed ==
  ASSUME IInv, [Next]_vars
  PROVE  Served'
<1> USE DEF Browser
<1>0. Shape /\ Served /\ Calm(req)
  BY IInvServed, CalmReq DEF IInv
<1>c. ASSUME op' = op, UNCHANGED <<cache, unfresh, req>> PROVE Served'
  <2>1. Confirmed' = Confirmed
    BY <1>c DEF Confirmed
  <2> QED BY <1>0, <1>c, <2>1, Undisturbed
<1>1. CASE \E i \in Slots, ok \in BOOLEAN : Serve(i, ok)
  BY <1>1, ServeServed
<1>2. CASE \E ip \in Searchable : Expire(ip)
  BY <1>0, <1>2, ExpireServed, IpAssumption
<1>3. CASE \E o \in Ops : PostStep(o)
  BY <1>3, PostServed
<1>4. CASE \E i \in Slots : \/ AnswerBadge(i) \/ FailBadge(i) \/ AnswerPanel(i) \/ FailPanel(i)
                            \/ AnswerPage(i) \/ FailPage(i) \/ AnswerTele(i) \/ FailTele(i)
  BY <1>4, ReplyServed
<1>5. CASE \/ Tick \/ Hide \/ Show \/ RefreshPanel \/ RefreshPage \/ PrevPage \/ NextPage
           \/ FireSearch \/ \E q \in Searchable \cup {0} : TypeSearch(q)
  BY <1>5, ControlServed
<1>6. CASE \/ \E ip \in Ips : LiveChange(ip)
           \/ \E ok \in BOOLEAN : ExportBans(ok)
           \/ SyncFile
  BY <1>6, <1>c DEF LiveChange, ExportBans, SyncFile
<1>7. CASE \E d \in {"flag", "pass", "cleanup"} : DemoScript(d)
  <2>1. InvalidateAll /\ op' = op /\ unfresh' = unfresh
    BY <1>7 DEF DemoScript
  <2>2. Confirmed \subseteq Confirmed'
    BY <2>1 DEF Confirmed
  <2> QED BY <1>0, <2>1, <2>2, Invalidated
<1>8. CASE UNCHANGED vars
  BY <1>8, <1>c DEF vars
<1> QED
  BY <1>1, <1>2, <1>3, <1>4, <1>5, <1>6, <1>7, <1>8
     DEF Next, ServerStep, BrowserStep, OtherStep, PostStep
-----------------------------------------------------------------------------
(* The page: only an answer gives it rows, and then with all that goes with
   them. *)
Paged == page \in PageType /\ PageIsOneAnswer

(* Flags, timer and filter leave what is shown as it was; no rows, no claim. *)
LEMMA PageKept ==
  ASSUME Paged, page' \in PageType,
         \/ page'.rows = {}
         \/ /\ page'.rows = page.rows /\ page'.total = page.total /\ page'.off = page.off
            /\ page'.search = page.search /\ page'.preview = page.preview
  PROVE  Paged'
  BY DEF Paged, PageIsOneAnswer

(* An answer sets rows, count, offset, search and mark together. *)
LEMMA AnswerPaged ==
  ASSUME IInv, NEW i \in Slots, AnswerPage(i)
  PROVE  Paged'
<1> DEFINE o == req[i].opts
           s == req[i].snap
           a == Pack(o, s)
<1>0. req[i] \in ReqType /\ page \in PageType
  BY DEF IInv, Shape
<1>1. o \in OptType /\ s \in SnapType /\ s.ips \in SUBSET Ips /\ s.source \in Sources
  BY <1>0 DEF ReqType, OptType, SnapType
<1>2. o = PageOpts(o.off, o.q)
  <2>1. i[1] = "page" /\ req[i].phase = "read"
    BY DEF AnswerPage, Finish
  <2> QED BY <2>1 DEF IInv, Requests, Sent
<1>3. /\ a.rows \in SUBSET Ips /\ a.count \in Nat /\ a.preview \in BOOLEAN
      /\ a = Pack(o, [ips |-> s.ips, source |-> s.source, seen |-> {}])
  BY <1>1, PackFacts
<1>4. page' = [page EXCEPT !.rows = a.rows, !.total = a.count, !.preview = a.preview,
                           !.off = o.off, !.search = o.q, !.loading = FALSE, !.refreshing = FALSE]
  BY DEF AnswerPage
<1>5. o.off \in Nat /\ o.q \in Searches
  BY <1>1 DEF OptType
<1> HIDE DEF o, s, a
<1>6. /\ page' \in PageType
      /\ page'.rows = a.rows /\ page'.total = a.count /\ page'.preview = a.preview
      /\ page'.off = o.off /\ page'.search = o.q
  BY <1>0, <1>3, <1>4, <1>5 DEF PageType
<1>7. a = Pack(PageOpts(page'.off, page'.search), [ips |-> s.ips, source |-> s.source, seen |-> {}])
  BY <1>2, <1>3, <1>6
<1> QED BY <1>1, <1>6, <1>7 DEF Paged, PageIsOneAnswer

(* Every step leaves the page with one answer. *)
LEMMA NextPaged ==
  ASSUME IInv, [Next]_vars
  PROVE  Paged'
<1> USE DEF Browser, Rest, Idle
<1>0. Paged /\ page \in PageType
  BY DEF IInv, Shape, Paged
<1>k. ASSUME page' = page PROVE Paged'
  BY <1>0, <1>k, PageKept
<1>l. ASSUME \E r, t \in BOOLEAN, f \in Searches :
               page' = [page EXCEPT !.refreshing = r, !.timer = t, !.filter = f]
      PROVE  Paged'
  <2>1. PICK r \in BOOLEAN, t \in BOOLEAN, f \in Searches :
          page' = [page EXCEPT !.refreshing = r, !.timer = t, !.filter = f]
    BY <1>l
  <2>2. /\ page' \in PageType /\ page'.rows = page.rows /\ page'.total = page.total
        /\ page'.off = page.off /\ page'.search = page.search /\ page'.preview = page.preview
    BY <1>0, <2>1 DEF PageType
  <2> QED BY <1>0, <2>2, PageKept
<1>m. /\ page.refreshing \in BOOLEAN /\ page.timer \in BOOLEAN /\ page.filter \in Searches
      /\ page = [page EXCEPT !.refreshing = page.refreshing, !.timer = page.timer,
                             !.filter = page.filter]
  BY <1>0 DEF PageType
<1>n. ASSUME NEW off, NEW q, page' = LoadPage(off, q) PROVE Paged'
  <2>1. page' = [page EXCEPT !.refreshing = TRUE, !.timer = page.timer, !.filter = page.filter]
    BY <1>0, <1>n DEF LoadPage, PageType
  <2> QED BY <1>l, <1>m, <2>1
<1>1. CASE \/ \E i \in Slots, ok \in BOOLEAN : Serve(i, ok)
           \/ \E ip \in Searchable : Expire(ip)
           \/ \E ip \in Ips : LiveChange(ip)
           \/ \E ok \in BOOLEAN : ExportBans(ok)
           \/ SyncFile
           \/ \E d \in {"flag", "pass", "cleanup"} : DemoScript(d)
           \/ UNCHANGED vars
  BY <1>k, <1>1 DEF Serve, Expire, LiveChange, ExportBans, SyncFile, DemoScript, vars
<1>2. CASE \E o \in Ops :
             \/ AcceptPost(o) \/ Apply(o) \/ ApiSuccess(o) \/ ApiRefuses(o) \/ ApiThrows(o)
             \/ \E ok \in BOOLEAN : RunCli(o, ok)
             \/ FailOp(o)
             \/ \E ip \in Ips, a \in {"ban", "unban"} : Click(o, ip, a)
  BY <1>k, <1>2 DEF AcceptPost, Apply, ApiSuccess, ApiRefuses, ApiThrows,
     RunCli, FailOp, Click
<1>3. ASSUME NEW o \in Ops, Succeed(o) PROVE Paged'
  <2>0. op[o].ip \in Searches
    BY DEF IInv, Shape, OpType
  <2>1. \/ page' = page
        \/ page' = LoadPage(op[o].off, op[o].q)
        \/ page' = [LoadPage(op[o].off, op[o].q) EXCEPT !.filter = op[o].ip, !.timer = TRUE]
    BY <1>3 DEF Succeed
  <2>2. [LoadPage(op[o].off, op[o].q) EXCEPT !.filter = op[o].ip, !.timer = TRUE]
        = [page EXCEPT !.refreshing = TRUE, !.timer = TRUE, !.filter = op[o].ip]
    BY <1>0 DEF LoadPage, PageType
  <2>3. ASSUME page' = [page EXCEPT !.refreshing = TRUE, !.timer = TRUE, !.filter = op[o].ip]
        PROVE  Paged'
    BY <1>l, <2>0, <2>3
  <2> QED BY <1>k, <1>n, <2>1, <2>2, <2>3
<1>4. ASSUME NEW i \in Slots, AnswerBadge(i) PROVE Paged'
  <2>1. page' = page \/ page' = [page EXCEPT !.timer = TRUE]
    BY <1>4 DEF AnswerBadge
  <2>2. [page EXCEPT !.timer = TRUE]
        = [page EXCEPT !.refreshing = page.refreshing, !.timer = TRUE, !.filter = page.filter]
    BY <1>0 DEF PageType
  <2>3. ASSUME page' = [page EXCEPT !.refreshing = page.refreshing, !.timer = TRUE,
                                    !.filter = page.filter]
        PROVE  Paged'
    BY <1>l, <1>m, <2>3
  <2> QED BY <1>k, <2>1, <2>2, <2>3
<1>5. CASE \E i \in Slots : \/ FailBadge(i) \/ AnswerPanel(i) \/ FailPanel(i)
                            \/ AnswerTele(i) \/ FailTele(i)
  BY <1>k, <1>5 DEF FailBadge, AnswerPanel, FailPanel, AnswerTele, FailTele
<1>6. ASSUME NEW i \in Slots, AnswerPage(i) PROVE Paged'
  BY <1>6, AnswerPaged
<1>7. ASSUME NEW i \in Slots, FailPage(i) PROVE Paged'
  <2>1. page' = [page EXCEPT !.rows = {}, !.loading = FALSE, !.refreshing = FALSE]
    BY <1>7 DEF FailPage
  <2>2. page' \in PageType /\ page'.rows = {}
    BY <1>0, <2>1 DEF PageType
  <2> QED BY <1>0, <2>2, PageKept
<1>8. CASE Tick \/ Hide \/ Show \/ RefreshPanel
  BY <1>k, <1>8 DEF Tick, Hide, Show, RefreshPanel
<1>9. CASE RefreshPage \/ PrevPage \/ NextPage
  BY <1>n, <1>9 DEF RefreshPage, PrevPage, NextPage
<1>10. CASE FireSearch
  <2>1. page' = [LoadPage(0, page.filter) EXCEPT !.timer = FALSE]
    BY <1>10 DEF FireSearch
  <2>2. page' = [page EXCEPT !.refreshing = TRUE, !.timer = FALSE, !.filter = page.filter]
    BY <1>0, <2>1 DEF LoadPage, PageType
  <2> QED BY <1>l, <1>m, <2>2
<1>11. ASSUME NEW q \in Searchable \cup {0}, TypeSearch(q) PROVE Paged'
  <2>1. page' = [page EXCEPT !.filter = q, !.timer = TRUE] /\ q \in Searches
    BY <1>11, IpAssumption DEF TypeSearch, Searches
  <2>2. page' = [page EXCEPT !.refreshing = page.refreshing, !.timer = TRUE, !.filter = q]
    BY <1>0, <2>1 DEF PageType
  <2> QED BY <1>l, <1>m, <2>1, <2>2
<1> QED
  BY <1>1, <1>2, <1>3, <1>4, <1>5, <1>6, <1>7, <1>8, <1>9, <1>10, <1>11
     DEF Next, ServerStep, BrowserStep, OtherStep

(* The posts and the lists. *)
ListedRows ==
  /\ op \in [Ops -> OpType] /\ Posts
  /\ kernel \in SUBSET Ips /\ live \in SUBSET Ips /\ file \in SUBSET Ips

(* Every step keeps the posts in order and the lists lists of addresses. *)
LEMMA NextListed ==
  ASSUME IInv, [Next]_vars
  PROVE  ListedRows'
<1> USE DEF Browser, Rest
<1>0. Shape /\ Posts /\ ListedRows
  BY DEF IInv, Shape, ListedRows
<1>k. ASSUME op' = op, kernel' \in SUBSET Ips, live' \in SUBSET Ips, file' \in SUBSET Ips
      PROVE  ListedRows'
  BY <1>0, <1>k DEF ListedRows, Posts
<1>1. CASE \E o \in Ops : PostStep(o)
  BY <1>0, <1>1, PostMoves DEF ListedRows
<1>2. ASSUME NEW ip \in Ips, LiveChange(ip) PROVE ListedRows'
  BY <1>0, <1>2, <1>k DEF LiveChange, ListedRows
<1>3. CASE SyncFile \/ \E ok \in BOOLEAN : ExportBans(ok)
  BY <1>0, <1>3, <1>k DEF SyncFile, ExportBans, ListedRows
<1>4. ASSUME UNCHANGED <<op, kernel, live, file>> PROVE ListedRows'
  BY <1>0, <1>4, <1>k DEF ListedRows
<1>5. CASE \/ \E i \in Slots, ok \in BOOLEAN : Serve(i, ok)
           \/ \E ip \in Searchable : Expire(ip)
           \/ \E d \in {"flag", "pass", "cleanup"} : DemoScript(d)
           \/ UNCHANGED vars
  BY <1>4, <1>5 DEF Serve, Expire, DemoScript, vars
<1>6. CASE \E i \in Slots : \/ AnswerBadge(i) \/ FailBadge(i) \/ AnswerPanel(i) \/ FailPanel(i)
                            \/ AnswerPage(i) \/ FailPage(i) \/ AnswerTele(i) \/ FailTele(i)
  BY <1>4, <1>6 DEF AnswerBadge, FailBadge, AnswerPanel, FailPanel, AnswerPage,
     FailPage,
                    AnswerTele, FailTele
<1>7. CASE \/ Tick \/ Hide \/ Show \/ RefreshPanel \/ RefreshPage \/ PrevPage \/ NextPage
           \/ FireSearch \/ \E q \in Searchable \cup {0} : TypeSearch(q)
  BY <1>4, <1>7 DEF Tick, Hide, Show, RefreshPanel, RefreshPage, PrevPage,
     NextPage,
                    FireSearch, TypeSearch, Turn
<1> QED
  BY <1>1, <1>2, <1>3, <1>5, <1>6, <1>7
     DEF Next, ServerStep, BrowserStep, OtherStep, PostStep

(* The invariant is inductive. *)
LEMMA StepIInv == IInv /\ [Next]_vars => IInv'
<1> SUFFICES ASSUME IInv, [Next]_vars PROVE IInv'
  OBVIOUS
<1>1. Served' /\ Paged' /\ ListedRows'
  BY NextServed, NextPaged, NextListed
<1> QED BY <1>1 DEF IInv, Shape, Served, Paged, ListedRows, FreshAfterBan

-----------------------------------------------------------------------------
(* The invariant of posts, requests, cache and page holds in every state. *)
THEOREM ViewInvariant == Spec => []IInv
<1>1. Init => IInv
  BY InitIInv
<1>2. IInv /\ [Next]_vars => IInv'
  BY StepIInv
<1> QED BY <1>1, <1>2, PTL DEF Spec

(* Nothing older than the last success: every answer of /api/bans to a request
   that was sent after the ban route had answered a post with success was read
   after that success, except through an entry of the Telegram panel that a
   handler stored after the invalidation. *)
THEOREM AnswersFollowSuccess == Spec => []FreshAfterBan
<1>1. IInv => FreshAfterBan
  BY DEF IInv
<1> QED BY ViewInvariant, <1>1, PTL

(* The rows of the bans page, their count, offset, search and preview mark come
   from one answer, in whatever order the answers of overlapping loads arrive. *)
THEOREM PageIsConsistent == Spec => []PageIsOneAnswer
<1>1. IInv => PageIsOneAnswer
  BY DEF IInv
<1> QED BY ViewInvariant, <1>1, PTL

-----------------------------------------------------------------------------
(***************************************************************************)
(* The operations centre.  The hard part is not the state but the merge:   *)
(* sources of any length are concatenated, reduced to one ban per address, *)
(* sorted, cut, freed of duplicates and sorted again, and the timeline     *)
(* must come out in order, without repetitions and without dropping        *)
(* anything newer than what it keeps.                                      *)
(*                                                                         *)
(* All of filter, sort and reduce are one operator, Listed: the elements   *)
(* of a finite set in a linear order.  SocListed shows once, from the      *)
(* pigeonhole principle and without induction, that it enumerates the set  *)
(* in that order; the rest follows lists from there.  On the way an entry  *)
(* is followed as a member of the set of what a list holds, and the one    *)
(* ban per address as a fact about that set (OneBan), which no later step  *)
(* can lose.                                                               *)
(*                                                                         *)
(* The invariant of the state (SocInv) is small: what is answered and      *)
(* shown was made of sources the system had, the pointer is on a marker,   *)
(* and the cache has one answer for an address and keeps its limit.        *)
(***************************************************************************)

\* p counts the elements of K.
Counts(p, K) ==
  /\ p \in [1..Cardinality(K) -> K]
  /\ \A i \in K : \E k \in 1..Cardinality(K) : p[k] = i
  /\ \A k, l \in 1..Cardinality(K) : p[k] = p[l] => k = l

\* before is a linear order of K: before[i] holds i and what precedes it.
Linear(before, K) ==
  /\ before \in [K -> SUBSET K]
  /\ \A i \in K : i \in before[i]
  /\ \A i, j \in K : i # j =>
       \/ before[i] \subseteq before[j] /\ j \notin before[i]
       \/ before[j] \subseteq before[i] /\ i \notin before[j]

\* q lists the values of s as p counts them.
Lists(q, s, p, K) == q = [k \in 1..Cardinality(K) |-> s[p[k]]]

\* p goes through K in the order of before.
InOrder(p, K, before) ==
  \A k, l \in 1..Cardinality(K) :
    k < l => p[k] \in before[p[l]] /\ p[l] \notin before[p[k]]


\* What is listed are the elements of K, one after the other.
LEMMA SocListed ==
  ASSUME NEW s, NEW K, NEW before, IsFiniteSet(K), Linear(before, K)
  PROVE  \E p : /\ Counts(p, K)
                /\ Lists(Listed(s, K, before), s, p, K)
                /\ InOrder(p, K, before)
<1> DEFINE n == Cardinality(K)
           rank == [i \in K |-> Cardinality(before[i])]
<1>1. n \in Nat
  BY FS_CardinalityType
<1>2. IsFiniteSet(1..n) /\ Cardinality(1..n) = n
  BY <1>1, FS_Interval
<1>3. ASSUME NEW i \in K
      PROVE  rank[i] \in 1..n /\ IsFiniteSet(before[i])
  <2>1. before[i] \in SUBSET K /\ i \in before[i]
    BY DEF Linear
  <2>2. /\ IsFiniteSet(before[i])
        /\ Cardinality(before[i]) <= n
    BY <2>1, FS_Subset
  <2>3. Cardinality(before[i]) \in Nat
    BY <2>2, FS_CardinalityType
  <2>4. Cardinality(before[i]) # 0
    BY <2>1, <2>2, FS_EmptySet
  <2>5. QED
    BY <1>1, <2>2, <2>3, <2>4
<1>4. ASSUME NEW i \in K, NEW j \in K, before[i] \subseteq before[j],
             j \notin before[i]
      PROVE  rank[i] < rank[j]
  <2>1. before[i] \in SUBSET before[j] /\ before[i] # before[j]
    BY <1>4 DEF Linear
  <2>2. /\ Cardinality(before[i]) <= Cardinality(before[j])
        /\ Cardinality(before[i]) # Cardinality(before[j])
    BY <2>1, <1>3, FS_Subset
  <2>3. QED
    BY <2>2, <1>3, <1>1
<1>5. ASSUME NEW i \in K, NEW j \in K, rank[i] = rank[j]
      PROVE  i = j
  <2>1. rank[i] \in Int /\ rank[j] \in Int
    BY <1>3, <1>1
  <2>2. ~(rank[i] < rank[j]) /\ ~(rank[j] < rank[i])
    BY <2>1, <1>5
  <2>3. QED
    BY <2>2, <1>4 DEF Linear
<1>6. rank \in Injection(K, 1..n)
  <2>1. rank \in [K -> 1..n]
    BY <1>3
  <2>2. QED
    BY <2>1, <1>5 DEF Injection, IsInjective
<1>7. rank \in Surjection(K, 1..n)
  BY <1>6, <1>2, FS_Injection
<1> DEFINE p == [k \in 1..n |->
                  CHOOSE i \in K : Cardinality(before[i]) = k]
<1>8. ASSUME NEW k \in 1..n
      PROVE  p[k] \in K /\ rank[p[k]] = k
  <2>1. \E i \in K : rank[i] = k
    BY <1>7 DEF Surjection
  <2>2. \E i \in K : Cardinality(before[i]) = k
    BY <2>1
  <2>3. p[k] = CHOOSE i \in K : Cardinality(before[i]) = k
    BY Zenon
  <2>4. p[k] \in K /\ Cardinality(before[p[k]]) = k
    BY <2>2, <2>3, Zenon
  <2>5. QED
    BY <2>4
<1>9. Listed(s, K, before) = [k \in 1..n |-> s[p[k]]]
  <2>1. Listed(s, K, before)
          = [k \in 1..Cardinality(K) |->
               s[CHOOSE i \in K : Cardinality(before[i]) = k]]
    BY Zenon DEF Listed
  <2>2. Cardinality(K) = n
    OBVIOUS
  <2>3. \A k \in 1..n :
          p[k] = CHOOSE i \in K : Cardinality(before[i]) = k
    BY Zenon
  <2>4. QED
    BY <2>1, <2>2, <2>3
<1>10. p \in [1..n -> K]
  BY <1>8
<1> HIDE DEF p
<1>11. Counts(p, K)
  <2>1. p \in [1..n -> K]
    BY <1>10
  <2>2. ASSUME NEW i \in K PROVE \E k \in 1..n : p[k] = i
    <3>1. rank[i] \in 1..n
      BY <1>3
    <3>2. p[rank[i]] \in K /\ rank[p[rank[i]]] = rank[i]
      BY <1>8, <3>1
    <3>3. p[rank[i]] = i
      BY <1>5, <3>2
    <3>4. QED
      BY <3>1, <3>3
  <2>3. ASSUME NEW k \in 1..n, NEW l \in 1..n, p[k] = p[l] PROVE k = l
    BY <1>8, <2>3
  <2>4. QED
    BY <2>1, <2>2, <2>3 DEF Counts
<1>12. ASSUME NEW k \in 1..n, NEW l \in 1..n, k < l
       PROVE  p[k] \in before[p[l]] /\ p[l] \notin before[p[k]]
  <2>1. /\ p[k] \in K /\ rank[p[k]] = k
        /\ p[l] \in K /\ rank[p[l]] = l
    BY <1>8
  <2>2. p[k] # p[l]
    BY <2>1, <1>12, <1>1
  <2>3. CASE before[p[k]] \subseteq before[p[l]] /\ p[l] \notin before[p[k]]
    BY <2>1, <2>3 DEF Linear
  <2>4. CASE before[p[l]] \subseteq before[p[k]] /\ p[k] \notin before[p[l]]
    <3>1. rank[p[l]] < rank[p[k]]
      BY <2>1, <2>4, <1>4
    <3>2. l < k
      BY <3>1, <2>1
    <3>3. QED
      BY <3>2, <1>12, <1>1
  <2>5. QED
    BY <2>1, <2>2, <2>3, <2>4 DEF Linear
<1>13. InOrder(p, K, before)
  BY <1>12 DEF InOrder
<1>14. Lists(Listed(s, K, before), s, p, K)
  BY <1>9 DEF Lists
<1>15. QED
  BY <1>11, <1>13, <1>14

\* No entry of s is listed twice.
Distinct(s) == \A i, j \in DOMAIN s : s[i] = s[j] => i = j

\* What is listed is of the elements of K, each once.
LEMMA SocTake ==
  ASSUME NEW s, NEW K, NEW p, NEW q, IsFiniteSet(K), Counts(p, K),
         Lists(q, s, p, K)
  PROVE  /\ \A X : (\A i \in K : s[i] \in X)
                     => q \in Seq(X) /\ Len(q) = Cardinality(K)
         /\ ToSet(q) = {s[i] : i \in K}
         /\ (\A i, j \in K : s[i] = s[j] => i = j) => Distinct(q)
<1>1. Cardinality(K) \in Nat
  BY FS_CardinalityType
<1>2. \A k \in 1..Cardinality(K) : p[k] \in K
  BY DEF Counts
<1>3. ASSUME NEW X, \A i \in K : s[i] \in X
      PROVE  q \in Seq(X) /\ Len(q) = Cardinality(K)
  BY <1>1, <1>2, <1>3 DEF Lists
<1>4. DOMAIN q = 1..Cardinality(K) /\ \A k \in DOMAIN q : q[k] = s[p[k]]
  BY DEF Lists
<1>5. ToSet(q) = {s[i] : i \in K}
  BY <1>2, <1>4 DEF Counts, ToSet
<1>6. ASSUME \A i, j \in K : s[i] = s[j] => i = j PROVE Distinct(q)
  BY <1>2, <1>4, <1>6 DEF Counts, Distinct
<1>7. QED
  BY <1>3, <1>5, <1>6

\* A linear order as one usually says it.
LEMMA SocLinear ==
  ASSUME NEW K, NEW b \in [K -> SUBSET K],
         \A i \in K : i \in b[i],
         \A i, j \in K : i \in b[j] \/ j \in b[i],
         \A i, j \in K : i \in b[j] /\ j \in b[i] => i = j,
         \A i, j, k \in K : i \in b[j] /\ j \in b[k] => i \in b[k]
  PROVE  Linear(b, K)
<1>1. ASSUME NEW i \in K, NEW j \in K, i # j, i \in b[j]
      PROVE  b[i] \subseteq b[j] /\ j \notin b[i]
  BY <1>1
<1>2. QED
  BY <1>1 DEF Linear

\* Of a finite set in a linear order one element is the last.
LEMMA SocLast ==
  ASSUME NEW K, NEW b, IsFiniteSet(K), K # {}, Linear(b, K)
  PROVE  \E m \in K : \A j \in K : j \in b[m]
<1>1. PICK p : Counts(p, K) /\ InOrder(p, K, b)
  BY SocListed
<1> DEFINE n == Cardinality(K)
<1>2. n \in Nat /\ n # 0
  BY FS_CardinalityType, FS_EmptySet
<1>3. n \in 1..n
  BY <1>2
<1>4. p[n] \in K
  BY <1>1, <1>3 DEF Counts
<1>5. ASSUME NEW j \in K PROVE j \in b[p[n]]
  <2>1. PICK k \in 1..n : p[k] = j
    BY <1>1 DEF Counts
  <2>2. CASE k = n
    BY <2>1, <2>2 DEF Linear
  <2>3. CASE k # n
    <3>1. k < n
      BY <2>3, <1>2
    <3>2. QED
      BY <3>1, <2>1, <1>1, <1>3 DEF InOrder
  <2>4. QED
    BY <2>2, <2>3
<1>6. QED
  BY <1>4, <1>5

\* The order of the positions.
LEMMA SocPositions ==
  ASSUME NEW K, \A i \in K : i \in Int
  PROVE  /\ Linear([i \in K |-> {j \in K : j <= i}], K)
         /\ Linear([i \in K |-> {j \in K : j >= i}], K)
<1> DEFINE up == [i \in K |-> {j \in K : j <= i}]
<1>1. \A i, j \in K : i \in up[j] <=> i <= j
  OBVIOUS
<1>2. up \in [K -> SUBSET K]
  OBVIOUS
<1> HIDE DEF up
<1>3. Linear(up, K)
  <2>1. \A i \in K : i \in up[i]
    BY <1>1
  <2>2. \A i, j \in K : i \in up[j] \/ j \in up[i]
    BY <1>1
  <2>3. \A i, j \in K : i \in up[j] /\ j \in up[i] => i = j
    BY <1>1
  <2>4. \A i, j, k \in K : i \in up[j] /\ j \in up[k] => i \in up[k]
    BY <1>1
  <2>5. QED
    BY <1>2, <2>1, <2>2, <2>3, <2>4, SocLinear
<1> DEFINE down == [i \in K |-> {j \in K : j >= i}]
<1>4. \A i, j \in K : i \in down[j] <=> i >= j
  OBVIOUS
<1>5. down \in [K -> SUBSET K]
  OBVIOUS
<1> HIDE DEF down
<1>6. Linear(down, K)
  <2>1. \A i \in K : i \in down[i]
    BY <1>4
  <2>2. \A i, j \in K : i \in down[j] \/ j \in down[i]
    BY <1>4
  <2>3. \A i, j \in K : i \in down[j] /\ j \in down[i] => i = j
    BY <1>4
  <2>4. \A i, j, k \in K : i \in down[j] /\ j \in down[k] => i \in down[k]
    BY <1>4
  <2>5. QED
    BY <1>5, <2>1, <2>2, <2>3, <2>4, SocLinear
<1>7. QED
  BY <1>3, <1>6 DEF up, down

\* The entries at some positions.
LEMMA SocPicked ==
  ASSUME NEW X, NEW s, NEW K, IsFiniteSet(K), \A i \in K : i \in Int,
         \A i \in K : s[i] \in X
  PROVE  /\ Where(s, K) \in Seq(X)
         /\ Len(Where(s, K)) = Cardinality(K)
         /\ ToSet(Where(s, K)) = {s[i] : i \in K}
         /\ (\A i, j \in K : s[i] = s[j] => i = j) => Distinct(Where(s, K))
<1> DEFINE b == [i \in K |-> {j \in K : j <= i}]
<1>1. Linear(b, K)
  BY SocPositions
<1>2. Where(s, K) = Listed(s, K, b)
  BY Zenon DEF Where
<1> HIDE DEF b
<1>3. PICK p : Counts(p, K) /\ Lists(Where(s, K), s, p, K)
  BY <1>1, <1>2, SocListed
<1>4. /\ Where(s, K) \in Seq(X) /\ Len(Where(s, K)) = Cardinality(K)
      /\ ToSet(Where(s, K)) = {s[i] : i \in K}
  BY <1>3, SocTake
<1>5. ASSUME \A i, j \in K : s[i] = s[j] => i = j
      PROVE  Distinct(Where(s, K))
  BY <1>3, <1>5, SocTake
<1>6. QED
  BY <1>4, <1>5

\* The same of a sequence.
LEMMA SocWhere ==
  ASSUME NEW X, NEW s \in Seq(X), NEW K \in SUBSET DOMAIN s
  PROVE  /\ IsFiniteSet(K)
         /\ Where(s, K) \in Seq(X)
         /\ Len(Where(s, K)) = Cardinality(K)
         /\ ToSet(Where(s, K)) = {s[i] : i \in K}
         /\ (\A i, j \in K : s[i] = s[j] => i = j) => Distinct(Where(s, K))
<1>1. DOMAIN s = 1..Len(s) /\ Len(s) \in Nat
  OBVIOUS
<1>2. IsFiniteSet(DOMAIN s)
  BY <1>1, FS_Interval
<1>3. IsFiniteSet(K)
  BY <1>2, FS_Subset
<1>4. \A i \in K : i \in Int
  BY <1>1
<1>5. \A i \in K : s[i] \in X
  BY <1>1
<1>6. QED
  BY <1>3, <1>4, <1>5, SocPicked

\* A set of positions has a least one.
LEMMA SocLeast ==
  ASSUME NEW n \in Nat, NEW K \in SUBSET (1..n), K # {}
  PROVE  \E m \in K : \A j \in K : m <= j
<1> DEFINE b == [i \in K |-> {j \in K : j >= i}]
<1>1. IsFiniteSet(K)
  <2>1. IsFiniteSet(1..n)
    BY FS_Interval
  <2>2. QED
    BY <2>1, FS_Subset
<1>2. Linear(b, K)
  <2>1. \A i \in K : i \in Int
    OBVIOUS
  <2>2. QED
    BY <2>1, SocPositions
<1>3. \A i \in K : \A j \in b[i] : i <= j
  OBVIOUS
<1> HIDE DEF b
<1>4. QED
  BY <1>1, <1>2, <1>3, SocLast

\* The first of every group of equal entries: each entry once.
LEMMA SocFirsts ==
  ASSUME NEW X, NEW s \in Seq(X)
  PROVE  /\ Firsts(s) \in Seq(X)
         /\ ToSet(Firsts(s)) = ToSet(s)
         /\ Distinct(Firsts(s))
<1> DEFINE K == {i \in DOMAIN s : \A j \in 1..(i - 1) : s[j] # s[i]}
<1>1. DOMAIN s = 1..Len(s) /\ Len(s) \in Nat
  OBVIOUS
<1>2. Firsts(s) = Where(s, K)
  BY DEF Firsts
<1>3. K \in SUBSET DOMAIN s
  OBVIOUS
<1>4. ASSUME NEW i \in K, NEW j \in K, s[i] = s[j] PROVE i = j
  <2>1. ~(i < j) /\ ~(j < i)
    BY <1>1, <1>4
  <2>2. QED
    BY <2>1, <1>1
<1>5. ASSUME NEW i \in DOMAIN s PROVE \E m \in K : s[m] = s[i]
  <2> DEFINE E == {j \in DOMAIN s : s[j] = s[i]}
  <2>1. E \in SUBSET (1..Len(s)) /\ E # {}
    BY <1>1
  <2>2. PICK m \in E : \A j \in E : m <= j
    BY <2>1, <1>1, SocLeast
  <2>3. m \in K
    BY <2>2, <1>1
  <2>4. QED
    BY <2>2, <2>3
<1>6. {s[i] : i \in K} = ToSet(s)
  BY <1>3, <1>5 DEF ToSet
<1> HIDE DEF K
<1>7. /\ Where(s, K) \in Seq(X)
      /\ ToSet(Where(s, K)) = {s[i] : i \in K}
      /\ Distinct(Where(s, K))
  BY <1>3, <1>4, SocWhere
<1>8. QED
  BY <1>2, <1>6, <1>7

-----------------------------------------------------------------------------
SocSources == {"api", "list", "tree", "status"} \union STRING
SocEntries == [kind : Kinds, src : SocSources, ts : Int, ip : Nat]

\* The newest first.
Newer(s) == \A i, j \in DOMAIN s : i < j => s[i].ts >= s[j].ts

\* Sorting: the same entries, in order.
LEMMA SocSort ==
  ASSUME NEW s \in Seq(SocEntries)
  PROVE  /\ SortNewest(s) \in Seq(SocEntries)
         /\ ToSet(SortNewest(s)) = ToSet(s)
         /\ Newer(SortNewest(s))
         /\ Distinct(s) => Distinct(SortNewest(s))
<1> DEFINE K == DOMAIN s
           b == [i \in K |-> {j \in K : \/ s[j].ts > s[i].ts
                                        \/ s[j].ts = s[i].ts /\ j <= i}]
           q == SortNewest(s)
<1>1. K = 1..Len(s) /\ Len(s) \in Nat
  OBVIOUS
<1>2. IsFiniteSet(K)
  BY <1>1, FS_Interval
<1>3. \A i \in K : s[i].ts \in Int /\ i \in Int
  <2>1. \A i \in K : s[i] \in SocEntries
    BY <1>1
  <2>2. QED
    BY <2>1, <1>1 DEF SocEntries
<1>4. q = Listed(s, K, b)
  BY Zenon DEF SortNewest
<1>5. \A i, j \in K : i \in b[j] <=> \/ s[i].ts > s[j].ts
                                     \/ s[i].ts = s[j].ts /\ i <= j
  OBVIOUS
<1>6. b \in [K -> SUBSET K]
  OBVIOUS
<1> HIDE DEF b, q, K
<1>7. Linear(b, K)
  <2>1. \A i \in K : i \in b[i]
    BY <1>3, <1>5
  <2>2. \A i, j \in K : i \in b[j] \/ j \in b[i]
    BY <1>3, <1>5
  <2>3. \A i, j \in K : i \in b[j] /\ j \in b[i] => i = j
    BY <1>3, <1>5
  <2>4. \A i, j, k \in K : i \in b[j] /\ j \in b[k] => i \in b[k]
    BY <1>3, <1>5
  <2>5. QED
    BY <1>6, <2>1, <2>2, <2>3, <2>4, SocLinear
<1>8. PICK p : Counts(p, K) /\ Lists(q, s, p, K) /\ InOrder(p, K, b)
  BY <1>2, <1>4, <1>7, SocListed
<1>9. /\ q \in Seq(SocEntries) /\ ToSet(q) = {s[i] : i \in K}
      /\ (\A i, j \in K : s[i] = s[j] => i = j) => Distinct(q)
  <2>1. \A i \in K : s[i] \in SocEntries
    BY <1>1
  <2>2. QED
    BY <1>2, <1>8, <2>1, SocTake
<1>10. Newer(q)
  <2> SUFFICES ASSUME NEW k \in DOMAIN q, NEW l \in DOMAIN q, k < l
               PROVE  q[k].ts >= q[l].ts
    BY DEF Newer
  <2>1. /\ DOMAIN q = 1..Cardinality(K)
        /\ q[k] = s[p[k]] /\ q[l] = s[p[l]]
    BY <1>8 DEF Lists
  <2>2. p[k] \in K /\ p[l] \in K
    BY <2>1, <1>8 DEF Counts
  <2>3. p[k] \in b[p[l]]
    BY <2>1, <1>8 DEF InOrder
  <2>4. QED
    BY <2>1, <2>2, <2>3, <1>3, <1>5
<1>11. ToSet(s) = {s[i] : i \in K}
  BY DEF ToSet, K
<1>12. Distinct(s) => \A i, j \in K : s[i] = s[j] => i = j
  BY DEF Distinct, K
<1>13. QED
  BY <1>9, <1>10, <1>11, <1>12 DEF q

\* slice: the entries of the beginning.
LEMMA SocCut ==
  ASSUME NEW X, NEW s \in Seq(X), NEW n \in Nat
  PROVE  /\ Cut(s, n) \in Seq(X)
         /\ Cut(s, n) = IF Len(s) < n THEN s
                        ELSE [k \in 1..n |-> s[k]]
         /\ DOMAIN Cut(s, n) \subseteq DOMAIN s
         /\ \A k \in DOMAIN Cut(s, n) : Cut(s, n)[k] = s[k]
         /\ \A k \in DOMAIN s : k \in DOMAIN Cut(s, n) \/ k > n
  BY DEF Cut

\* An address has one ban.
OneBan(E) ==
  \A e, f \in E : e.kind = "ban" /\ f.kind = "ban" /\ e.ip = f.ip => e = f

\* The newest ban of an address is one of its bans.
LEMMA SocBestBan ==
  ASSUME NEW s \in Seq(SocEntries), NEW i \in DOMAIN s, s[i].kind = "ban"
  PROVE  LET e == bestBan(s, s[i].ip)
         IN  e \in SocEntries /\ e.kind = "ban" /\ e.ip = s[i].ip
<1> DEFINE ip == s[i].ip
           K == BansOf(s, ip)
           b == [k \in K |-> {j \in K : \/ s[j].ts < s[k].ts
                                        \/ s[j].ts = s[k].ts /\ j <= k}]
<1>1. DOMAIN s = 1..Len(s) /\ Len(s) \in Nat
  OBVIOUS
<1>2. K \in SUBSET DOMAIN s /\ i \in K
  BY DEF BansOf
<1>3. IsFiniteSet(DOMAIN s)
  BY <1>1, FS_Interval
<1>4. IsFiniteSet(K)
  BY <1>2, <1>3, FS_Subset
<1>5. \A k \in K : s[k].ts \in Int /\ k \in Int
  <2>1. \A k \in K : s[k] \in SocEntries
    BY <1>1, <1>2
  <2>2. QED
    BY <2>1, <1>1, <1>2 DEF SocEntries
<1>6. \A j, k \in K : j \in b[k] <=> \/ s[j].ts < s[k].ts
                                     \/ s[j].ts = s[k].ts /\ j <= k
  OBVIOUS
<1>7. b \in [K -> SUBSET K]
  OBVIOUS
<1>8. ASSUME NEW k \in K PROVE s[k] \in SocEntries /\ s[k].kind = "ban" /\ s[k].ip = ip
  BY <1>1 DEF BansOf
<1>9. bestBan(s, ip)
        = s[CHOOSE k \in K : \A j \in K : \/ s[j].ts < s[k].ts
                                          \/ s[j].ts = s[k].ts /\ j <= k]
  BY Zenon DEF bestBan
<1> HIDE DEF K, b, ip
<1>10. Linear(b, K)
  <2>1. \A k \in K : k \in b[k]
    BY <1>5, <1>6
  <2>2. \A j, k \in K : j \in b[k] \/ k \in b[j]
    BY <1>5, <1>6
  <2>3. \A j, k \in K : j \in b[k] /\ k \in b[j] => j = k
    BY <1>5, <1>6
  <2>4. \A j, k, l \in K : j \in b[k] /\ k \in b[l] => j \in b[l]
    BY <1>5, <1>6
  <2>5. QED
    BY <1>7, <2>1, <2>2, <2>3, <2>4, SocLinear
<1>11. \E k \in K : \A j \in K : j \in b[k]
  <2>1. K # {}
    BY <1>2
  <2>2. QED
    BY <1>4, <1>10, <2>1, SocLast
<1>12. \E k \in K : \A j \in K : \/ s[j].ts < s[k].ts
                                 \/ s[j].ts = s[k].ts /\ j <= k
  BY <1>6, <1>11
<1>13. \E k \in K : bestBan(s, ip) = s[k]
  BY <1>9, <1>12, Zenon
<1>14. QED
  BY <1>8, <1>13 DEF ip

\* The entries of two sequences.
LEMMA SocConcat ==
  ASSUME NEW X, NEW s \in Seq(X), NEW t \in Seq(X)
  PROVE  /\ s \o t \in Seq(X)
         /\ ToSet(s \o t) = ToSet(s) \union ToSet(t)
<1>1. s \o t \in Seq(X) /\ Len(s \o t) = Len(s) + Len(t)
  OBVIOUS
<1>2. /\ DOMAIN s = 1..Len(s) /\ DOMAIN t = 1..Len(t)
      /\ DOMAIN (s \o t) = 1..(Len(s) + Len(t))
      /\ Len(s) \in Nat /\ Len(t) \in Nat
  BY <1>1
<1>3. \A i \in 1..(Len(s) + Len(t)) :
        (s \o t)[i] = IF i <= Len(s) THEN s[i] ELSE t[i - Len(s)]
  OBVIOUS
<1>4. ToSet(s \o t) \subseteq ToSet(s) \union ToSet(t)
  <2> SUFFICES ASSUME NEW i \in 1..(Len(s) + Len(t))
               PROVE  (s \o t)[i] \in ToSet(s) \union ToSet(t)
    BY <1>2 DEF ToSet
  <2>1. CASE i <= Len(s)
    BY <1>2, <1>3, <2>1 DEF ToSet
  <2>2. CASE ~(i <= Len(s))
    <3>1. i - Len(s) \in 1..Len(t)
      BY <1>2, <2>2
    <3>2. QED
      BY <1>2, <1>3, <2>2, <3>1 DEF ToSet
  <2>3. QED
    BY <2>1, <2>2
<1>5. ToSet(s) \subseteq ToSet(s \o t)
  BY <1>2, <1>3 DEF ToSet
<1>6. ToSet(t) \subseteq ToSet(s \o t)
  <2> SUFFICES ASSUME NEW j \in 1..Len(t) PROVE t[j] \in ToSet(s \o t)
    BY <1>2 DEF ToSet
  <2>1. Len(s) + j \in 1..(Len(s) + Len(t)) /\ ~(Len(s) + j <= Len(s))
    BY <1>2
  <2>2. (s \o t)[Len(s) + j] = t[j]
    BY <2>1, <1>2, <1>3
  <2>3. QED
    BY <2>1, <2>2, <1>2 DEF ToSet
<1>7. QED
  BY <1>1, <1>4, <1>5, <1>6

\* One ban for every address.

\* One ban for every address.
LEMMA SocDedupe ==
  ASSUME NEW s \in Seq(SocEntries)
  PROVE  /\ dedupeTimelineBansByIp(s) \in Seq(SocEntries)
         /\ OneBan(ToSet(dedupeTimelineBansByIp(s)))
<1> DEFINE K == {i \in DOMAIN s : s[i].kind # "ban"}
           M == {i \in DOMAIN s : /\ s[i].kind = "ban"
                                  /\ \A j \in BansOf(s, s[i].ip) : i <= j}
           best == [i \in DOMAIN s |-> bestBan(s, s[i].ip)]
<1>1. DOMAIN s = 1..Len(s) /\ Len(s) \in Nat
  OBVIOUS
<1>2. dedupeTimelineBansByIp(s) = Where(s, K) \o Where(best, M)
  BY Zenon DEF dedupeTimelineBansByIp
<1>3. K \in SUBSET DOMAIN s /\ M \in SUBSET DOMAIN s
  OBVIOUS
<1>4. IsFiniteSet(M) /\ \A i \in M : i \in Int
  <2>1. IsFiniteSet(DOMAIN s)
    BY <1>1, FS_Interval
  <2>2. QED
    BY <1>1, <1>3, <2>1, FS_Subset
<1>5. \A i \in M : s[i].kind = "ban" /\ best[i] = bestBan(s, s[i].ip)
  OBVIOUS
<1>6. \A i \in K : s[i].kind # "ban"
  OBVIOUS
<1> HIDE DEF K, M, best
<1>7. \A i \in M : /\ best[i] \in SocEntries /\ best[i].kind = "ban"
                   /\ best[i].ip = s[i].ip
  BY <1>3, <1>5, SocBestBan
<1>8. /\ Where(s, K) \in Seq(SocEntries)
      /\ ToSet(Where(s, K)) = {s[i] : i \in K}
  BY <1>3, SocWhere
<1>9. /\ Where(best, M) \in Seq(SocEntries)
      /\ ToSet(Where(best, M)) = {best[i] : i \in M}
  <2>1. \A i \in M : best[i] \in SocEntries
    BY <1>7
  <2>2. QED
    BY <1>4, <2>1, SocPicked
<1>10. /\ dedupeTimelineBansByIp(s) \in Seq(SocEntries)
       /\ ToSet(dedupeTimelineBansByIp(s))
            = {s[i] : i \in K} \union {best[i] : i \in M}
  BY <1>2, <1>8, <1>9, SocConcat
<1>11. ASSUME NEW e \in ToSet(dedupeTimelineBansByIp(s)), e.kind = "ban"
       PROVE  e = bestBan(s, e.ip)
  <2>1. PICK i \in M : e = best[i]
    BY <1>6, <1>10, <1>11
  <2>2. QED
    BY <2>1, <1>5, <1>7
<1>12. QED
  BY <1>10, <1>11 DEF OneBan

\* A sequence is a function on its positions.
LEMMA SocSeq ==
  ASSUME NEW X, NEW s \in Seq(X)
  PROVE  /\ Len(s) \in Nat /\ DOMAIN s = 1..Len(s) /\ IsFiniteSet(DOMAIN s)
         /\ \A i \in DOMAIN s : i \in Int /\ s[i] \in X
         /\ \A Y : \A v \in [DOMAIN s -> Y] : v \in Seq(Y)
<1>1. Len(s) \in Nat /\ DOMAIN s = 1..Len(s)
  OBVIOUS
<1>2. IsFiniteSet(DOMAIN s)
  BY <1>1, FS_Interval
<1>3. \A i \in DOMAIN s : i \in Int /\ s[i] \in X
  BY <1>1
<1>4. \A Y : \A v \in [DOMAIN s -> Y] : v \in Seq(Y)
  BY <1>1
<1>5. QED
  BY <1>1, <1>2, <1>3, <1>4

\* The entries that the sources make.
LEMMA SocEntry ==
  ASSUME NEW ts \in Int, NEW ip \in Nat
  PROVE  /\ Entry("incident", "api", ts, ip) \in SocEntries
         /\ Entry("ban", "list", ts, ip) \in SocEntries
         /\ Entry("lineage", "tree", ts, ip) \in SocEntries
         /\ Entry("waf", "status", ts, ip) \in SocEntries
         /\ Entry("ban", "status", ts, ip) \in SocEntries
         /\ Entry("ack", "status", ts, ip) \in SocEntries
<1>1. /\ "api" \in SocSources /\ "list" \in SocSources
      /\ "tree" \in SocSources /\ "status" \in SocSources
  BY DEF SocSources
<1>2. /\ "incident" \in Kinds /\ "ban" \in Kinds /\ "lineage" \in Kinds
      /\ "waf" \in Kinds /\ "ack" \in Kinds
  BY DEF Kinds
<1>3. \A kind \in Kinds, src \in SocSources :
        Entry(kind, src, ts, ip) \in SocEntries
  BY DEF Entry, SocEntries
<1>4. QED
  BY <1>1, <1>2, <1>3, Zenon

\* The events of the risky trees.
LEMMA SocLineage ==
  ASSUME NEW trees \in Seq([pid : Nat, risk : Nat, events : Seq(Nat)])
  PROVE  lineageEntries(trees) \in Seq(SocEntries)
<1> DEFINE T == {u \in DOMAIN trees : trees[u].risk > 0}
           E(t) == {<<t, e>> : e \in DOMAIN trees[t].events}
           K == UNION {E(t) : t \in T}
           b == [p \in K |-> {q \in K : \/ q[1] < p[1]
                                        \/ q[1] = p[1] /\ q[2] <= p[2]}]
           v == [p \in K |-> Entry("lineage", "tree",
                                   trees[p[1]].events[p[2]], trees[p[1]].pid)]
<1>1. \A t \in DOMAIN trees : /\ t \in Int /\ trees[t].pid \in Nat
                              /\ trees[t].events \in Seq(Nat)
  <2>1. \A t \in DOMAIN trees :
          t \in Int /\ trees[t] \in [pid : Nat, risk : Nat, events : Seq(Nat)]
    BY SocSeq
  <2>2. QED
    BY <2>1
<1>2. IsFiniteSet(T)
  <2>1. IsFiniteSet(DOMAIN trees)
    BY SocSeq
  <2>2. T \in SUBSET DOMAIN trees
    OBVIOUS
  <2>3. QED
    BY <2>1, <2>2, FS_Subset
<1>3. ASSUME NEW t \in T PROVE IsFiniteSet(E(t))
  <2> DEFINE D == DOMAIN trees[t].events
             f == [e \in D |-> <<t, e>>]
  <2>1. trees[t].events \in Seq(Nat)
    BY <1>1
  <2>2. IsFiniteSet(D)
    BY <2>1, SocSeq
  <2>3. f \in Surjection(D, E(t))
    BY DEF Surjection
  <2>4. QED
    BY <2>2, <2>3, FS_Surjection
<1>4. IsFiniteSet({E(t) : t \in T})
  <2> DEFINE F == {E(t) : t \in T}
             f == [t \in T |-> E(t)]
  <2>1. f \in Surjection(T, F)
    BY DEF Surjection
  <2> HIDE DEF F, f, T
  <2>2. IsFiniteSet(F)
    BY <1>2, <2>1, FS_Surjection
  <2>3. QED
    BY <2>2 DEF F
<1>5. IsFiniteSet(K)
  <2>1. \A F \in {E(t) : t \in T} : IsFiniteSet(F)
    BY <1>3
  <2>2. QED
    BY <1>4, <2>1, FS_UNION
<1>6. ASSUME NEW p \in K
      PROVE  /\ p = <<p[1], p[2]>>
             /\ p[1] \in DOMAIN trees /\ p[1] \in Int /\ p[2] \in Int
             /\ p[2] \in DOMAIN trees[p[1]].events
  <2>1. PICK t \in T : p \in E(t)
    OBVIOUS
  <2>2. PICK e \in DOMAIN trees[t].events : p = <<t, e>>
    BY <2>1
  <2>3. e \in Int
    BY <1>1, <2>2, SocSeq
  <2>4. QED
    BY <1>1, <2>2, <2>3
<1>7. ASSUME NEW p \in K PROVE v[p] \in SocEntries
  <2>1. trees[p[1]].events[p[2]] \in Nat /\ trees[p[1]].pid \in Nat
    BY <1>1, <1>6, SocSeq
  <2>2. v[p] = Entry("lineage", "tree", trees[p[1]].events[p[2]],
                     trees[p[1]].pid)
    OBVIOUS
  <2> HIDE DEF v, K
  <2>3. QED
    BY <2>1, <2>2, SocEntry
<1>8. lineageEntries(trees) = Listed(v, K, b)
  BY Zenon DEF lineageEntries
<1>9. \A p, q \in K : q \in b[p] <=> \/ q[1] < p[1]
                                     \/ q[1] = p[1] /\ q[2] <= p[2]
  OBVIOUS
<1>10. b \in [K -> SUBSET K]
  OBVIOUS
<1>a. \A p \in K : p[1] \in Int /\ p[2] \in Int /\ p = <<p[1], p[2]>>
  BY <1>6
<1> HIDE DEF b, v, K
<1>11. Linear(b, K)
  <2>1. \A p \in K : p \in b[p]
    BY <1>a, <1>9
  <2>2. ASSUME NEW p \in K, NEW q \in K PROVE p \in b[q] \/ q \in b[p]
    <3>1. /\ p[1] \in Int /\ p[2] \in Int
          /\ q[1] \in Int /\ q[2] \in Int
      BY <1>a
    <3>2. QED
      BY <3>1, <1>9
  <2>3. \A p, q \in K : p \in b[q] /\ q \in b[p] => p = q
    BY <1>a, <1>9
  <2>4. ASSUME NEW p \in K, NEW q \in K, NEW r \in K, p \in b[q], q \in b[r]
        PROVE  p \in b[r]
    <3>1. /\ p[1] \in Int /\ p[2] \in Int
          /\ q[1] \in Int /\ q[2] \in Int
          /\ r[1] \in Int /\ r[2] \in Int
      BY <1>a
    <3>2. /\ p[1] < q[1] \/ (p[1] = q[1] /\ p[2] <= q[2])
          /\ q[1] < r[1] \/ (q[1] = r[1] /\ q[2] <= r[2])
      BY <2>4, <1>9
    <3>3. p[1] < r[1] \/ (p[1] = r[1] /\ p[2] <= r[2])
      BY <3>1, <3>2
    <3>4. QED
      BY <3>3, <1>9
  <2>5. QED
    BY <1>10, <2>1, <2>2, <2>3, <2>4, SocLinear
<1>12. PICK p : Counts(p, K) /\ Lists(Listed(v, K, b), v, p, K)
  BY <1>5, <1>11, SocListed
<1>13. QED
  BY <1>5, <1>7, <1>8, <1>12, SocTake

\* The entries of the sources.
LEMMA SocMade ==
  ASSUME NEW w \in World
  PROVE  /\ incidentEntries(w.incidents) \in Seq(SocEntries)
         /\ banEntries(Cut(w.bans, MaxBans), w.now) \in Seq(SocEntries)
         /\ lineageEntries(w.trees) \in Seq(SocEntries)
         /\ wafAlertEntries(w.alerts) \in Seq(SocEntries)
         /\ statusBanEntries(w.statusBans) \in Seq(SocEntries)
         /\ telegramAckEntries(w.acks) \in Seq(SocEntries)
<1>2. /\ w.incidents \in Seq([ip : Nat, ts : Nat])
      /\ w.bans \in Seq([ip : Nat, ts : Nat]) /\ w.now \in Nat
      /\ w.trees \in Seq([pid : Nat, risk : Nat, events : Seq(Nat)])
      /\ w.alerts \in Seq([waf : BOOLEAN, ip : Nat, ts : Nat])
      /\ w.statusBans \in Seq([undo : BOOLEAN, ip : Nat, ts : Nat])
      /\ w.acks \in Seq([ip : Nat, ts : Nat])
  BY DEF World
<1>5. incidentEntries(w.incidents) \in Seq(SocEntries)
  <2> DEFINE s == w.incidents
             v == [i \in DOMAIN s |-> Entry("incident", "api", s[i].ts, s[i].ip)]
  <2>1. \A i \in DOMAIN s : s[i].ts \in Int /\ s[i].ip \in Nat
    <3>1. \A i \in DOMAIN s : s[i] \in [ip : Nat, ts : Nat]
      BY <1>2, SocSeq
    <3>2. QED
      BY <3>1
  <2>2. v \in [DOMAIN s -> SocEntries]
    BY <2>1, SocEntry
  <2>3. v \in Seq(SocEntries)
    <3> HIDE DEF v
    <3>1. QED
      BY <2>2, <1>2, SocSeq
  <2>4. QED
    BY <2>3, Zenon DEF incidentEntries
<1>6. telegramAckEntries(w.acks) \in Seq(SocEntries)
  <2> DEFINE s == w.acks
             v == [i \in DOMAIN s |-> Entry("ack", "status", s[i].ts, s[i].ip)]
  <2>1. \A i \in DOMAIN s : s[i].ts \in Int /\ s[i].ip \in Nat
    <3>1. \A i \in DOMAIN s : s[i] \in [ip : Nat, ts : Nat]
      BY <1>2, SocSeq
    <3>2. QED
      BY <3>1
  <2>2. v \in [DOMAIN s -> SocEntries]
    BY <2>1, SocEntry
  <2>3. v \in Seq(SocEntries)
    <3> HIDE DEF v
    <3>1. QED
      BY <2>2, <1>2, SocSeq
  <2>4. QED
    BY <2>3, Zenon DEF telegramAckEntries
<1>7. banEntries(Cut(w.bans, MaxBans), w.now) \in Seq(SocEntries)
  <2> DEFINE s == Cut(w.bans, MaxBans)
             v == [i \in DOMAIN s |->
                     Entry("ban", "list",
                           IF s[i].ts = 0 THEN w.now - (i - 1) ELSE s[i].ts,
                           s[i].ip)]
  <2>0. s \in Seq([ip : Nat, ts : Nat])
    BY <1>2, SocCut, SocViewAssumption
  <2> HIDE DEF s
  <2>1. \A i \in DOMAIN s : s[i].ts \in Int /\ s[i].ip \in Nat /\ i \in Int
    <3>1. \A i \in DOMAIN s : s[i] \in [ip : Nat, ts : Nat] /\ i \in Int
      BY <2>0, SocSeq
    <3>2. QED
      BY <3>1
  <2>2. v \in [DOMAIN s -> SocEntries]
    <3>1. \A i \in DOMAIN s :
            (IF s[i].ts = 0 THEN w.now - (i - 1) ELSE s[i].ts) \in Int
      BY <2>1, <1>2
    <3>2. QED
      BY <2>1, <3>1, SocEntry
  <2>3. v \in Seq(SocEntries)
    <3> HIDE DEF v
    <3>1. QED
      BY <2>2, <2>0, SocSeq
  <2>4. QED
    BY <2>3, Zenon DEF banEntries, s
<1>8. wafAlertEntries(w.alerts) \in Seq(SocEntries)
  <2> DEFINE s == w.alerts
             v == [i \in DOMAIN s |-> Entry("waf", "status", s[i].ts, s[i].ip)]
             K == {i \in DOMAIN s : s[i].waf}
  <2>1. \A i \in DOMAIN s : s[i].ts \in Int /\ s[i].ip \in Nat
    <3>1. \A i \in DOMAIN s : s[i] \in [waf : BOOLEAN, ip : Nat, ts : Nat]
      BY <1>2, SocSeq
    <3>2. QED
      BY <3>1
  <2>2. v \in [DOMAIN s -> SocEntries] /\ K \in SUBSET DOMAIN v
    BY <2>1, SocEntry
  <2>3. wafAlertEntries(w.alerts) = Firsts(Where(v, K))
    BY Zenon DEF wafAlertEntries
  <2> HIDE DEF v, K
  <2>4. v \in Seq(SocEntries)
    BY <2>2, <1>2, SocSeq
  <2>5. Where(v, K) \in Seq(SocEntries)
    BY <2>2, <2>4, SocWhere
  <2>6. QED
    BY <2>3, <2>5, SocFirsts
<1>9. statusBanEntries(w.statusBans) \in Seq(SocEntries)
  <2> DEFINE s == w.statusBans
             v == [i \in DOMAIN s |-> Entry("ban", "status", s[i].ts, s[i].ip)]
             K == {i \in DOMAIN s : ~s[i].undo}
  <2>1. \A i \in DOMAIN s : s[i].ts \in Int /\ s[i].ip \in Nat
    <3>1. \A i \in DOMAIN s : s[i] \in [undo : BOOLEAN, ip : Nat, ts : Nat]
      BY <1>2, SocSeq
    <3>2. QED
      BY <3>1
  <2>2. v \in [DOMAIN s -> SocEntries] /\ K \in SUBSET DOMAIN v
    BY <2>1, SocEntry
  <2>3. statusBanEntries(w.statusBans) = Where(v, K)
    BY Zenon DEF statusBanEntries
  <2> HIDE DEF v, K
  <2>4. v \in Seq(SocEntries)
    BY <2>2, <1>2, SocSeq
  <2>5. QED
    BY <2>2, <2>3, <2>4, SocWhere
<1>10. lineageEntries(w.trees) \in Seq(SocEntries)
  BY <1>2, SocLineage
<1>11. QED
  BY <1>5, <1>6, <1>7, <1>8, <1>9, <1>10

\* What is merged from the sources has one ban for every address.
LEMMA SocMerged ==
  ASSUME NEW w \in World
  PROVE  Merged(w) \in Seq(SocEntries) /\ OneBan(ToSet(Merged(w)))
<1> DEFINE a == incidentEntries(w.incidents)
                \o banEntries(Cut(w.bans, MaxBans), w.now)
                \o lineageEntries(w.trees) \o wafAlertEntries(w.alerts)
                \o statusBanEntries(w.statusBans)
                \o telegramAckEntries(w.acks)
           d == dedupeTimelineBansByIp(a)
           K == {i \in DOMAIN d : d[i].ts > 0 \/ d[i].kind = "ban"}
<1>1. a \in Seq(SocEntries)
  BY SocMade
<1>2. Merged(w) = Where(d, K)
  BY Zenon DEF Merged, Dated
<1> HIDE DEF a
<1>3. d \in Seq(SocEntries) /\ OneBan(ToSet(d))
  BY <1>1, SocDedupe
<1> HIDE DEF d
<1>4. K \in SUBSET DOMAIN d
  OBVIOUS
<1> HIDE DEF K
<1>5. /\ Where(d, K) \in Seq(SocEntries)
      /\ ToSet(Where(d, K)) = {d[i] : i \in K}
  BY <1>3, <1>4, SocWhere
<1>6. ToSet(Where(d, K)) \subseteq ToSet(d)
  BY <1>4, <1>5 DEF ToSet
<1>7. QED
  BY <1>2, <1>3, <1>5, <1>6 DEF OneBan

\* A cut keeps order and distinctness.
LEMMA SocCutKeeps ==
  ASSUME NEW s \in Seq(SocEntries), NEW n \in Nat
  PROVE  /\ Cut(s, n) \in Seq(SocEntries)
         /\ ToSet(Cut(s, n)) \subseteq ToSet(s)
         /\ Newer(s) => Newer(Cut(s, n))
         /\ Distinct(s) => Distinct(Cut(s, n))
<1> DEFINE q == Cut(s, n)
<1>1. /\ q \in Seq(SocEntries) /\ DOMAIN q \subseteq DOMAIN s
      /\ \A k \in DOMAIN q : q[k] = s[k]
  BY SocCut
<1> HIDE DEF q
<1>2. ToSet(q) \subseteq ToSet(s)
  BY <1>1 DEF ToSet
<1>3. Newer(s) => Newer(q)
  BY <1>1 DEF Newer
<1>4. Distinct(s) => Distinct(q)
  BY <1>1 DEF Distinct
<1>5. QED
  BY <1>1, <1>2, <1>3, <1>4 DEF q

\* The live answer: in order, each entry once, and what it leaves out is not
\* newer than its last entry.
LEMMA SocFinal ==
  ASSUME NEW m \in Seq(SocEntries), MaxEntries \in Nat, NEW f,
         f = SortNewest(UniqueIds(Newest(m)))
  PROVE  /\ f \in Seq(SocEntries) /\ ToSet(f) \subseteq ToSet(m)
         /\ Newer(f) /\ Distinct(f)
         /\ f # <<>> =>
              \A e \in ToSet(m) \ ToSet(f) : e.ts <= Last(f).ts
<1> DEFINE q == SortNewest(m)
           c == Cut(q, MaxEntries)
           u == Firsts(c)
<1>1. /\ q \in Seq(SocEntries) /\ ToSet(q) = ToSet(m) /\ Newer(q)
  BY SocSort
<1>2. Newest(m) = c /\ UniqueIds(c) = u
  BY DEF Newest, UniqueIds
<1> HIDE DEF q
<1>3. /\ c \in Seq(SocEntries) /\ ToSet(c) \subseteq ToSet(q)
      /\ \A k \in DOMAIN c : k \in DOMAIN q /\ c[k] = q[k]
      /\ \A k \in DOMAIN q : k \in DOMAIN c \/ k > MaxEntries
  BY <1>1, SocCut, SocCutKeeps
<1>4. \A k \in DOMAIN c : k <= MaxEntries
  BY <1>1 DEF Cut
<1> HIDE DEF c
<1>5. u \in Seq(SocEntries) /\ ToSet(u) = ToSet(c) /\ Distinct(u)
  BY <1>3, SocFirsts
<1>6. f = SortNewest(u)
  BY <1>2
<1> HIDE DEF u
<1>7. /\ f \in Seq(SocEntries) /\ ToSet(f) = ToSet(c)
      /\ Newer(f) /\ Distinct(f)
  BY <1>5, <1>6, SocSort
<1>8. ASSUME f # <<>>, NEW e \in ToSet(m), e \notin ToSet(f)
      PROVE  e.ts <= Last(f).ts
  <2>1. PICK k \in DOMAIN q : e = q[k]
    BY <1>1 DEF ToSet
  <2>2. k \notin DOMAIN c
    BY <1>3, <1>7, <1>8, <2>1 DEF ToSet
  <2>3. k > MaxEntries
    BY <1>3, <2>2
  <2>4. Len(f) \in DOMAIN f
    BY <1>7, <1>8
  <2>5. Last(f) \in ToSet(c)
    BY <1>7, <2>4 DEF ToSet, Last
  <2>6. PICK l \in DOMAIN c : Last(f) = c[l]
    BY <2>5 DEF ToSet
  <2>7. l \in DOMAIN q /\ Last(f) = q[l] /\ l <= MaxEntries
    BY <1>3, <1>4, <2>6
  <2>8. l \in Int /\ k \in Int /\ q[l] \in SocEntries /\ q[k] \in SocEntries
    BY <1>1, <2>7, SocSeq
  <2>9. l < k
    BY <2>3, <2>7, <2>8
  <2>10. q[l].ts >= q[k].ts /\ q[l].ts \in Int /\ q[k].ts \in Int
    BY <1>1, <2>7, <2>8, <2>9 DEF Newer, SocEntries
  <2>11. QED
    BY <2>1, <2>7, <2>10
<1>9. QED
  BY <1>1, <1>3, <1>7, <1>8

\* The preview: in order, each entry once.
LEMMA SocPreview ==
  ASSUME NEW w \in World, MaxPreview \in Nat, MaxEntries \in Nat, NEW v,
         v = Cut(fetchSocTimelineFallback(w), MaxEntries)
  PROVE  v \in Seq(SocEntries) /\ Newer(v) /\ Distinct(v)
<1> DEFINE e == [i \in DOMAIN w.proofs |->
                   Entry(w.proofs[i].kind, w.proofs[i].src, w.proofs[i].ts,
                         w.proofs[i].ip)]
           u == Firsts(e)
           K == {i \in DOMAIN u : u[i].ts > 0 \/ u[i].kind = "ban"}
           d == Where(u, K)
           q == SortNewest(d)
           c == Cut(q, MaxPreview)
<1>1. w.proofs \in Seq([kind : Kinds, src : STRING, ip : Nat, ts : Nat])
  BY DEF World
<1>2. e \in [DOMAIN w.proofs -> SocEntries]
  <2>1. \A i \in DOMAIN w.proofs :
          w.proofs[i] \in [kind : Kinds, src : STRING, ip : Nat, ts : Nat]
    BY <1>1, SocSeq
  <2>2. ASSUME NEW r \in [kind : Kinds, src : STRING, ip : Nat, ts : Nat]
        PROVE  Entry(r.kind, r.src, r.ts, r.ip) \in SocEntries
    BY DEF Entry, SocEntries, SocSources
  <2>3. QED
    BY <2>1, <2>2
<1>3. fetchSocTimelineFallback(w) = c
  BY Zenon DEF fetchSocTimelineFallback, Dated
<1> HIDE DEF e
<1>4. e \in Seq(SocEntries)
  BY <1>1, <1>2, SocSeq
<1>5. u \in Seq(SocEntries) /\ Distinct(u)
  BY <1>4, SocFirsts
<1> HIDE DEF u
<1>6. K \in SUBSET DOMAIN u
  OBVIOUS
<1> HIDE DEF K
<1>7. d \in Seq(SocEntries) /\ Distinct(d)
  <2>1. \A i, j \in K : u[i] = u[j] => i = j
    BY <1>5, <1>6 DEF Distinct
  <2>2. QED
    BY <1>5, <1>6, <2>1, SocWhere
<1> HIDE DEF d
<1>8. q \in Seq(SocEntries) /\ Distinct(q) /\ Newer(q)
  BY <1>7, SocSort
<1> HIDE DEF q
<1>9. c \in Seq(SocEntries) /\ Distinct(c) /\ Newer(c)
  BY <1>8, SocCutKeeps
<1> HIDE DEF c
<1>10. QED
  BY <1>3, <1>9, SocCutKeeps

\* What /api/soc-timeline answers.
LEMMA SocAnswer ==
  ASSUME NEW w \in World, NEW a, a = SocTimeline(w)
  PROVE  /\ a.entries \in Seq(SocEntries)
         /\ Newer(a.entries) /\ Distinct(a.entries)
         /\ a.mode # "preview" => OneBan(ToSet(a.entries))
         /\ a.mode \in {"live", "live_partial"} =>
              \A e \in ToSet(Merged(w)) \ ToSet(a.entries) :
                e.ts <= Last(a.entries).ts
<1> DEFINE f == SortNewest(UniqueIds(Newest(Merged(w))))
           v == Cut(fetchSocTimelineFallback(w), MaxEntries)
<1>1. MaxEntries \in Nat /\ MaxPreview \in Nat
  BY SocViewAssumption
<1>2. \/ /\ f # <<>>
         /\ \E mode \in {"live", "live_partial"} :
              a = [entries |-> f, mode |-> mode]
      \/ /\ f = <<>> /\ v # <<>>
         /\ a = [entries |-> v, mode |-> "preview"]
      \/ /\ f = <<>> /\ v = <<>>
         /\ a = [entries |-> v, mode |-> "none"]
  BY DEF SocTimeline
<1>3. Merged(w) \in Seq(SocEntries) /\ OneBan(ToSet(Merged(w)))
  BY SocMerged
<1>4. /\ f \in Seq(SocEntries) /\ ToSet(f) \subseteq ToSet(Merged(w))
      /\ Newer(f) /\ Distinct(f)
      /\ f # <<>> =>
           \A e \in ToSet(Merged(w)) \ ToSet(f) : e.ts <= Last(f).ts
  BY <1>1, <1>3, SocFinal
<1>5. v \in Seq(SocEntries) /\ Newer(v) /\ Distinct(v)
  BY <1>1, SocPreview
<1> HIDE DEF f, v
<1>6. CASE f # <<>>
  <2>1. PICK mode \in {"live", "live_partial"} :
          a = [entries |-> f, mode |-> mode]
    BY <1>2, <1>6
  <2>2. a.entries = f
    BY <2>1
  <2>3. OneBan(ToSet(f))
    BY <1>3, <1>4 DEF OneBan
  <2>4. QED
    BY <1>4, <1>6, <2>2, <2>3
<1>7. CASE f = <<>> /\ v # <<>>
  <2>1. a.entries = v /\ a.mode = "preview"
    BY <1>2, <1>7
  <2>2. QED
    BY <1>5, <2>1
<1>8. CASE f = <<>> /\ v = <<>>
  <2>1. a.entries = v /\ a.mode = "none"
    BY <1>2, <1>8
  <2>2. ToSet(v) = {}
    BY <1>8 DEF ToSet
  <2>3. QED
    BY <1>5, <2>1, <2>2 DEF OneBan
<1>9. QED
  BY <1>6, <1>7, <1>8

\* The counts of a list without repetitions: never more than its entries, and
\* as many if an address has one ban.
LEMMA SocCounts ==
  ASSUME NEW s \in Seq(SocEntries), Distinct(s), NEW kind \in Kinds
  PROVE  /\ kindCount(s, kind) <= Len(Shown(s, kind))
         /\ OneBan(ToSet(s)) => kindCount(s, kind) = Len(Shown(s, kind))
<1> DEFINE K == {i \in DOMAIN s : s[i].kind = kind}
<1>1. kind # "all"
  BY DEF Kinds
<1>2. Shown(s, kind) = Where(s, K)
  BY <1>1 DEF Shown
<1>3. K \in SUBSET DOMAIN s /\ \A i \in K : s[i].kind = kind
  OBVIOUS
<1>4. IsFiniteSet(K) /\ Len(Shown(s, kind)) = Cardinality(K)
  <2> HIDE DEF K
  <2>1. QED
    BY <1>2, <1>3, SocWhere
<1>5. Cardinality(K) \in Nat
  BY <1>4, FS_CardinalityType
<1>6. CASE kind # "ban"
  BY <1>4, <1>5, <1>6 DEF kindCount
<1>7. CASE kind = "ban"
  <2> DEFINE I == {e.ip : e \in {x \in ToSet(s) : x.kind = "ban"}}
             g == [i \in K |-> s[i].ip]
  <2>1. kindCount(s, kind) = Cardinality(I)
    <3>1. kindCount(s, kind) = Cardinality(I)
      BY <1>7, Zenon DEF kindCount
    <3>2. QED
      BY <3>1
  <2>2. \A i \in K : s[i].ip \in I
    BY <1>7 DEF ToSet
  <2>3. \A x \in I : \E i \in K : s[i].ip = x
    BY <1>7 DEF ToSet
  <2> HIDE DEF I, K
  <2>4. g \in Surjection(K, I)
    BY <2>2, <2>3 DEF Surjection
  <2>5. OneBan(ToSet(s)) => g \in Injection(K, I)
    <3> SUFFICES ASSUME OneBan(ToSet(s)) PROVE g \in Injection(K, I)
      OBVIOUS
    <3>1. ASSUME NEW i \in K, NEW j \in K, s[i].ip = s[j].ip PROVE i = j
      <4>1. s[i] \in ToSet(s) /\ s[j] \in ToSet(s)
        BY <1>3 DEF ToSet
      <4>2. s[i] = s[j]
        BY <1>3, <1>7, <3>1, <4>1 DEF OneBan
      <4>3. QED
        BY <1>3, <4>2 DEF Distinct
    <3>2. g \in [K -> I]
      BY <2>2
    <3>3. QED
      BY <3>1, <3>2 DEF Injection, IsInjective
  <2> HIDE DEF g
  <2>6. /\ Cardinality(I) <= Cardinality(K)
        /\ Cardinality(I) = Cardinality(K) <=> g \in Injection(K, I)
    BY <1>4, <2>4, FS_Surjection
  <2>7. QED
    BY <1>4, <2>1, <2>5, <2>6
<1>8. QED
  BY <1>6, <1>7

-----------------------------------------------------------------------------
SocMarks == [ip : Nat, kind : Kinds]
SocTrees == Seq([pid : Nat, risk : Nat, events : Seq(Nat)])

SocFields == {"view", "st", "arg", "todo", "out"}

\* A request keeps its fields; an answer is of its view.
SocRequest(r) ==
  \/ r = NoRequest
  \/ /\ DOMAIN r = SocFields
     /\ r.todo \subseteq SocMarks
     /\ r.st \in {"locating", "asking"} => r.view = "map"
     /\ r.st = "asking" => \E m \in r.todo : m.ip = r.arg
     /\ r.st = "ready" /\ r.view = "timeline" => r.out \in World
     /\ r.st = "ready" /\ r.view = "tree" => r.out.trees \in SocTrees

SocFlight(f) ==
  /\ f = [i \in SocSlots |-> f[i]]
  /\ \A i \in SocSlots : SocRequest(f[i])

\* The sources, and what is shown of them.
SocShown ==
  /\ world \in World
  /\ timeline # None => timeline \in World
  /\ DOMAIN tree = {"trees", "source", "selected"}
  /\ tree.trees \in SocTrees
  /\ PointerOnMarker

\* An address has one answer.
OneAnswer(c) == \A i, j \in DOMAIN c : c[i][1] = c[j][1] => i = j

\* The cache of the locator.
SocRest ==
  /\ geo \in Seq(Nat \X BOOLEAN) /\ Len(geo) <= MaxCache
  /\ OneAnswer(geo)

SocInv == SocFlight(flight) /\ SocShown /\ SocRest

\* The map's addresses are those of the sources.
LEMMA SocAttackIps ==
  ASSUME world \in World
  PROVE  AttackIps \subseteq SocMarks
<1> DEFINE ips(s) == [i \in DOMAIN s |-> s[i].ip]
           cut == Cut(world.bans, MaxMapBans)
           bans == ips(cut)
           incs == ips(world.incidents)
           acks == ips(world.acks)
           first == Firsts(bans \o incs \o acks)
           kind(ip) == IF ip \in ToSet(incs) THEN "incident"
                       ELSE IF ip \in ToSet(bans) THEN "ban" ELSE "ack"
           proved == Firsts(ips(world.proofs))
           proof(ip) == CHOOSE p \in ToSet(world.proofs) :
                          \E i \in DOMAIN world.proofs :
                            /\ world.proofs[i] = p /\ p.ip = ip
                            /\ \A j \in 1..(i - 1) : world.proofs[j].ip # ip
           drawn == {[ip |-> ip, kind |-> kind(ip)] :
                       ip \in ToSet(Cut(first, MaxGeo))}
           shown == {[ip |-> ip, kind |-> proof(ip).kind] :
                       ip \in ToSet(Cut(proved, MaxGeo))}
<1>0. MaxMapBans \in Nat /\ MaxGeo \in Nat
  BY SocViewAssumption
<1>1. /\ world.incidents \in Seq([ip : Nat, ts : Nat])
      /\ world.bans \in Seq([ip : Nat, ts : Nat])
      /\ world.acks \in Seq([ip : Nat, ts : Nat])
      /\ world.proofs \in Seq([kind : Kinds, src : STRING, ip : Nat, ts : Nat])
  BY DEF World
<1>2. cut \in Seq([ip : Nat, ts : Nat])
  BY <1>0, <1>1, SocCut
<1>3. ASSUME NEW s \in Seq([ip : Nat, ts : Nat]) PROVE ips(s) \in Seq(Nat)
  <2>1. \A i \in DOMAIN s : s[i] \in [ip : Nat, ts : Nat]
    BY SocSeq
  <2>2. ips(s) \in [DOMAIN s -> Nat]
    BY <2>1
  <2> HIDE DEF ips
  <2>3. QED
    BY <2>2, SocSeq
<1>4. ASSUME NEW s \in Seq(Nat) PROVE ToSet(Cut(s, MaxGeo)) \subseteq ToSet(s)
  <2>1. /\ DOMAIN Cut(s, MaxGeo) \subseteq DOMAIN s
        /\ \A k \in DOMAIN Cut(s, MaxGeo) : Cut(s, MaxGeo)[k] = s[k]
    BY <1>0, SocCut
  <2>2. QED
    BY <2>1 DEF ToSet
<1>5. ASSUME NEW s \in Seq(Nat) PROVE ToSet(s) \subseteq Nat
  BY SocSeq DEF ToSet
<1>6. drawn \subseteq SocMarks
  <2>1. bans \in Seq(Nat) /\ incs \in Seq(Nat) /\ acks \in Seq(Nat)
    BY <1>1, <1>2, <1>3
  <2> HIDE DEF bans, incs, acks
  <2>2. bans \o incs \o acks \in Seq(Nat)
    BY <2>1
  <2>3. first \in Seq(Nat)
    BY <2>2, SocFirsts
  <2> HIDE DEF first
  <2>4. ToSet(Cut(first, MaxGeo)) \subseteq Nat
    BY <1>4, <1>5, <2>3
  <2>5. \A ip : kind(ip) \in Kinds
    BY DEF Kinds
  <2> HIDE DEF kind
  <2>6. QED
    BY <2>4, <2>5 DEF SocMarks
<1>7. shown \subseteq SocMarks
  <2> DEFINE P == world.proofs
  <2>1. \A i \in DOMAIN P : P[i] \in [kind : Kinds, src : STRING, ip : Nat, ts : Nat]
    BY <1>1, SocSeq
  <2>2. ips(P) \in Seq(Nat)
    <3>1. ips(P) \in [DOMAIN P -> Nat]
      BY <2>1
    <3> HIDE DEF ips
    <3>2. QED
      BY <1>1, <3>1, SocSeq
  <2>3. proved \in Seq(Nat) /\ ToSet(proved) = ToSet(ips(P))
    <3> HIDE DEF ips
    <3>1. QED
      BY <2>2, SocFirsts
  <2>4. ASSUME NEW ip \in ToSet(Cut(proved, MaxGeo))
        PROVE  ip \in Nat /\ proof(ip).kind \in Kinds
    <3>1. ip \in ToSet(ips(P)) /\ ip \in Nat
      <4> HIDE DEF proved, ips
      <4>1. QED
        BY <1>4, <1>5, <2>3
    <3> DEFINE E == {i \in DOMAIN P : P[i].ip = ip}
    <3>2. DOMAIN P = 1..Len(P) /\ Len(P) \in Nat
      BY <1>1
    <3>3. E \in SUBSET (1..Len(P)) /\ E # {}
      BY <3>1, <3>2 DEF ToSet
    <3>4. PICK i \in E : \A j \in E : i <= j
      BY <3>2, <3>3, SocLeast
    <3>5. \A j \in 1..(i - 1) : P[j].ip # ip
      BY <3>2, <3>4
    <3>6. P[i] \in ToSet(P) /\ P[i].ip = ip /\ i \in DOMAIN P
      BY <3>4 DEF ToSet
    <3>7. proof(ip) \in ToSet(P)
      BY <3>5, <3>6
    <3>8. \A p \in ToSet(P) : p.kind \in Kinds
      BY <2>1 DEF ToSet
    <3> HIDE DEF proof
    <3>9. QED
      BY <3>1, <3>7, <3>8
  <2> HIDE DEF proved, proof
  <2>5. QED
    BY <2>4 DEF SocMarks
<1>8. AttackIps = IF first # <<>> THEN drawn ELSE shown
  BY Zenon DEF AttackIps
<1> HIDE DEF drawn, shown
<1>9. QED
  BY <1>6, <1>7, <1>8

\* The invariant holds when a page was just opened.
LEMMA SocInitInv ==
  ASSUME SocInit PROVE SocInv
<1>1. SocFlight(flight)
  BY DEF SocInit, SocFlight, SocRequest
<1>2. SocShown
  BY SocViewAssumption DEF SocInit, SocShown, SocTrees, PointerOnMarker
<1>3. SocRest
  BY SocViewAssumption DEF SocInit, SocRest, OneAnswer
<1>4. QED
  BY <1>1, <1>2, <1>3 DEF SocInv

\* One slot changes.
LEMMA SocSlot ==
  ASSUME NEW f, SocFlight(f), NEW i \in SocSlots, NEW r, SocRequest(r),
         NEW g, g = [f EXCEPT ![i] = r]
  PROVE  SocFlight(g)
<1>1. DOMAIN f = SocSlots
  BY DEF SocFlight
<1>2. g = [j \in SocSlots |-> g[j]]
  BY <1>1
<1>3. ASSUME NEW j \in SocSlots PROVE SocRequest(g[j])
  <2>1. g[j] = IF j = i THEN r ELSE f[j]
    BY <1>1
  <2>2. CASE j = i
    BY <2>1, <2>2
  <2>3. CASE j # i
    BY <2>1, <2>3 DEF SocFlight
  <2>4. QED
    BY <2>2, <2>3
<1>4. QED
  BY <1>2, <1>3 DEF SocFlight

\* A slot that is not idle holds a request.
LEMMA SocHeld ==
  ASSUME NEW f, SocFlight(f), NEW i \in SocSlots, f[i].st # "idle", NEW r,
         r = f[i]
  PROVE  /\ DOMAIN r = SocFields
         /\ r.todo \subseteq SocMarks
         /\ r.st \in {"locating", "asking"} => r.view = "map"
         /\ r.st = "asking" => \E m \in r.todo : m.ip = r.arg
         /\ r.st = "ready" /\ r.view = "timeline" => r.out \in World
         /\ r.st = "ready" /\ r.view = "tree" => r.out.trees \in SocTrees
<1>1. NoRequest.st = "idle"
  BY DEF NoRequest
<1>2. QED
  BY <1>1 DEF SocFlight, SocRequest

\* A request with some of its fields changed.
LEMMA SocChanged ==
  ASSUME NEW h, DOMAIN h = SocFields, NEW x, NEW y, NEW z
  PROVE  /\ LET r == [h EXCEPT !.st = x]
            IN  DOMAIN r = SocFields /\ r.view = h.view /\ r.st = x
                /\ r.todo = h.todo
         /\ LET r == [h EXCEPT !.st = x, !.out = y]
            IN  DOMAIN r = SocFields /\ r.view = h.view /\ r.st = x
                /\ r.todo = h.todo /\ r.out = y
         /\ LET r == [h EXCEPT !.st = x, !.arg = y]
            IN  DOMAIN r = SocFields /\ r.view = h.view /\ r.st = x
                /\ r.todo = h.todo /\ r.arg = y
         /\ LET r == [h EXCEPT !.todo = z, !.st = x]
            IN  DOMAIN r = SocFields /\ r.view = h.view /\ r.st = x
                /\ r.todo = z
         /\ LET r == [h EXCEPT !.todo = z, !.out = y, !.st = x]
            IN  DOMAIN r = SocFields /\ r.view = h.view /\ r.st = x
                /\ r.todo = z
<1>1. LET r == [h EXCEPT !.st = x]
      IN  DOMAIN r = SocFields /\ r.view = h.view /\ r.st = x
          /\ r.todo = h.todo
  BY DEF SocFields
<1>2. LET r == [h EXCEPT !.st = x, !.out = y]
      IN  DOMAIN r = SocFields /\ r.view = h.view /\ r.st = x
          /\ r.todo = h.todo /\ r.out = y
  BY DEF SocFields
<1>3. LET r == [h EXCEPT !.todo = z, !.st = x]
      IN  DOMAIN r = SocFields /\ r.view = h.view /\ r.st = x
          /\ r.todo = z
  BY DEF SocFields
<1>4. LET r == [h EXCEPT !.todo = z, !.out = y, !.st = x]
      IN  DOMAIN r = SocFields /\ r.view = h.view /\ r.st = x
          /\ r.todo = z
  BY DEF SocFields
<1>5. LET r == [h EXCEPT !.st = x, !.arg = y]
      IN  DOMAIN r = SocFields /\ r.view = h.view /\ r.st = x
          /\ r.todo = h.todo /\ r.arg = y
  BY DEF SocFields
<1>6. QED
  BY <1>1, <1>2, <1>3, <1>4, <1>5, Zenon

\* A request that is sent.
LEMMA SocSend ==
  ASSUME SocInv, NEW view, NEW arg, SendRequest(view, arg)
  PROVE  SocFlight(flight')
<1>1. PICK i \in SocSlots :
        flight' = [flight EXCEPT ![i] = NewRequest(view, arg)]
  BY DEF SendRequest
<1>2. SocRequest(NewRequest(view, arg))
  BY DEF SocRequest, NewRequest, SocFields
<1>3. QED
  BY <1>1, <1>2, SocSlot DEF SocInv

\* A request that is over.
LEMMA SocDone ==
  ASSUME SocInv, NEW i \in SocSlots, Done(i)
  PROVE  SocFlight(flight')
<1>1. SocRequest(NoRequest)
  BY DEF SocRequest
<1>2. QED
  BY <1>1, SocSlot DEF SocInv, Done

\* Nothing but the requests changes.
LEMMA SocOthersSame ==
  ASSUME SocInv, UNCHANGED <<world, geo, timeline, markers, hover, filter, tree>>
  PROVE  SocShown' /\ SocRest'
  BY DEF SocInv, SocShown, SocRest, PointerOnMarker, filteredMarkers,
         Arcs

\* Poll keeps the invariant.
LEMMA SocPoll ==
  ASSUME SocInv, NEW view, Poll(view) PROVE SocInv'
<1>1. SocFlight(flight')
  BY SocSend DEF Poll
<1>2. SocShown' /\ SocRest'
  BY SocOthersSame DEF Poll, views
<1>3. QED
  BY <1>1, <1>2 DEF SocInv

\* ServeMap keeps the invariant: the addresses are those of the sources.
LEMMA SocServeMap ==
  ASSUME SocInv, NEW i \in SocSlots, ServeMap(i) PROVE SocInv'
<1> DEFINE h == flight[i]
           st == IF AttackIps = {} THEN "ready" ELSE "locating"
           r == [h EXCEPT !.todo = AttackIps, !.st = st]
<1>1. /\ DOMAIN h = SocFields
      /\ h.view = "map"
  BY SocHeld DEF SocInv, ServeMap
<1>2. DOMAIN flight = SocSlots
  BY DEF SocInv, SocFlight
<1>3. flight' = [flight EXCEPT ![i] = r]
  BY <1>2 DEF ServeMap
<1>4. AttackIps \subseteq SocMarks
  BY SocAttackIps DEF SocInv, SocShown
<1>5. SocRequest(r)
  <2>1. /\ DOMAIN r = SocFields /\ r.view = h.view /\ r.st = st
        /\ r.todo = AttackIps
    BY <1>1, SocChanged
  <2> HIDE DEF r
  <2>2. QED
    BY <1>1, <1>4, <2>1 DEF SocRequest
<1> HIDE DEF r
<1>6. SocFlight(flight')
  BY <1>3, <1>5, SocSlot DEF SocInv
<1>7. SocShown' /\ SocRest'
  BY SocOthersSame DEF ServeMap, views
<1>8. QED
  BY <1>6, <1>7 DEF SocInv

\* Serve keeps the invariant: an answer is of the sources as they are.
LEMMA SocServe ==
  ASSUME SocInv, NEW i \in SocSlots, ServeRequest(i) PROVE SocInv'
<1> DEFINE h == flight[i]
           out == CASE h.view = "timeline" -> world
                    [] h.view = "detail" ->
                         IF \E k \in DOMAIN world.incidents :
                              world.incidents[k].ip = h.arg
                         THEN h.arg ELSE 0
                    [] h.view = "tree" -> AttackTree
                    [] h.view = "home" -> HomeAnswer
           r == [h EXCEPT !.st = "ready", !.out = out]
<1>1. /\ DOMAIN h = SocFields
      /\ h.todo \subseteq SocMarks
  BY SocHeld DEF SocInv, ServeRequest
<1>2. DOMAIN flight = SocSlots
  BY DEF SocInv, SocFlight
<1>3. flight' = [flight EXCEPT ![i].st = "ready", ![i].out = out]
  BY Zenon DEF ServeRequest
<1>4. h.view = "timeline" => out \in World
  BY DEF SocInv, SocShown
<1>5. h.view = "tree" => out = AttackTree
  OBVIOUS
<1> HIDE DEF out
<1>6. flight' = [flight EXCEPT ![i] = r]
  BY <1>2, <1>3
<1>7. AttackTree.trees \in SocTrees
  BY DEF SocInv, SocShown, AttackTree, World, SocTrees
<1>8. SocRequest(r)
  <2>1. /\ DOMAIN r = SocFields /\ r.view = h.view /\ r.st = "ready"
        /\ r.todo = h.todo /\ r.out = out
    BY <1>1, SocChanged
  <2> HIDE DEF r
  <2>2. QED
    BY <1>1, <1>4, <1>5, <1>7, <2>1 DEF SocRequest
<1> HIDE DEF r
<1>9. SocFlight(flight')
  BY <1>6, <1>8, SocSlot DEF SocInv
<1>10. SocShown' /\ SocRest'
  BY SocOthersSame DEF ServeRequest, views
<1>11. QED
  BY <1>9, <1>10 DEF SocInv

\* RequestFails keeps the invariant.
LEMMA SocFails ==
  ASSUME SocInv, NEW i \in SocSlots, RequestFails(i) PROVE SocInv'
<1> DEFINE h == flight[i]
<1>1. PICK st \in {"refused", "lost"} : flight' = [flight EXCEPT ![i].st = st]
  BY DEF RequestFails
<1> DEFINE r == [h EXCEPT !.st = st]
<1>2. /\ DOMAIN h = SocFields
      /\ h.todo \subseteq SocMarks
  BY SocHeld DEF SocInv, RequestFails
<1>3. DOMAIN flight = SocSlots
  BY DEF SocInv, SocFlight
<1>4. flight' = [flight EXCEPT ![i] = r]
  BY <1>1, <1>3
<1>5. SocRequest(r)
  <2>1. /\ DOMAIN r = SocFields /\ r.view = h.view /\ r.st = st
        /\ r.todo = h.todo
    BY <1>2, SocChanged
  <2> HIDE DEF r
  <2>2. QED
    BY <1>2, <2>1 DEF SocRequest
<1> HIDE DEF r
<1>6. SocFlight(flight')
  BY <1>4, <1>5, SocSlot DEF SocInv
<1>7. SocShown' /\ SocRest'
  BY SocOthersSame DEF RequestFails, views
<1>8. QED
  BY <1>6, <1>7 DEF SocInv

\* What remains without the oldest entry.
LEMMA SocTail ==
  ASSUME NEW S, NEW c \in Seq(S), NEW n \in Nat, Len(c) > n
  PROVE  Tail(c) \in Seq(S) /\ Len(Tail(c)) = Len(c) - 1
  OBVIOUS

\* A request with one address less to do is as sound as it was.
LEMMA SocLocated ==
  ASSUME NEW h, DOMAIN h = SocFields, h.todo \subseteq SocMarks,
         h.view = "map", NEW ip, NEW ok
  PROVE  SocRequest(Located(h, ip, ok))
<1> DEFINE m == CHOOSE x \in h.todo : x.ip = ip
           st == IF h.todo = {m} THEN "ready" ELSE "locating"
           out == IF ok THEN h.out \union {m} ELSE h.out
           r == [h EXCEPT !.todo = h.todo \ {m}, !.out = out, !.st = st]
<1>1. Located(h, ip, ok) = r
  BY DEF Located
<1> HIDE DEF m
<1>2. /\ DOMAIN r = SocFields /\ r.view = h.view /\ r.st = st
      /\ r.todo = h.todo \ {m}
  BY SocChanged
<1>3. st # "asking"
  OBVIOUS
<1> HIDE DEF r, st
<1>4. QED
  BY <1>1, <1>2, <1>3 DEF SocRequest

\* The cache of the locator keeps its limit, and an address one answer,
\* whether it was there before or not.
LEMMA SocRemembered ==
  ASSUME SocRest, NEW ip \in Nat, NEW ok \in BOOLEAN,
         geo' = Remembered(ip, ok)
  PROVE  SocRest'
<1>1. /\ geo \in Seq(Nat \X BOOLEAN) /\ Len(geo) <= MaxCache
      /\ OneAnswer(geo) /\ MaxCache \in Nat
  BY SocViewAssumption DEF SocRest
<1>2. /\ DOMAIN geo = 1..Len(geo) /\ Len(geo) \in Nat
      /\ \A i \in DOMAIN geo : geo[i] \in Nat \X BOOLEAN
  BY <1>1
<1>3. <<ip, ok>> \in Nat \X BOOLEAN /\ <<ip, ok>>[1] = ip
  OBVIOUS
<1>4. CASE Cached(ip)
  <2>1. geo' = [i \in DOMAIN geo |->
                  IF geo[i][1] = ip THEN <<ip, ok>> ELSE geo[i]]
    BY <1>4 DEF Remembered
  <2>2. geo' \in [1..Len(geo) -> Nat \X BOOLEAN]
    BY <1>2, <1>3, <2>1
  <2>3. geo' \in Seq(Nat \X BOOLEAN) /\ Len(geo') = Len(geo)
    BY <1>2, <2>2
  <2>4. DOMAIN geo' = DOMAIN geo /\ \A i \in DOMAIN geo : geo'[i][1] = geo[i][1]
    BY <1>3, <2>1
  <2>5. OneAnswer(geo')
    BY <1>1, <2>4 DEF OneAnswer
  <2>6. QED
    BY <1>1, <2>3, <2>5 DEF SocRest, OneAnswer
<1>5. CASE ~Cached(ip)
  <2> DEFINE c == Append(geo, <<ip, ok>>)
  <2>1. geo' = IF Len(c) > MaxCache THEN Tail(c) ELSE c
    BY <1>5 DEF Remembered, trimCache
  <2>2. /\ c \in Seq(Nat \X BOOLEAN) /\ Len(c) = Len(geo) + 1
        /\ \A i \in 1..Len(geo) : c[i] = geo[i]
        /\ c[Len(geo) + 1] = <<ip, ok>>
    BY <1>1, <1>3
  <2> HIDE DEF c
  <2>3. OneAnswer(c)
    <3> SUFFICES ASSUME NEW i \in DOMAIN c, NEW j \in DOMAIN c,
                        c[i][1] = c[j][1]
                 PROVE  i = j
      BY DEF OneAnswer
    <3>1. /\ i \in 1..(Len(geo) + 1) /\ j \in 1..(Len(geo) + 1)
      BY <2>2
    <3>2. \A k \in 1..Len(geo) : c[k][1] # ip
      BY <1>2, <1>5, <2>2 DEF Cached
    <3>3. c[Len(geo) + 1][1] = ip
      BY <1>3, <2>2
    <3>4. CASE i \in 1..Len(geo) /\ j \in 1..Len(geo)
      BY <1>1, <1>2, <2>2, <3>4 DEF OneAnswer
    <3>5. QED
      BY <1>2, <3>1, <3>2, <3>3, <3>4
  <2>4. CASE Len(c) > MaxCache
    <3>1. Tail(c) \in Seq(Nat \X BOOLEAN) /\ Len(Tail(c)) = Len(c) - 1
      BY <1>1, <2>2, <2>4, SocTail
    <3>2. /\ DOMAIN c = 1..Len(c) /\ Len(c) \in Nat
          /\ DOMAIN Tail(c) = 1..(Len(c) - 1)
          /\ \A i \in 1..(Len(c) - 1) : Tail(c)[i] = c[i + 1]
      BY <1>2, <2>2
    <3>3. OneAnswer(Tail(c))
      <4> SUFFICES ASSUME NEW i \in DOMAIN Tail(c), NEW j \in DOMAIN Tail(c),
                          Tail(c)[i][1] = Tail(c)[j][1]
                   PROVE  i = j
        BY DEF OneAnswer
      <4>1. /\ i + 1 \in DOMAIN c /\ j + 1 \in DOMAIN c /\ i \in Int /\ j \in Int
            /\ c[i + 1][1] = c[j + 1][1]
        BY <3>2
      <4>2. i + 1 = j + 1
        BY <2>3, <4>1 DEF OneAnswer
      <4>3. QED
        BY <4>1, <4>2
    <3>4. geo' = Tail(c) /\ Len(geo') <= MaxCache
      BY <1>1, <1>2, <2>1, <2>2, <2>4, <3>1
    <3>5. QED
      BY <3>1, <3>3, <3>4 DEF SocRest, OneAnswer
  <2>5. CASE ~(Len(c) > MaxCache)
    <3>1. geo' = c /\ Len(geo') <= MaxCache
      BY <1>1, <1>2, <2>1, <2>2, <2>5
    <3>2. QED
      BY <2>2, <2>3, <3>1 DEF SocRest, OneAnswer
  <2>6. QED
    BY <2>4, <2>5
<1>6. QED
  BY <1>4, <1>5

\* lookupIpGeo keeps the invariant.
LEMMA SocLookup ==
  ASSUME SocInv, NEW i \in SocSlots, NEW ip,
         lookupIpGeo(i, ip)
  PROVE  SocInv'
<1> DEFINE h == flight[i]
<1>1. /\ DOMAIN h = SocFields
      /\ h.todo \subseteq SocMarks /\ h.view = "map"
      /\ \E x \in h.todo : x.ip = ip
  <2>1. h.st = "locating" /\ \E x \in h.todo : x.ip = ip
    BY DEF lookupIpGeo
  <2>2. QED
    BY <2>1, SocHeld DEF SocInv
<1>2. ip \in Nat
  BY <1>1 DEF SocMarks
<1>3. DOMAIN flight = SocSlots
  BY DEF SocInv, SocFlight
<1> DEFINE r == [h EXCEPT !.st = "asking", !.arg = ip]
<1>4. SocRequest(r)
  <2>1. /\ DOMAIN r = SocFields /\ r.view = h.view /\ r.st = "asking"
        /\ r.todo = h.todo /\ r.arg = ip
    BY <1>1, SocChanged
  <2> HIDE DEF r
  <2>2. QED
    BY <1>1, <2>1 DEF SocRequest
<1>5. \E g : /\ SocRequest(g)
             /\ flight' = [flight EXCEPT ![i] = g]
  <2>1. \/ \E ok : flight' = [flight EXCEPT ![i] = Located(h, ip, ok)]
        \/ flight' = [flight EXCEPT ![i].st = "asking", ![i].arg = ip]
    BY DEF lookupIpGeo
  <2>2. CASE \E ok : flight' = [flight EXCEPT ![i] = Located(h, ip, ok)]
    BY <1>1, <2>2, SocLocated
  <2>3. CASE flight' = [flight EXCEPT ![i].st = "asking", ![i].arg = ip]
    <3>1. flight' = [flight EXCEPT ![i] = r]
      BY <1>3, <2>3
    <3> HIDE DEF r
    <3>2. QED
      BY <1>4, <3>1
  <2>4. QED
    BY <2>1, <2>2, <2>3
<1>6. SocFlight(flight')
  BY <1>5, SocSlot DEF SocInv
<1>7. SocRest'
  <2>1. geo' = geo \/ geo' = Remembered(ip, TRUE)
    BY DEF lookupIpGeo
  <2>2. CASE geo' = geo
    BY <2>2 DEF SocInv, SocRest, OneAnswer
  <2>3. CASE geo' = Remembered(ip, TRUE)
    BY <1>2, <2>3, SocRemembered DEF SocInv
  <2>4. QED
    BY <2>1, <2>2, <2>3
<1>8. UNCHANGED <<world, filter, views>>
  BY DEF lookupIpGeo
<1>9. SocShown'
  BY <1>8 DEF SocInv, SocShown, PointerOnMarker, filteredMarkers, Arcs, views
<1>10. QED
  BY <1>6, <1>7, <1>9 DEF SocInv

\* StoreGeo keeps the invariant.
LEMMA SocStore ==
  ASSUME SocInv, NEW i \in SocSlots, NEW ok \in BOOLEAN, StoreGeo(i, ok)
  PROVE  SocInv'
<1> DEFINE h == flight[i]
<1>1. /\ DOMAIN h = SocFields
      /\ h.todo \subseteq SocMarks /\ h.view = "map"
      /\ \E x \in h.todo : x.ip = h.arg
  <2>1. h.st = "asking"
    BY DEF StoreGeo
  <2>2. QED
    BY <2>1, SocHeld DEF SocInv
<1>2. h.arg \in Nat
  BY <1>1 DEF SocMarks
<1>3. /\ flight' = [flight EXCEPT ![i] = Located(h, h.arg, ok)]
      /\ geo' = Remembered(h.arg, ok)
      /\ UNCHANGED <<world, filter, views>>
  BY DEF StoreGeo
<1>4. SocRequest(Located(h, h.arg, ok))
  BY <1>1, SocLocated
<1>5. SocFlight(flight')
  BY <1>3, <1>4, SocSlot DEF SocInv
<1>6. SocRest'
  BY <1>2, <1>3, SocRemembered DEF SocInv
<1>7. SocShown'
  BY <1>3 DEF SocInv, SocShown, PointerOnMarker, filteredMarkers, Arcs, views
<1>8. QED
  BY <1>5, <1>6, <1>7 DEF SocInv

\* ShowTimeline keeps the invariant: what is shown was one of the sources.
LEMMA SocShowTimeline ==
  ASSUME SocInv, NEW i \in SocSlots, ShowTimeline(i) PROVE SocInv'
<1>1. SocFlight(flight')
  BY SocDone DEF ShowTimeline
<1>2. /\ flight[i].st = "ready" => flight[i].out \in World
      /\ timeline' \in {flight[i].out, timeline, None}
      /\ timeline' = flight[i].out /\ timeline' # timeline /\ timeline' # None
           => flight[i].st = "ready"
  <2>1. /\ flight[i].st \in {"ready", "refused", "lost"}
        /\ flight[i].view = "timeline"
        /\ timeline' = CASE flight[i].st = "ready" -> flight[i].out
                         [] flight[i].st = "refused" -> timeline
                         [] flight[i].st = "lost" -> None
    BY DEF ShowTimeline
  <2>2. flight[i].st = "ready" => flight[i].out \in World
    BY <2>1, SocHeld DEF SocInv
  <2>3. QED
    BY <2>1, <2>2
<1>3. timeline' # None => timeline' \in World
  BY <1>2 DEF SocInv, SocShown
<1>4. SocShown'
  BY <1>3 DEF ShowTimeline, SocInv, SocShown, PointerOnMarker,
              filteredMarkers, Arcs, None
<1>5. SocRest'
  BY DEF ShowTimeline, SocInv, SocRest
<1>6. QED
  BY <1>1, <1>4, <1>5 DEF SocInv

\* ShowMap keeps the invariant.
LEMMA SocShowMap ==
  ASSUME SocInv, NEW i \in SocSlots, ShowMap(i) PROVE SocInv'
<1>1. SocFlight(flight')
  BY SocDone DEF ShowMap
<1>2. hover' # 0 => hover' \in {m.ip : m \in filteredMarkers(markers', filter')}
  BY DEF ShowMap, filteredMarkers
<1>3. PointerOnMarker'
  BY <1>2 DEF PointerOnMarker, filteredMarkers, Arcs
<1>4. SocShown'
  BY <1>3 DEF ShowMap, SocInv, SocShown, None
<1>5. SocRest'
  BY DEF ShowMap, SocInv, SocRest
<1>6. QED
  BY <1>1, <1>4, <1>5 DEF SocInv

\* ShowDetail keeps the invariant.
LEMMA SocShowDetail ==
  ASSUME SocInv, NEW i \in SocSlots, ShowDetail(i) PROVE SocInv'
<1>1. SocFlight(flight')
  BY SocDone DEF ShowDetail
<1>2. SocShown' /\ SocRest'
  BY SocOthersSame DEF ShowDetail
<1>3. QED
  BY <1>1, <1>2 DEF SocInv

\* ShowTree keeps the invariant: the trees shown are those of an answer.
LEMMA SocShowTree ==
  ASSUME SocInv, NEW i \in SocSlots, ShowTree(i) PROVE SocInv'
<1>1. SocFlight(flight')
  BY SocDone DEF ShowTree
<1>2. /\ flight[i].st \in {"ready", "refused", "lost"}
      /\ flight[i].view = "tree"
  BY DEF ShowTree
<1>3. DOMAIN tree = {"trees", "source", "selected"} /\ tree.trees \in SocTrees
  BY DEF SocInv, SocShown
<1>4. ASSUME NEW t, NEW x, t \in SocTrees, tree' = [tree EXCEPT !.trees = t, !.source = x]
      PROVE  DOMAIN tree' = {"trees", "source", "selected"} /\ tree'.trees = t
  BY <1>3, <1>4
<1>5. DOMAIN tree' = {"trees", "source", "selected"} /\ tree'.trees \in SocTrees
  <2>1. CASE flight[i].st = "ready"
    <3>1. tree' = [tree EXCEPT !.trees = flight[i].out.trees,
                               !.source = flight[i].out.source]
      BY <2>1 DEF ShowTree
    <3>2. flight[i].out.trees \in SocTrees
      BY <1>2, <2>1, SocHeld DEF SocInv
    <3>3. QED
      BY <1>4, <3>1, <3>2
  <2>2. CASE flight[i].st = "refused"
    <3>1. tree' = [tree EXCEPT !.trees = <<>>, !.source = "empty"]
      BY <2>2 DEF ShowTree
    <3>2. <<>> \in SocTrees
      BY DEF SocTrees
    <3>3. QED
      BY <1>4, <3>1, <3>2
  <2>3. CASE flight[i].st = "lost"
    <3>1. tree' = tree
      BY <2>3 DEF ShowTree
    <3>2. QED
      BY <1>3, <3>1
  <2>4. QED
    BY <1>2, <2>1, <2>2, <2>3
<1>6. SocShown'
  BY <1>5 DEF ShowTree, SocInv, SocShown, PointerOnMarker,
              filteredMarkers, Arcs, None
<1>7. SocRest'
  BY DEF ShowTree, SocInv, SocRest
<1>8. QED
  BY <1>1, <1>6, <1>7 DEF SocInv

\* ShowHome keeps the invariant: a round that waits for the kill counter keeps
\* its answer.
LEMMA SocShowHome ==
  ASSUME SocInv, NEW i \in SocSlots, ShowHome(i) PROVE SocInv'
<1> DEFINE h == flight[i]
           r == [h EXCEPT !.st = "counting"]
<1>1. /\ DOMAIN h = SocFields
      /\ h.todo \subseteq SocMarks
  BY SocHeld DEF SocInv, ShowHome
<1>2. DOMAIN flight = SocSlots
  BY DEF SocInv, SocFlight
<1>3. SocRequest(r)
  <2>1. /\ DOMAIN r = SocFields /\ r.st = "counting" /\ r.todo = h.todo
    BY <1>1, SocChanged
  <2> HIDE DEF r
  <2>2. QED
    BY <1>1, <2>1 DEF SocRequest
<1>4. SocFlight(flight')
  <2>1. Done(i) \/ flight' = [flight EXCEPT ![i].st = "counting"]
    BY DEF ShowHome
  <2>2. CASE Done(i)
    BY <2>2, SocDone
  <2>3. CASE flight' = [flight EXCEPT ![i].st = "counting"]
    <3>1. flight' = [flight EXCEPT ![i] = r]
      BY <1>2, <2>3
    <3> HIDE DEF r
    <3>2. QED
      BY <1>3, <3>1, SocSlot DEF SocInv
  <2>4. QED
    BY <2>1, <2>2, <2>3
<1>5. SocShown' /\ SocRest'
  BY SocOthersSame DEF ShowHome
<1>6. QED
  BY <1>4, <1>5 DEF SocInv

\* CountKills keeps the invariant.
LEMMA SocCountKills ==
  ASSUME SocInv, NEW i \in SocSlots, CountKills(i) PROVE SocInv'
<1>1. SocFlight(flight')
  BY SocDone DEF CountKills
<1>2. SocShown' /\ SocRest'
  BY SocOthersSame DEF CountKills
<1>3. QED
  BY <1>1, <1>2 DEF SocInv

\* SetFilter keeps the invariant.
LEMMA SocSetFilter ==
  ASSUME SocInv, NEW f, SetFilter(f) PROVE SocInv'
<1>1. SocFlight(flight')
  BY DEF SetFilter, SocInv
<1>2. hover' # 0 => hover' \in {m.ip : m \in filteredMarkers(markers', filter')}
  BY DEF SetFilter, filteredMarkers
<1>3. PointerOnMarker'
  BY <1>2 DEF PointerOnMarker, filteredMarkers, Arcs
<1>4. SocShown'
  BY <1>3 DEF SetFilter, SocInv, SocShown, None
<1>5. SocRest'
  BY DEF SetFilter, SocInv, SocRest
<1>6. QED
  BY <1>1, <1>4, <1>5 DEF SocInv

\* Hover keeps the invariant.
LEMMA SocHover ==
  ASSUME SocInv, NEW m, Hover(m) PROVE SocInv'
<1>1. SocFlight(flight')
  BY DEF Hover, SocInv
<1>2. hover' # 0 => hover' \in {x.ip : x \in filteredMarkers(markers', filter')}
  BY DEF Hover, filteredMarkers
<1>3. PointerOnMarker'
  BY <1>2 DEF PointerOnMarker, filteredMarkers, Arcs
<1>4. SocShown'
  BY <1>3 DEF Hover, SocInv, SocShown, None
<1>5. SocRest'
  BY DEF Hover, SocInv, SocRest
<1>6. QED
  BY <1>1, <1>4, <1>5 DEF SocInv

\* The other clicks, and new sources.
LEMMA SocClicks ==
  ASSUME SocInv, \/ \E ip : openDetail(ip)
         \/ CloseDetail
         \/ \E k : SelectTree(k)
         \/ \E t : SelectTenant(t)
         \/ WorldMoves
         \/ UNCHANGED socVars
  PROVE  SocInv'
<1>1. CASE \E ip : openDetail(ip)
  <2>1. PICK ip : openDetail(ip)
    BY <1>1
  <2>2. SocFlight(flight')
    BY <2>1, SocSend DEF openDetail
  <2>3. SocShown' /\ SocRest'
    BY <2>1, SocOthersSame DEF openDetail
  <2>4. QED
    BY <2>2, <2>3 DEF SocInv
<1>2. CASE CloseDetail
  <2>1. SocFlight(flight')
    BY <1>2 DEF CloseDetail, SocInv
  <2>2. SocShown' /\ SocRest'
    BY <1>2, SocOthersSame DEF CloseDetail
  <2>3. QED
    BY <2>1, <2>2 DEF SocInv
<1>3. CASE \E k : SelectTree(k)
  <2>1. PICK k : SelectTree(k)
    BY <1>3
  <2>2. SocFlight(flight')
    BY <2>1 DEF SelectTree, SocInv
  <2>3. /\ DOMAIN tree' = {"trees", "source", "selected"}
        /\ tree'.trees = tree.trees
    BY <2>1 DEF SelectTree, SocInv, SocShown
  <2>4. SocShown'
    BY <2>1, <2>3 DEF SelectTree, SocInv, SocShown, PointerOnMarker,
                      filteredMarkers, Arcs, None
  <2>5. SocRest'
    BY <2>1 DEF SelectTree, SocInv, SocRest
  <2>6. QED
    BY <2>2, <2>4, <2>5 DEF SocInv
<1>4. CASE \E t : SelectTenant(t)
  <2>1. SocFlight(flight')
    BY <1>4 DEF SelectTenant, SocInv
  <2>2. SocShown' /\ SocRest'
    BY <1>4, SocOthersSame DEF SelectTenant, views
  <2>3. QED
    BY <2>1, <2>2 DEF SocInv
<1>5. CASE WorldMoves
  <2>1. SocFlight(flight') /\ world' \in World
    BY <1>5, SocViewAssumption DEF WorldMoves, SocInv
  <2>2. SocShown'
    BY <1>5, <2>1 DEF WorldMoves, views, SocInv, SocShown,
                      PointerOnMarker, filteredMarkers, Arcs, None
  <2>3. SocRest'
    BY <1>5 DEF WorldMoves, views, SocInv, SocRest
  <2>4. QED
    BY <2>1, <2>2, <2>3 DEF SocInv
<1>6. CASE UNCHANGED socVars
  <2>1. SocFlight(flight')
    BY <1>6 DEF socVars, SocInv
  <2>2. SocShown' /\ SocRest'
    BY <1>6, SocOthersSame DEF socVars, views
  <2>3. QED
    BY <2>1, <2>2 DEF SocInv
<1>7. QED
  BY <1>1, <1>2, <1>3, <1>4, <1>5, <1>6

\* Every step keeps the invariant.
LEMMA SocNextInv ==
  ASSUME SocInv, [SocNext]_socVars PROVE SocInv'
<1>1. ASSUME NEW i \in SocSlots, Progress(i) PROVE SocInv'
  <2>1. CASE ServeMap(i)
    BY <2>1, SocServeMap
  <2>2. CASE ServeRequest(i)
    BY <2>2, SocServe
  <2>3. CASE ShowAny(i)
    BY <2>3, SocShowTimeline, SocShowMap, SocShowDetail, SocShowTree,
       SocShowHome DEF ShowAny
  <2>4. CASE \E ip : lookupIpGeo(i, ip)
    BY <2>4, SocLookup
  <2>5. CASE \E ok \in BOOLEAN : StoreGeo(i, ok)
    BY <2>5, SocStore
  <2>6. CASE CountKills(i)
    BY <2>6, SocCountKills
  <2>7. QED
    BY <1>1, <2>1, <2>2, <2>3, <2>4, <2>5, <2>6 DEF Progress
<1>2. ASSUME NEW i \in SocSlots, RequestFails(i) PROVE SocInv'
  BY <1>2, SocFails
<1>3. ASSUME NEW v, Poll(v) PROVE SocInv'
  BY <1>3, SocPoll
<1>4. ASSUME NEW f, SetFilter(f) PROVE SocInv'
  BY <1>4, SocSetFilter
<1>5. ASSUME NEW m, Hover(m) PROVE SocInv'
  BY <1>5, SocHover
<1>6. CASE \/ \E ip : openDetail(ip)
           \/ CloseDetail
           \/ \E k : SelectTree(k)
           \/ \E t : SelectTenant(t)
           \/ WorldMoves
           \/ UNCHANGED socVars
  BY <1>6, SocClicks
<1>7. QED
  BY <1>1, <1>2, <1>3, <1>4, <1>5, <1>6 DEF SocNext

\* What is under way or shown was made of sources the system had, a lookup that
\* is waited for is of an address still to do, the pointer is on a marker, and
\* the cache of the locator has one answer for an address and keeps its limit.
THEOREM SocInvariant ==
  SocSpec => []SocInv
<1>1. SocInit => SocInv
  BY SocInitInv
<1>2. SocInv /\ [SocNext]_socVars => SocInv'
  BY SocNextInv
<1>3. QED
  BY <1>1, <1>2, PTL DEF SocSpec

\* The timeline shows the newest events, in order and none twice; a live
\* answer has one ban for every address, and of what was merged (of the ban
\* list only its first MaxBans) leaves out nothing newer than what it shows
\* (the merge, dedupeTimelineBansByIp, the cut and the
\* fallback of /api/soc-timeline).
THEOREM SocTimelineNewest ==
  SocSpec => []TimelineNewest
<1>1. ASSUME SocInv PROVE TimelineNewest
  <2> SUFFICES ASSUME timeline # None PROVE TimelineNewest
    BY DEF TimelineNewest
  <2> DEFINE a == SocTimeline(timeline)
             s == a.entries
  <2>1. timeline \in World
    BY <1>1 DEF SocInv, SocShown
  <2>2. /\ s \in Seq(SocEntries) /\ Newer(s) /\ Distinct(s)
        /\ a.mode # "preview" => OneBan(ToSet(s))
        /\ a.mode \in {"live", "live_partial"} =>
             \A e \in ToSet(Merged(timeline)) \ ToSet(s) :
               e.ts <= Last(s).ts
    BY <2>1, SocAnswer
  <2> HIDE DEF a
  <2>3. ASSUME NEW i \in DOMAIN s, NEW j \in DOMAIN s, i < j
        PROVE  s[i].ts >= s[j].ts /\ s[i] # s[j]
    <3>1. i \in Int /\ j \in Int
      BY <2>2, SocSeq
    <3>2. QED
      BY <2>2, <2>3, <3>1 DEF Newer, Distinct
  <2>4. ASSUME a.mode \in {"live", "live_partial"}, NEW i \in DOMAIN s,
               NEW j \in DOMAIN s, s[i].kind = "ban", s[j].kind = "ban",
               s[i].ip = s[j].ip
        PROVE  i = j
    <3>1. OneBan(ToSet(s))
      BY <2>2, <2>4
    <3>2. s[i] \in ToSet(s) /\ s[j] \in ToSet(s)
      BY DEF ToSet
    <3>3. s[i] = s[j]
      BY <2>4, <3>1, <3>2 DEF OneBan
    <3>4. QED
      BY <2>2, <3>3 DEF Distinct
  <2>5. QED
    BY <2>2, <2>3, <2>4 DEF TimelineNewest, a
<1>2. QED
  BY <1>1, SocInvariant, PTL

\* The parts of a view agree: the counts of the filter chips with the entries
\* they filter and the pointer with the markers, whatever polls, answers and
\* clicks overlap; and the locator's cache has one answer for an address and
\* keeps its limit, although overlapping lookups check it, wait, and store
\* (lookupIpGeo, trimCache).
THEOREM SocViewsAgree ==
  SocSpec => []ViewsAgree
<1>1. ASSUME SocInv PROVE CountsAgree
  <2> SUFFICES ASSUME timeline # None PROVE CountsAgree
    BY DEF CountsAgree
  <2> DEFINE a == SocTimeline(timeline)
             s == a.entries
  <2>1. timeline \in World
    BY <1>1 DEF SocInv, SocShown
  <2>2. /\ s \in Seq(SocEntries) /\ Distinct(s)
        /\ a.mode # "preview" => OneBan(ToSet(s))
    BY <2>1, SocAnswer
  <2> HIDE DEF a
  <2>3. \A k \in Kinds :
          /\ kindCount(s, k) <= Len(Shown(s, k))
          /\ a.mode # "preview" => kindCount(s, k) = Len(Shown(s, k))
    BY <2>2, SocCounts
  <2>4. QED
    BY <2>3, Zenon DEF CountsAgree, a
<1>2. SocInv => ViewsAgree
  BY <1>1 DEF ViewsAgree, SocInv, SocShown, SocRest, OneAnswer
<1>3. QED
  BY <1>2, SocInvariant, PTL
=============================================================================
