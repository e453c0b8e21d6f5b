------------------------- MODULE CallFollow_proofs --------------------------
(***************************************************************************)
(* Theorems about call following, for any sites, receivers and talkgroups, *)
(* any priorities, lists and times, and any choice of UI commands.  They   *)
(* hold between any two steps of the message thread, where the UI thread   *)
(* may run.                                                                *)
(*                                                                         *)
(* The inductive invariant adds three things to RadioInv: every receiver   *)
(* stays bound to its site; a receiver in a call holds that talkgroup      *)
(* manually or holds nothing; and, as long as the talkgroup table is not   *)
(* rebuilt from the database, it agrees with the receivers.                *)
(*                                                                         *)
(* Of RxCtl_proofs only the part about the tuning core is used; no proof   *)
(* here needs anything that RxCtl declares or assumes.                     *)
(***************************************************************************)
EXTENDS CallFollow, RxCtl_proofs, WellFoundedInduction

(* Reload() replaces the talkgroup table only when there is a database. *)
TableKept == ~ Database \/ "reload" \notin Commands

TableAgrees(d) ==
    /\ \A s \in Sites, t \in Tgids : d.own[s][t] # NoRx =>
         d.sys[d.own[s][t]] = s /\ d.tgid[d.own[s][t]] = t
    /\ \A r \in Receivers : d.tgid[r] # NoTg =>
         d.own[d.sys[r]][d.tgid[r]] = r

(* A manual hold is on something and without end; in a call it is on that  *)
(* call, and without one nothing is held.                                  *)
HoldFits(w, r) ==
    /\ w.ear[r].mode => w.ear[r].hold # NoTg /\ w.ear[r].until = Forever
    /\ w.radio.tgid[r] # NoTg =>
         w.ear[r].hold = (IF w.ear[r].mode THEN w.radio.tgid[r] ELSE NoTg)

(* The receivers that are still to be scanned are those of the site whose  *)
(* message is handled.                                                     *)
HandFits(w) ==
    w.hand.busy => \A q \in w.hand.todo : HomeOf[q] = w.hand.site

WorldType == [radio : Radio, ear : [Receivers -> Ear], hand : Handler]

(* The invariant without what a receiver's hold has to do with its call,   *)
(* which HoldTalkgroup() breaks for a moment.                              *)
Core(w) ==
    /\ w \in WorldType
    /\ RadioInv(w.radio)
    /\ w.radio.sys = HomeOf
    /\ TableKept => TableAgrees(w.radio)
    /\ HandFits(w)

WorldInv(w) == Core(w) /\ \A r \in Receivers : HoldFits(w, r)

(* Every site without a claim on its control channel has all its receivers *)
(* busy.                                                                   *)
Served(d) ==
    \A s \in Sites : d.cc[s] = NoRx /\ CCCount[s] > 0 =>
        \A r \in Receivers : HomeOf[r] = s => r \notin d.idle

IInv ==
    /\ WorldInv(World)
    /\ due \in BOOLEAN
    /\ ~ hand.busy => Served(radio)

(* Every receiver is in the list of one site and bound to it. *)
LEMMA Homes ==
    /\ HomeOf \in [Receivers -> Sites]
    /\ \A r \in Receivers : HomeOf[r] # NoSite
    /\ NoRx \notin Receivers /\ NoTg \notin Tgids
  BY RadioAssumption, CallAssumption

(* A set of natural numbers has a least element. *)
LEMMA LeastElement ==
    ASSUME NEW T \in SUBSET Nat, T # {}
    PROVE  \E x \in T : \A y \in T : x <= y
<1> DEFINE R == OpToRel(<, Nat)
<1>1. IsWellFoundedOn(R, Nat)
  BY NatLessThanWellFounded
<1>2. \A x, y \in Nat : <<x, y>> \in R <=> x < y
  BY DEF OpToRel
<1> HIDE DEF R
<1>3. PICK x \in T : \A y \in T : ~ (<<y, x>> \in R)
  BY <1>1, WFMin, Zenon
<1>4. ASSUME NEW y \in T
      PROVE  x <= y
  <2>1. x \in Nat /\ y \in Nat
    OBVIOUS
  <2>2. ~ (y < x)
    BY <1>2, <1>3, <2>1, Zenon
  <2> QED  BY <2>1, <2>2
<1> QED  BY <1>4

-----------------------------------------------------------------------------
(* The tuning core: who is in which call.                                  *)

(* Agreement is about the table, the bindings and the calls only. *)
LEMMA TableFrame ==
    ASSUME NEW d, NEW e, e.own = d.own, e.sys = d.sys, e.tgid = d.tgid
    PROVE  TableAgrees(e) <=> TableAgrees(d)
  BY DEF TableAgrees

(* What the operators that begin and end no call leave alone. *)
SameCalls(d, e) == e.own = d.own /\ e.sys = d.sys /\ e.tgid = d.tgid

(* idle_rx(), the reassignment and the control-channel hunt begin and end  *)
(* no call.                                                                *)
LEMMA SameCallsOps ==
    ASSUME NEW d \in Radio, NEW r \in Receivers
    PROVE  /\ SameCalls(d, IdleRx(d, r))
           /\ SameCalls(d, CheckCCAssignments(d))
           /\ SameCalls(d, TimeoutCC(d, r))
<1>1. SameCalls(d, IdleRx(d, r))
  BY DEF IdleRx, SameCalls, Radio
<1>2. SameCalls(d, CheckCCAssignments(d))
  BY DEF CheckCCAssignments, SameCalls, Radio
<1>3. SameCalls(d, TimeoutCC(d, r))
  BY DEF TimeoutCC, NextCC, TuneCC, IdleRx, SameCalls, Radio
<1> QED  BY <1>1, <1>2, <1>3

(* The end of a call takes the receiver, and nobody else, out of the table. *)
LEMMA DropCallTable ==
    ASSUME NEW d, NEW r \in Receivers, RadioInv(d), d.tgid[r] # NoTg, TableAgrees(d)
    PROVE  TableAgrees(DropCall(d, r))
<1> DEFINE s == d.sys[r]
           t == d.tgid[r]
           e == DropCall(d, r)
<1>1. /\ d \in Radio /\ s \in Sites /\ t \in Tgids
      /\ d.own \in [Sites -> [Tgids -> Receivers \cup {NoRx}]]
      /\ d.tgid \in [Receivers -> Tgids \cup {NoTg}]
      /\ d.sys \in [Receivers -> Sites]
  BY DEF RadioInv, Radio
<1>2. /\ e.own = [d.own EXCEPT ![s][t] = NoRx]
      /\ e.tgid = [d.tgid EXCEPT ![r] = NoTg]
      /\ e.sys = d.sys
  BY <1>1 DEF DropCall, Radio
<1>3. d.own[s][t] = r
  BY <1>1 DEF TableAgrees
<1> HIDE DEF e, s, t
<1>4. ASSUME NEW u \in Sites, NEW v \in Tgids, e.own[u][v] # NoRx
      PROVE  e.sys[e.own[u][v]] = u /\ e.tgid[e.own[u][v]] = v
  <2>1. ~ (u = s /\ v = t) /\ e.own[u][v] = d.own[u][v]
    BY <1>1, <1>2, <1>4
  <2>2. d.own[u][v] \in Receivers /\ d.sys[d.own[u][v]] = u /\ d.tgid[d.own[u][v]] = v
    BY <1>1, <1>4, <2>1 DEF TableAgrees
  <2>3. d.own[u][v] # r
    BY <2>1, <2>2 DEF s, t
  <2> QED  BY <1>1, <1>2, <2>1, <2>2, <2>3
<1>5. ASSUME NEW q \in Receivers, e.tgid[q] # NoTg
      PROVE  e.own[e.sys[q]][e.tgid[q]] = q
  <2>1. q # r /\ e.tgid[q] = d.tgid[q] /\ d.sys[q] \in Sites /\ d.tgid[q] \in Tgids
    BY <1>1, <1>2, <1>5
  <2>2. d.own[d.sys[q]][d.tgid[q]] = q
    BY <2>1, <1>5 DEF TableAgrees
  <2>3. ~ (d.sys[q] = s /\ d.tgid[q] = t)
    BY <1>3, <2>1, <2>2
  <2> QED  BY <1>1, <1>2, <2>1, <2>2, <2>3
<1> QED  BY <1>4, <1>5 DEF TableAgrees, e

(* A channel that cannot be tuned changes no call. *)
LEMMA UntunedCalls ==
    ASSUME NEW d \in Radio, NEW r \in Receivers, NEW t \in Tgids
    PROVE  SameCalls(d, TuneVoice(d, r, t, FALSE))
<1>1. CASE r \in d.idle
  BY <1>1 DEF TuneVoice, SameCalls, Radio
<1>2. CASE r \notin d.idle
  BY <1>2 DEF TuneVoice, ReleaseCC, SameCalls, Radio
<1> QED  BY <1>1, <1>2

(* What tune_voice() makes of the record of the call and of the table. *)
TakesCall(d, e, r, t) ==
    /\ e.sys = d.sys
    /\ e.tgid[r] = t
    /\ \A q \in Receivers : q # r => e.tgid[q] = d.tgid[q]
    /\ e.own[d.sys[r]][t] = r
    /\ \A u \in Sites, v \in Tgids : u # d.sys[r] \/ v # t => e.own[u][v] = d.own[u][v]

(* A channel that can be tuned: the call and the table change together. *)
LEMMA TunedCalls ==
    ASSUME NEW d \in Radio, NEW r \in Receivers, NEW t \in Tgids
    PROVE  TakesCall(d, TuneVoice(d, r, t, TRUE), r, t)
<1> DEFINE s == d.sys[r]
           c == IF r \in d.idle THEN [d EXCEPT !.idle = @ \ {r}] ELSE ReleaseCC(d, s, r)
           e == TuneVoice(d, r, t, TRUE)
<1>1. c \in Radio /\ c.own = d.own /\ c.sys = d.sys /\ c.tgid = d.tgid
  <2>1. CASE r \in d.idle
    BY <2>1 DEF Radio
  <2>2. CASE r \notin d.idle
    BY <2>2 DEF ReleaseCC, Radio
  <2> QED  BY <2>1, <2>2
<1>2. e = [c EXCEPT !.tuned[r] = <<s, 0>>, !.vcr[r] = 0, !.tgid[r] = t, !.own[s][t] = r]
  BY DEF TuneVoice
<1>3. s \in Sites
  BY DEF Radio
<1> HIDE DEF c, e, s
<1>4. e.sys = d.sys /\ e.tgid = [d.tgid EXCEPT ![r] = t] /\ e.own = [d.own EXCEPT ![s][t] = r]
  BY <1>1, <1>2, <1>3 DEF Radio
<1>5. e.tgid[r] = t /\ \A q \in Receivers : q # r => e.tgid[q] = d.tgid[q]
  BY <1>4 DEF Radio
<1>6. /\ e.own[s][t] = r
      /\ \A u \in Sites, v \in Tgids : u # s \/ v # t => e.own[u][v] = d.own[u][v]
  BY <1>3, <1>4 DEF Radio
<1> QED  BY <1>4, <1>5, <1>6 DEF e, s, TakesCall

(* A call is taken only if nobody else has it.                             *)
LEMMA TuneVoiceTable ==
    ASSUME NEW d, NEW r \in Receivers, NEW t \in Tgids, NEW tunable \in BOOLEAN,
           RadioInv(d), TableAgrees(d), d.tgid[r] = NoTg,
           d.own[d.sys[r]][t] \in {NoRx, r}
    PROVE  TableAgrees(TuneVoice(d, r, t, tunable))
<1> DEFINE s == d.sys[r]
           e == TuneVoice(d, r, t, tunable)
<1>1. /\ d \in Radio /\ s \in Sites
      /\ d.own \in [Sites -> [Tgids -> Receivers \cup {NoRx}]]
      /\ d.tgid \in [Receivers -> Tgids \cup {NoTg}]
      /\ d.sys \in [Receivers -> Sites]
  BY DEF RadioInv, Radio
<1>2. CASE tunable = FALSE
  <2>1. SameCalls(d, e)
    BY <1>1, <1>2, UntunedCalls
  <2> QED  BY <2>1, TableFrame DEF SameCalls
<1>3. CASE tunable = TRUE
  <2>1. /\ e.sys = d.sys
        /\ e.tgid[r] = t
        /\ \A q \in Receivers : q # r => e.tgid[q] = d.tgid[q]
        /\ e.own[s][t] = r
        /\ \A u \in Sites, v \in Tgids : u # s \/ v # t => e.own[u][v] = d.own[u][v]
    <3>1. e = TuneVoice(d, r, t, TRUE)
      BY <1>3
    <3> HIDE DEF e
    <3>2. TakesCall(d, e, r, t)
      BY <1>1, <3>1, TunedCalls
    <3> QED  BY <3>2 DEF TakesCall
  <2> HIDE DEF e, s
  <2>2. r # NoRx /\ t # NoTg
    BY RadioAssumption
  <2>3. ASSUME NEW u \in Sites, NEW v \in Tgids, e.own[u][v] # NoRx
        PROVE  e.sys[e.own[u][v]] = u /\ e.tgid[e.own[u][v]] = v
    <3>1. CASE u = s /\ v = t
      BY <1>1, <2>1, <3>1 DEF s
    <3>2. CASE ~ (u = s /\ v = t)
      <4>1. e.own[u][v] = d.own[u][v]
        BY <1>1, <2>1, <3>2
      <4>2. d.own[u][v] \in Receivers /\ d.sys[d.own[u][v]] = u /\ d.tgid[d.own[u][v]] = v
        BY <1>1, <2>3, <4>1 DEF TableAgrees
      <4>3. d.own[u][v] # r
        BY <4>2, RadioAssumption
      <4> QED  BY <1>1, <2>1, <4>1, <4>2, <4>3
    <3> QED  BY <3>1, <3>2
  <2>4. ASSUME NEW q \in Receivers, e.tgid[q] # NoTg
        PROVE  e.own[e.sys[q]][e.tgid[q]] = q
    <3>1. CASE q = r
      BY <1>1, <2>1, <3>1 DEF s
    <3>2. CASE q # r
      <4>1. e.tgid[q] = d.tgid[q] /\ d.sys[q] \in Sites /\ d.tgid[q] \in Tgids
        BY <1>1, <2>1, <2>4, <3>2
      <4>2. d.own[d.sys[q]][d.tgid[q]] = q
        BY <4>1, <2>4 DEF TableAgrees
      <4>3. ~ (d.sys[q] = s /\ d.tgid[q] = t)
        BY <3>2, <4>2, RadioAssumption DEF s
      <4> QED  BY <1>1, <2>1, <4>1, <4>2, <4>3
    <3> QED  BY <3>1, <3>2
  <2> QED  BY <2>3, <2>4 DEF TableAgrees, e
<1> QED  BY <1>2, <1>3

-----------------------------------------------------------------------------
(* Holds.                                                                  *)

(* From w to e no receiver begins a call, and the handler in progress is   *)
(* where it was.                                                           *)
NoStart(w, e) ==
    /\ \A q \in Receivers : e.radio.tgid[q] \in {w.radio.tgid[q], NoTg}
    /\ e.hand.busy = w.hand.busy
    /\ e.hand.site = w.hand.site
    /\ e.hand.todo = w.hand.todo

(* What every command and every handled message does before the scan.      *)
Kept(w, e) == WorldInv(e) /\ NoStart(w, e)

(* Of one receiver's attributes, those of the hold are the same. *)
SameHold(a, b) == b.hold = a.hold /\ b.mode = a.mode /\ b.until = a.until

(* Only the lists differ. *)
SameHolds(w, e) ==
    /\ e \in WorldType
    /\ e.radio = w.radio
    /\ e.hand = w.hand
    /\ \A q \in Receivers : SameHold(w.ear[q], e.ear[q])

(* Only the hold of r differs. *)
Holds(w, e, r, tg, until, mode) ==
    /\ e \in WorldType
    /\ e.radio = w.radio
    /\ e.hand = w.hand
    /\ e.ear[r].hold = tg /\ e.ear[r].until = until /\ e.ear[r].mode = mode
    /\ e.ear[r].skip = w.ear[r].skip
    /\ e.ear[r].black = w.ear[r].black
    /\ e.ear[r].white = w.ear[r].white
    /\ \A q \in Receivers : q # r => e.ear[q] = w.ear[q]

(* What a world is made of. *)
LEMMA WorldParts ==
    ASSUME NEW w, w \in WorldType
    PROVE  /\ w.radio \in Radio /\ w.hand \in Handler
           /\ w.ear \in [Receivers -> Ear]
           /\ \A r \in Receivers :
                /\ w.ear[r] \in Ear
                /\ w.ear[r].hold \in Tgids \cup {NoTg} /\ w.ear[r].mode \in BOOLEAN
                /\ Current(w, r) = w.radio.tgid[r]
                /\ w.radio.tgid[r] \in Tgids \cup {NoTg}
                /\ w.radio.sys[r] \in Sites
  BY DEF WorldType, Ear, Radio, Current

(* Times that a hold can be set to. *)
LEMMA Times ==
    /\ 0 \in 0..Forever /\ HoldTime \in 0..Forever /\ Forever \in 0..Forever
    /\ SkipTime + 1 \in 0..SkipTime + 1 /\ 0 \in 0..SkipTime + 1
  BY CallAssumption DEF Forever

(* The attributes of one receiver are set, the rest is as it was. *)
LEMMA SetHoldHolds ==
    ASSUME NEW w, NEW r \in Receivers, w \in WorldType,
           NEW tg \in Tgids \cup {NoTg}, NEW until \in 0..Forever, NEW mode \in BOOLEAN
    PROVE  Holds(w, SetHold(w, r, tg, until, mode), r, tg, until, mode)
<1> DEFINE e == SetHold(w, r, tg, until, mode)
           x == [w.ear[r] EXCEPT !.hold = tg, !.until = until, !.mode = mode]
<1>1. w.ear[r] \in Ear /\ w.ear \in [Receivers -> Ear] /\ w.radio \in Radio /\ w.hand \in Handler
  BY WorldParts
<1>2. /\ x \in Ear
      /\ x.hold = tg /\ x.until = until /\ x.mode = mode
      /\ x.skip = w.ear[r].skip /\ x.black = w.ear[r].black /\ x.white = w.ear[r].white
  BY <1>1 DEF Ear
<1>3. e = [w EXCEPT !.ear = [w.ear EXCEPT ![r] = x]]
  BY <1>1 DEF SetHold, WorldType, Ear
<1> HIDE DEF e, x
<1>4. e.ear = [w.ear EXCEPT ![r] = x] /\ e.radio = w.radio /\ e.hand = w.hand /\ e \in WorldType
  BY <1>1, <1>2, <1>3 DEF WorldType
<1> QED  BY <1>1, <1>2, <1>4 DEF Holds, e

(* One after the other. *)
LEMMA KeptTwice ==
    ASSUME NEW v, NEW w, NEW e, Kept(v, w), Kept(w, e)
    PROVE  Kept(v, e)
  BY DEF Kept, NoStart

(* Nothing done is nothing broken. *)
LEMMA KeptSame ==
    ASSUME NEW w, WorldInv(w)
    PROVE  Kept(w, w)
  BY DEF Kept, NoStart

(* The core of the invariant is about the tuning and the handler. *)
LEMMA CoreFrame ==
    ASSUME NEW w, NEW e, Core(w), e \in WorldType, e.radio = w.radio, e.hand = w.hand
    PROVE  Core(e)
  BY DEF Core, HandFits

(* Changing a list breaks nothing. *)
LEMMA SameHoldsKept ==
    ASSUME NEW w, NEW e, WorldInv(w), SameHolds(w, e)
    PROVE  Kept(w, e)
<1>1. Core(w) /\ e \in WorldType /\ e.radio = w.radio /\ e.hand = w.hand
  BY DEF WorldInv, SameHolds
<1>2. Core(e)
  BY <1>1, CoreFrame
<1>3. \A q \in Receivers : HoldFits(e, q)
  BY <1>1 DEF WorldInv, SameHolds, SameHold, HoldFits
<1>4. NoStart(w, e)
  BY <1>1 DEF NoStart
<1> QED  BY <1>2, <1>3, <1>4 DEF WorldInv, Kept

(* A receiver may always forget what it holds. *)
LEMMA ClearHoldKept ==
    ASSUME NEW w, WorldInv(w), NEW r \in Receivers
    PROVE  /\ Kept(w, ClearHold(w, r))
           /\ Holds(w, ClearHold(w, r), r, NoTg, 0, FALSE)
<1> DEFINE e == ClearHold(w, r)
<1>1. Core(w) /\ w \in WorldType
  BY DEF WorldInv, Core
<1>2. Holds(w, e, r, NoTg, 0, FALSE)
  BY <1>1, Times, SetHoldHolds DEF ClearHold
<1> HIDE DEF e
<1>3. e \in WorldType /\ e.radio = w.radio /\ e.hand = w.hand
  BY <1>2 DEF Holds
<1>4. Core(e)
  BY <1>1, <1>3, CoreFrame
<1>5. ASSUME NEW q \in Receivers
      PROVE  HoldFits(e, q)
  <2>1. CASE q = r
    BY <1>2, <2>1 DEF Holds, HoldFits
  <2>2. CASE q # r
    BY <1>2, <1>3, <2>2 DEF Holds, HoldFits, WorldInv
  <2> QED  BY <2>1, <2>2
<1>6. NoStart(w, e)
  BY <1>3 DEF NoStart
<1> QED  BY <1>2, <1>4, <1>5, <1>6 DEF WorldInv, Kept, e

(* A call is over, its receiver not yet idle: what r now holds was the     *)
(* call, or nothing, or what it held by hand.                              *)
Ended(w, e, r) ==
    /\ e \in WorldType
    /\ e.radio = DropCall(w.radio, r)
    /\ e.hand.busy = w.hand.busy /\ e.hand.site = w.hand.site /\ e.hand.todo = w.hand.todo
    /\ \A q \in Receivers : q # r => e.ear[q] = w.ear[q]
    /\ e.ear[r].mode = w.ear[r].mode
    /\ w.ear[r].mode = TRUE =>
         e.ear[r].hold = w.ear[r].hold /\ e.ear[r].until = w.ear[r].until

(* The first half of expire_talkgroup(). *)
LEMMA EndCallEnds ==
    ASSUME NEW w, NEW r \in Receivers, NEW autoHold \in BOOLEAN,
           w \in WorldType, RadioInv(w.radio), w.radio.tgid[r] # NoTg
    PROVE  Ended(w, EndCall(w, r, autoHold), r)
<1> DEFINE tg == Current(w, r)
           d == DropCall(w.radio, r)
           h == [w.hand EXCEPT !.placed = w.hand.placed \ {tg}]
           f == [w EXCEPT !.radio = DropCall(@, r), !.hand.placed = @ \ {tg}]
           e == EndCall(w, r, autoHold)
<1>1. /\ w.radio \in Radio /\ w.hand \in Handler /\ w.ear \in [Receivers -> Ear]
      /\ w.ear[r].mode \in BOOLEAN /\ tg \in Tgids \cup {NoTg}
  BY WorldParts
<1>2. d \in Radio
  BY DropCallInv DEF RadioInv
<1>3. /\ h \in Handler
      /\ h.busy = w.hand.busy /\ h.site = w.hand.site /\ h.todo = w.hand.todo
  BY <1>1 DEF Handler
<1> HIDE DEF d, tg
<1>4. f = [w EXCEPT !.radio = d, !.hand = h]
  BY <1>1 DEF WorldType, d
<1> HIDE DEF f, h
<1>5. f \in WorldType /\ f.radio = d /\ f.hand = h /\ f.ear = w.ear
  BY <1>1, <1>2, <1>3, <1>4 DEF WorldType
<1>6. CASE w.ear[r].mode = TRUE
  <2>1. e = f
    BY <1>6 DEF EndCall, f, tg
  <2> QED  BY <1>3, <1>5, <2>1 DEF Ended, d
<1>7. CASE w.ear[r].mode = FALSE
  <2>1. PICK x \in Tgids \cup {NoTg}, u \in 0..Forever : e = SetHold(f, r, x, u, FALSE)
    <3>1. CASE autoHold = TRUE
      <4>1. e = SetHold(f, r, tg, HoldTime, FALSE)
        BY <1>7, <3>1 DEF EndCall, f, tg
      <4> QED  BY <1>1, <4>1, Times
    <3>2. CASE autoHold = FALSE
      <4>1. e = SetHold(f, r, NoTg, 0, FALSE)
        BY <1>7, <3>2 DEF EndCall, ClearHold, f, tg
      <4> QED  BY <4>1, Times
    <3> QED  BY <3>1, <3>2
  <2> HIDE DEF e
  <2>2. Holds(f, e, r, x, u, FALSE)
    BY <1>5, <2>1, SetHoldHolds
  <2>3. /\ e \in WorldType /\ e.radio = d /\ e.hand = h
        /\ e.ear[r].mode = FALSE
        /\ \A q \in Receivers : q # r => e.ear[q] = w.ear[q]
    BY <1>5, <2>2 DEF Holds
  <2> QED  BY <1>3, <1>7, <2>3 DEF Ended, d, e
<1> QED  BY <1>1, <1>6, <1>7

(* The end of a call leaves the tuning sound: the table, the binding and   *)
(* the calls of the others.                                                *)
LEMMA EndedCore ==
    ASSUME NEW w, NEW e, NEW r \in Receivers, Core(w), w.radio.tgid[r] # NoTg, Ended(w, e, r)
    PROVE  /\ Core(e)
           /\ e.radio.tgid = [w.radio.tgid EXCEPT ![r] = NoTg]
           /\ e.radio.idle = w.radio.idle
           /\ NoClaims(e.radio, r)
<1> DEFINE d == w.radio
           f == e.radio
<1>1. RadioInv(d) /\ d.sys = HomeOf /\ (TableKept => TableAgrees(d)) /\ HandFits(w)
  BY DEF Core
<1>2. e \in WorldType /\ f = DropCall(d, r)
  BY DEF Ended
<1>3. d.tgid[r] # NoTg
  OBVIOUS
<1> HIDE DEF d, f
<1>4. /\ RadioInv(f) /\ f.sys = d.sys /\ f.idle = d.idle
      /\ f.tgid = [d.tgid EXCEPT ![r] = NoTg] /\ NoClaims(f, r)
  BY <1>1, <1>2, <1>3, DropCallInv
<1>5. TableKept => TableAgrees(f)
  BY <1>1, <1>2, <1>3, DropCallTable
<1>6. HandFits(e)
  BY <1>1 DEF HandFits, Ended
<1> QED  BY <1>1, <1>2, <1>4, <1>5, <1>6 DEF Core, d, f

(* The receiver is idle, in no call and keeps a manual hold. *)
LEMMA ReleaseKept ==
    ASSUME NEW w, NEW r \in Receivers, NEW autoHold \in BOOLEAN,
           Core(w),
           w.ear[r].mode => w.ear[r].hold # NoTg /\ w.ear[r].until = Forever,
           \A q \in Receivers : q # r => HoldFits(w, q)
    PROVE  /\ Kept(w, Release(w, r, autoHold))
           /\ Release(w, r, autoHold).radio.tgid[r] = NoTg
<1> DEFINE x == EndCall(w, r, autoHold)
           e == Release(w, r, autoHold)
<1>0. w \in WorldType /\ RadioInv(w.radio) /\ Current(w, r) = w.radio.tgid[r]
  BY DEF Core, Current
<1>1. CASE w.radio.tgid[r] = NoTg
  <2>1. e = w
    BY <1>0, <1>1 DEF Release
  <2>2. HoldFits(w, r)
    BY <1>1 DEF HoldFits
  <2>3. WorldInv(w)
    BY <2>2 DEF WorldInv
  <2> HIDE DEF e
  <2> QED  BY <1>1, <2>1, <2>3, KeptSame DEF e
<1>2. CASE w.radio.tgid[r] # NoTg
  <2>1. Ended(w, x, r)
    BY <1>0, <1>2, EndCallEnds
  <2>2. e = [x EXCEPT !.radio = IdleRx(@, r)]
    BY <1>0, <1>2 DEF Release
  <2> HIDE DEF x, e
  <2>3. /\ Core(x) /\ x.radio.tgid = [w.radio.tgid EXCEPT ![r] = NoTg]
        /\ NoClaims(x.radio, r)
    BY <1>2, <2>1, EndedCore
  <2> DEFINE i == IdleRx(x.radio, r)
  <2>4. /\ x \in WorldType /\ RadioInv(x.radio) /\ x.radio.sys = HomeOf
        /\ (TableKept => TableAgrees(x.radio)) /\ HandFits(x)
    BY <2>3 DEF Core
  <2>5. x.radio.tgid[r] = NoTg /\ x.radio.sys[r] = HomeOf[r] /\ x.radio \in Radio
    BY <1>0, <2>3, <2>4, WorldParts DEF RadioInv, Radio
  <2>6. InvExcept(x.radio, r)
    BY <2>4, SplitInv
  <2>7. RadioInv(i) /\ SameCalls(x.radio, i)
    BY <2>3, <2>5, <2>6, IdleRxInv, SameCallsOps
  <2> HIDE DEF i
  <2>8. /\ e.radio = i /\ e.ear = x.ear /\ e.hand = x.hand /\ e \in WorldType
    <3>1. e = [x EXCEPT !.radio = i]
      BY <2>2 DEF i
    <3>2. i \in Radio
      BY <2>7 DEF RadioInv
    <3> QED  BY <2>4, <3>1, <3>2 DEF WorldType
  <2>9. Core(e)
    <3>1. TableKept => TableAgrees(i)
      BY <2>4, <2>7, TableFrame DEF SameCalls
    <3> QED  BY <2>4, <2>7, <2>8, <3>1 DEF Core, HandFits, SameCalls
  <2>10. ASSUME NEW q \in Receivers
         PROVE  e.radio.tgid[q] = IF q = r THEN NoTg ELSE w.radio.tgid[q]
    BY <1>0, <2>3, <2>7, <2>8 DEF SameCalls, RadioInv, Radio
  <2>11. ASSUME NEW q \in Receivers
         PROVE  HoldFits(e, q)
    <3>1. CASE q = r
      <4>1. w.ear[r].mode \in BOOLEAN
        BY <1>0, WorldParts
      <4> QED  BY <2>1, <2>8, <2>10, <3>1, <4>1 DEF HoldFits, Ended
    <3>2. CASE q # r
      BY <2>1, <2>8, <2>10, <3>2 DEF HoldFits, Ended
    <3> QED  BY <3>1, <3>2
  <2>12. NoStart(w, e)
    BY <2>1, <2>8, <2>10 DEF NoStart, Ended
  <2> QED  BY <2>9, <2>10, <2>11, <2>12 DEF Kept, WorldInv, e
<1> QED  BY <1>1, <1>2

(* The same where nothing is amiss. *)
LEMMA ReleaseInv ==
    ASSUME NEW w, NEW r \in Receivers, NEW autoHold \in BOOLEAN, WorldInv(w)
    PROVE  /\ Kept(w, Release(w, r, autoHold))
           /\ Release(w, r, autoHold).radio.tgid[r] = NoTg
<1>1. /\ Core(w) /\ \A q \in Receivers : HoldFits(w, q)
      /\ w.ear[r].mode => w.ear[r].hold # NoTg /\ w.ear[r].until = Forever
  BY DEF WorldInv, HoldFits
<1> QED  BY <1>1, ReleaseKept

-----------------------------------------------------------------------------
(* Lists.                                                                  *)

(* One receiver's attributes other than its hold change. *)
LEMMA EarSameHolds ==
    ASSUME NEW w, w \in WorldType, NEW f \in [Receivers -> Ear],
           \A q \in Receivers : SameHold(w.ear[q], f[q])
    PROVE  SameHolds(w, [w EXCEPT !.ear = f])
<1> DEFINE e == [w EXCEPT !.ear = f]
<1>1. e \in WorldType /\ e.radio = w.radio /\ e.hand = w.hand /\ e.ear = f
  BY DEF WorldType
<1> HIDE DEF e
<1> QED  BY <1>1 DEF SameHolds, e

(* Listing a talkgroup to be skipped. *)
LEMMA SkipSameHolds ==
    ASSUME NEW w, w \in WorldType, NEW r \in Receivers, NEW t \in Tgids
    PROVE  SameHolds(w, [w EXCEPT !.ear[r].skip[t] = SkipTime + 1])
<1> DEFINE x == [w.ear[r] EXCEPT !.skip = [w.ear[r].skip EXCEPT ![t] = SkipTime + 1]]
           f == [w.ear EXCEPT ![r] = x]
<1>1. w.ear[r] \in Ear /\ w.ear \in [Receivers -> Ear]
  BY WorldParts
<1>2. x \in Ear /\ SameHold(w.ear[r], x)
  BY <1>1, Times DEF Ear, SameHold
<1>3. [w EXCEPT !.ear[r].skip[t] = SkipTime + 1] = [w EXCEPT !.ear = f]
  BY <1>1 DEF WorldType, Ear
<1> HIDE DEF x
<1>4. f \in [Receivers -> Ear]
      /\ \A q \in Receivers : SameHold(w.ear[q], f[q])
  BY <1>1, <1>2 DEF SameHold
<1> HIDE DEF f
<1> QED  BY <1>3, <1>4, EarSameHolds

(* The black list of a receiver, or of all that share it. *)
LEMMA BlackSameHolds ==
    ASSUME NEW w, w \in WorldType, NEW r \in Receivers, NEW tgs \in SUBSET Tgids
    PROVE  SameHolds(w, SetBlack(w, r, tgs))
<1> DEFINE x(q) == [w.ear[q] EXCEPT !.black = tgs]
           f == [q \in Receivers |->
                   IF q = r \/ (Database /\ w.radio.sys[q] = w.radio.sys[r])
                   THEN x(q) ELSE w.ear[q]]
<1>1. \A q \in Receivers : w.ear[q] \in Ear
  BY WorldParts
<1>2. \A q \in Receivers : x(q) \in Ear /\ SameHold(w.ear[q], x(q))
  BY <1>1 DEF Ear, SameHold
<1>3. SetBlack(w, r, tgs) = [w EXCEPT !.ear = f]
  BY DEF SetBlack
<1> HIDE DEF x
<1>4. f \in [Receivers -> Ear]
      /\ \A q \in Receivers : SameHold(w.ear[q], f[q])
  BY <1>1, <1>2 DEF SameHold
<1> HIDE DEF f
<1> QED  BY <1>3, <1>4, EarSameHolds

(* The white list of a receiver, or of all that share it. *)
LEMMA WhiteSameHolds ==
    ASSUME NEW w, w \in WorldType, NEW r \in Receivers, NEW tgs \in SUBSET Tgids
    PROVE  SameHolds(w, SetWhite(w, r, tgs))
<1> DEFINE Shares(q) == /\ w.radio.sys[q] = w.radio.sys[r]
                        /\ ~ w.ear[q].private /\ ~ w.ear[r].private
           x(q) == [w.ear[q] EXCEPT !.white = tgs]
           f == [q \in Receivers |-> IF q = r \/ Shares(q) THEN x(q) ELSE w.ear[q]]
           v == [w EXCEPT !.ear = f]
           p == v.ear[r].private \/ tgs = {}
           y == [f[r] EXCEPT !.private = p]
           g == [f EXCEPT ![r] = y]
<1>1. \A q \in Receivers : w.ear[q] \in Ear
  BY WorldParts
<1>2. \A q \in Receivers : x(q) \in Ear /\ SameHold(w.ear[q], x(q))
  BY <1>1 DEF Ear, SameHold
<1>3. SetWhite(w, r, tgs) = [v EXCEPT !.ear[r].private = p]
  BY DEF SetWhite
<1> HIDE DEF x, Shares, p
<1>4. f \in [Receivers -> Ear]
      /\ \A q \in Receivers : SameHold(w.ear[q], f[q])
  BY <1>1, <1>2 DEF SameHold
<1>5. p \in BOOLEAN
  BY DEF p
<1> HIDE DEF f
<1>6. y \in Ear /\ SameHold(f[r], y)
  BY <1>4, <1>5 DEF Ear, SameHold
<1>7. v \in WorldType /\ v.ear = f
  BY <1>4 DEF WorldType
<1>8. [v EXCEPT !.ear[r].private = p] = [w EXCEPT !.ear = g]
  BY <1>4, <1>7 DEF WorldType, Ear
<1> HIDE DEF y, v
<1>9. g \in [Receivers -> Ear]
      /\ \A q \in Receivers : SameHold(w.ear[q], g[q])
  BY <1>4, <1>6 DEF SameHold
<1> HIDE DEF g
<1> QED  BY <1>3, <1>8, <1>9, EarSameHolds

(* The configured lists leave the hold alone. *)
LEMMA LoadListsEar ==
    ASSUME NEW x \in Ear
    PROVE  LoadLists(x) \in Ear /\ SameHold(x, LoadLists(x))
<1>1. (~ Database \/ FileWhite = {}) \in BOOLEAN
  OBVIOUS
<1> QED  BY <1>1, CallAssumption DEF LoadLists, Ear, SameHold

-----------------------------------------------------------------------------
(* The commands of the UI thread.                                          *)

(* What follows a change of the lists that turns the call away. *)
LEMMA DismissKept ==
    ASSUME NEW w, NEW r \in Receivers, WorldInv(w)
    PROVE  Kept(w, ClearHold(Release(w, r, TRUE), r))
<1> DEFINE v == Release(w, r, TRUE)
<1>1. Kept(w, v)
  BY ReleaseInv
<1> HIDE DEF v
<1>2. Kept(v, ClearHold(v, r))
  BY <1>1, ClearHoldKept DEF Kept
<1> QED  BY <1>1, <1>2, KeptTwice DEF v

(* add_skiplist(). *)
LEMMA AddSkipKept ==
    ASSUME NEW w, NEW r \in Receivers, NEW t \in Tgids, WorldInv(w)
    PROVE  Kept(w, AddSkip(w, r, t))
<1> DEFINE v == [w EXCEPT !.ear[r].skip[t] = SkipTime + 1]
           e == AddSkip(w, r, t)
<1>1. w \in WorldType
  BY DEF WorldInv, Core
<1>2. Kept(w, v)
  BY <1>1, SkipSameHolds, SameHoldsKept
<1>3. e = w \/ e = v \/ e = ClearHold(Release(v, r, TRUE), r)
  BY DEF AddSkip
<1> HIDE DEF v, e
<1>4. Kept(v, ClearHold(Release(v, r, TRUE), r))
  BY <1>2, DismissKept DEF Kept
<1>5. Kept(w, w) /\ Kept(w, ClearHold(Release(v, r, TRUE), r))
  BY <1>2, <1>4, KeptSame, KeptTwice
<1> QED  BY <1>2, <1>3, <1>5 DEF e

(* add_blacklist(): afterwards no hold_mode, and no call if it was locked  *)
(* out.                                                                    *)
LEMMA AddBlackKept ==
    ASSUME NEW w, NEW r \in Receivers, NEW t \in Tgids, WorldInv(w)
    PROVE  Kept(w, AddBlack(w, r, t))
<1> DEFINE a == IF t \in w.ear[r].white THEN SetWhite(w, r, w.ear[r].white \ {t}) ELSE w
           b == SetBlack(a, r, w.ear[r].black \cup {t})
           c == Release(b, r, FALSE)
           d == [c EXCEPT !.ear[r].mode = FALSE]
           e == AddBlack(w, r, t)
<1>1. /\ w \in WorldType /\ w.ear[r] \in Ear
      /\ w.ear[r].white \ {t} \in SUBSET Tgids /\ w.ear[r].black \cup {t} \in SUBSET Tgids
  BY WorldParts DEF WorldInv, Core, Ear
<1>2. Kept(w, a)
  <2>1. Kept(w, SetWhite(w, r, w.ear[r].white \ {t}))
    BY <1>1, WhiteSameHolds, SameHoldsKept
  <2> QED  BY <2>1, KeptSame
<1>3. e = w \/ e = b \/ e = d
  BY DEF AddBlack
<1> HIDE DEF a, e
<1>4. Kept(w, b)
  <2>1. WorldInv(a) /\ a \in WorldType
    BY <1>2 DEF Kept, WorldInv, Core
  <2>2. Kept(a, b)
    BY <1>1, <2>1, BlackSameHolds, SameHoldsKept
  <2> QED  BY <1>2, <2>2, KeptTwice
<1> HIDE DEF b
<1>5. Kept(b, c) /\ c.radio.tgid[r] = NoTg
  BY <1>4, ReleaseInv DEF Kept
<1> HIDE DEF c
<1>6. Kept(c, d)
  <2>1. WorldInv(c) /\ Core(c) /\ c \in WorldType /\ c.ear[r] \in Ear /\ c.ear \in [Receivers -> Ear]
    BY <1>5, WorldParts DEF Kept, WorldInv, Core
  <2> DEFINE x == [c.ear[r] EXCEPT !.mode = FALSE]
  <2>2. x \in Ear /\ x.mode = FALSE
    BY <2>1 DEF Ear
  <2>3. d = [c EXCEPT !.ear = [c.ear EXCEPT ![r] = x]]
    BY <2>1 DEF WorldType, Ear
  <2> HIDE DEF x, d
  <2>4. /\ d \in WorldType /\ d.radio = c.radio /\ d.hand = c.hand
        /\ d.ear = [c.ear EXCEPT ![r] = x]
    BY <2>1, <2>2, <2>3 DEF WorldType
  <2>5. Core(d)
    BY <2>1, <2>4, CoreFrame
  <2>6. d.ear[r] = x /\ \A q \in Receivers : q # r => d.ear[q] = c.ear[q]
    BY <2>1, <2>4
  <2>7. ASSUME NEW q \in Receivers
        PROVE  HoldFits(d, q)
    <3>1. CASE q = r
      BY <1>5, <2>2, <2>4, <2>6, <3>1 DEF HoldFits
    <3>2. CASE q # r
      BY <2>1, <2>4, <2>6, <3>2 DEF HoldFits, WorldInv
    <3> QED  BY <3>1, <3>2
  <2>8. NoStart(c, d)
    BY <2>4 DEF NoStart
  <2> QED  BY <2>5, <2>7, <2>8 DEF Kept, WorldInv
<1> HIDE DEF d
<1>7. Kept(w, d)
  <2>1. Kept(w, c)
    BY <1>4, <1>5, KeptTwice
  <2> QED  BY <2>1, <1>6, KeptTwice
<1> QED  BY <1>3, <1>4, <1>7, KeptSame DEF e

(* add_whitelist(). *)
LEMMA AddWhiteKept ==
    ASSUME NEW w, NEW r \in Receivers, NEW t \in Tgids, WorldInv(w)
    PROVE  Kept(w, AddWhite(w, r, t))
<1> DEFINE a == SetBlack(w, r, w.ear[r].black \ {t})
           b == SetWhite(a, r, w.ear[r].white \cup {t})
           e == AddWhite(w, r, t)
<1>1. /\ w \in WorldType /\ w.ear[r] \in Ear
      /\ w.ear[r].black \ {t} \in SUBSET Tgids /\ w.ear[r].white \cup {t} \in SUBSET Tgids
  BY WorldParts DEF WorldInv, Core, Ear
<1>2. Kept(w, a)
  BY <1>1, BlackSameHolds, SameHoldsKept
<1>3. e = b \/ e = ClearHold(Release(b, r, TRUE), r)
  BY DEF AddWhite
<1> HIDE DEF a, e
<1>4. Kept(a, b)
  <2>1. WorldInv(a) /\ a \in WorldType
    BY <1>2 DEF Kept, WorldInv, Core
  <2> QED  BY <1>1, <2>1, WhiteSameHolds, SameHoldsKept
<1> HIDE DEF b
<1>5. Kept(w, b)
  BY <1>2, <1>4, KeptTwice
<1>6. Kept(b, ClearHold(Release(b, r, TRUE), r))
  BY <1>4, DismissKept DEF Kept
<1>7. Kept(w, ClearHold(Release(b, r, TRUE), r))
  BY <1>5, <1>6, KeptTwice
<1> QED  BY <1>3, <1>5, <1>7 DEF e

(* hold_talkgroup(): the hold first, then the end of another call. *)
LEMMA HoldTalkgroupKept ==
    ASSUME NEW w, NEW r \in Receivers, NEW t \in Tgids, WorldInv(w)
    PROVE  Kept(w, HoldTalkgroup(w, r, t))
<1> DEFINE h == SetHold(w, r, t, Forever, TRUE)
           e == HoldTalkgroup(w, r, t)
<1>1. Core(w) /\ w \in WorldType /\ Current(w, r) = w.radio.tgid[r] /\ t # NoTg
  BY RadioAssumption DEF WorldInv, Core, Current
<1>2. Holds(w, h, r, t, Forever, TRUE)
  BY <1>1, Times, SetHoldHolds
<1>3. CASE w.radio.tgid[r] = t
  <2>1. e = h
    BY <1>1, <1>3 DEF HoldTalkgroup
  <2> HIDE DEF e, h
  <2>2. Core(h) /\ h.radio = w.radio /\ h.hand = w.hand
    BY <1>1, <1>2, CoreFrame DEF Holds
  <2>3. ASSUME NEW q \in Receivers
        PROVE  HoldFits(h, q)
    <3>1. CASE q = r
      BY <1>1, <1>2, <1>3, <2>2, <3>1 DEF Holds, HoldFits
    <3>2. CASE q # r
      BY <1>2, <2>2, <3>2 DEF Holds, HoldFits, WorldInv
    <3> QED  BY <3>1, <3>2
  <2>4. NoStart(w, h)
    BY <2>2 DEF NoStart
  <2> QED  BY <2>1, <2>2, <2>3, <2>4 DEF Kept, WorldInv, e
<1>4. CASE w.radio.tgid[r] # t
  <2>1. e = Release(h, r, FALSE)
    BY <1>1, <1>4 DEF HoldTalkgroup
  <2> HIDE DEF e, h
  <2>2. /\ Core(h) /\ h.radio = w.radio /\ h.hand = w.hand
        /\ h.ear[r].hold # NoTg /\ h.ear[r].until = Forever
    BY <1>1, <1>2, CoreFrame DEF Holds
  <2>3. \A q \in Receivers : q # r => HoldFits(h, q)
    BY <1>2, <2>2 DEF Holds, HoldFits, WorldInv
  <2>4. Kept(h, Release(h, r, FALSE))
    BY <2>2, <2>3, ReleaseKept
  <2>5. WorldInv(e) /\ NoStart(w, e)
    BY <2>1, <2>2, <2>4 DEF Kept, NoStart
  <2> QED  BY <2>5 DEF Kept, e
<1> QED  BY <1>3, <1>4

(* toggle_hold(). *)
LEMMA ToggleHoldKept ==
    ASSUME NEW w, NEW r \in Receivers, WorldInv(w)
    PROVE  Kept(w, ToggleHold(w, r))
<1> DEFINE e == ToggleHold(w, r)
<1>1. /\ Core(w) /\ w \in WorldType /\ Current(w, r) = w.radio.tgid[r]
      /\ w.ear[r].mode \in BOOLEAN /\ w.radio.tgid[r] \in Tgids \cup {NoTg}
  BY WorldParts DEF WorldInv, Core, Current
<1>2. CASE w.ear[r].mode = TRUE
  <2> DEFINE v == ClearHold(w, r)
  <2>1. e = Release(v, r, FALSE)
    BY <1>2 DEF ToggleHold
  <2>2. Kept(w, v)
    BY ClearHoldKept
  <2> HIDE DEF v, e
  <2>3. Kept(v, Release(v, r, FALSE))
    BY <2>2, ReleaseInv DEF Kept
  <2>4. Kept(w, e)
    BY <2>1, <2>2, <2>3, KeptTwice
  <2> QED  BY <2>4 DEF e
<1>3. CASE w.ear[r].mode = FALSE /\ w.radio.tgid[r] # NoTg
  <2> DEFINE t == w.radio.tgid[r]
  <2>1. e = SetHold(w, r, t, Forever, TRUE)
    BY <1>1, <1>3 DEF ToggleHold
  <2>2. e = HoldTalkgroup(w, r, t)
    BY <1>1, <2>1 DEF HoldTalkgroup
  <2>3. t \in Tgids
    BY <1>1, <1>3
  <2> HIDE DEF e, t
  <2>4. Kept(w, e)
    BY <2>2, <2>3, HoldTalkgroupKept
  <2> QED  BY <2>4 DEF e
<1>4. CASE w.ear[r].mode = FALSE /\ w.radio.tgid[r] = NoTg
  <2>1. e = w
    BY <1>1, <1>4 DEF ToggleHold
  <2> HIDE DEF e
  <2> QED  BY <2>1, KeptSame DEF e
<1> QED  BY <1>1, <1>2, <1>3, <1>4

(* The talkgroup table of a site is built anew: bookings are forgotten,    *)
(* calls are not, so the two may disagree from here on.                    *)
LEMMA ReloadKept ==
    ASSUME NEW w, NEW r \in Receivers, WorldInv(w), "reload" \in Commands
    PROVE  Kept(w, Reload(w, r))
<1> DEFINE e == Reload(w, r)
<1>1. /\ Core(w) /\ w \in WorldType /\ RadioInv(w.radio) /\ w.radio.sys = HomeOf
      /\ w.radio \in Radio /\ w.hand \in Handler /\ w.ear \in [Receivers -> Ear]
      /\ w.radio.sys[r] \in Sites
  BY WorldParts DEF WorldInv, Core
<1>2. CASE ~ Database
  <2> DEFINE f == [w.ear EXCEPT ![r] = LoadLists(w.ear[r])]
  <2>1. e = [w EXCEPT !.ear = f]
    BY <1>1, <1>2 DEF Reload, WorldType
  <2>2. f \in [Receivers -> Ear]
        /\ \A q \in Receivers : SameHold(w.ear[q], f[q])
    BY <1>1, LoadListsEar DEF SameHold
  <2> HIDE DEF f
  <2>3. Kept(w, [w EXCEPT !.ear = f])
    BY <1>1, <2>2, EarSameHolds, SameHoldsKept
  <2> QED  BY <2>1, <2>3
<1>3. CASE Database
  <2> DEFINE s == w.radio.sys[r]
             x(q) == LoadLists(w.ear[q])
             f == [q \in Receivers |-> IF HomeOf[q] = s THEN x(q) ELSE w.ear[q]]
             d == [w.radio EXCEPT !.own = [w.radio.own EXCEPT ![s] = [t \in Tgids |-> NoRx]]]
             a == IF w.hand.site = s THEN {} ELSE w.hand.stamped
             b == IF w.hand.site = s THEN {} ELSE w.hand.placed
             h == [w.hand EXCEPT !.stamped = a, !.placed = b]
  <2>1. e = [w EXCEPT !.radio = d, !.ear = f, !.hand = h]
    BY <1>1, <1>3 DEF Reload, WorldType, Radio, Handler
  <2>2. \A q \in Receivers : x(q) \in Ear /\ SameHold(w.ear[q], x(q))
    BY <1>1, LoadListsEar
  <2>3. a \in SUBSET Tgids /\ b \in SUBSET Tgids
    BY <1>1 DEF Handler
  <2> HIDE DEF x, a, b
  <2>4. f \in [Receivers -> Ear]
        /\ \A q \in Receivers : SameHold(w.ear[q], f[q])
    BY <1>1, <2>2 DEF SameHold
  <2>5. /\ h \in Handler
        /\ h.busy = w.hand.busy /\ h.site = w.hand.site /\ h.todo = w.hand.todo
    BY <1>1, <2>3 DEF Handler
  <2>6. /\ d \in Radio
        /\ d.cc = w.radio.cc /\ d.idx = w.radio.idx /\ d.sys = w.radio.sys
        /\ d.idle = w.radio.idle /\ d.tuned = w.radio.tuned /\ d.tgid = w.radio.tgid
    BY <1>1 DEF Radio
  <2> HIDE DEF f, h, d, s, e
  <2>7. e \in WorldType /\ e.radio = d /\ e.ear = f /\ e.hand = h
    BY <1>1, <2>1, <2>4, <2>5, <2>6 DEF WorldType
  <2>8. RadioInv(d)
    BY <1>1, <2>6 DEF RadioInv, CCIndexInRange, ClaimsListen, BoundWhereListed
  <2>9. ~ TableKept
    BY <1>3 DEF TableKept
  <2>10. HandFits(e)
    BY <1>1, <2>5, <2>7 DEF Core, HandFits
  <2>11. Core(e)
    BY <1>1, <2>6, <2>7, <2>8, <2>9, <2>10 DEF Core
  <2>12. \A q \in Receivers : HoldFits(e, q)
    BY <2>4, <2>6, <2>7 DEF WorldInv, HoldFits, SameHold
  <2>13. NoStart(w, e)
    BY <2>5, <2>6, <2>7 DEF NoStart
  <2> QED  BY <2>11, <2>12, <2>13 DEF Kept, WorldInv, e
<1> QED  BY <1>2, <1>3

(* Whatever the UI asks for. *)
LEMMA CommandedKept ==
    ASSUME NEW w, NEW r \in Receivers, WorldInv(w), NEW e \in Commanded(w, r)
    PROVE  Kept(w, e)
<1>1. w.radio.tgid[r] \in Tgids \cup {NoTg} /\ Current(w, r) = w.radio.tgid[r]
  BY WorldParts DEF WorldInv, Core, Current
<1>2. \/ e = ToggleHold(w, r)
      \/ \E t \in Tgids : e = HoldTalkgroup(w, r, t)
      \/ Current(w, r) # NoTg /\ e = AddSkip(w, r, Current(w, r))
      \/ \E t \in Tgids : e = AddBlack(w, r, t)
      \/ \E t \in Tgids : e = AddWhite(w, r, t)
      \/ "reload" \in Commands /\ e = Reload(w, r)
  BY DEF Commanded
<1> QED  BY <1>1, <1>2, ToggleHoldKept, HoldTalkgroupKept, AddSkipKept, AddBlackKept,
            AddWhiteKept, ReloadKept

-----------------------------------------------------------------------------
(* The scan: what a receiver that looks for a call finds.                  *)

(* check_expired_hold(): a hold whose time is over is dropped, nothing     *)
(* else.                                                                   *)
Unheld(w, v, r) ==
    /\ Kept(w, v)
    /\ v.radio = w.radio
    /\ v.hand = w.hand
    /\ v.ear[r].skip = w.ear[r].skip
    /\ v.ear[r].black = w.ear[r].black
    /\ v.ear[r].white = w.ear[r].white
    /\ \A q \in Receivers : q # r => v.ear[q] = w.ear[q]
    /\ \/ SameHold(w.ear[r], v.ear[r])
       \/ v.ear[r].hold = NoTg /\ v.ear[r].mode = FALSE /\ w.ear[r].until = 0

(* Only a hold in the clear is touched. *)
LEMMA CheckExpiredHoldUnheld ==
    ASSUME NEW w, NEW r \in Receivers, WorldInv(w)
    PROVE  Unheld(w, CheckExpiredHold(w, r), r)
<1> DEFINE v == CheckExpiredHold(w, r)
<1>1. CASE w.ear[r].hold # NoTg /\ w.ear[r].until = 0
  <2>1. v = ClearHold(w, r)
    BY <1>1 DEF CheckExpiredHold
  <2> HIDE DEF v
  <2>2. Kept(w, v) /\ Holds(w, v, r, NoTg, 0, FALSE)
    BY <2>1, ClearHoldKept
  <2>3. Unheld(w, v, r)
    BY <1>1, <2>2 DEF Unheld, Holds
  <2> QED  BY <2>3 DEF v
<1>2. CASE ~ (w.ear[r].hold # NoTg /\ w.ear[r].until = 0)
  <2>1. v = w
    BY <1>2 DEF CheckExpiredHold
  <2>2. Unheld(w, w, r)
    BY KeptSame DEF Unheld, SameHold
  <2> QED  BY <2>1, <2>2
<1> QED  BY <1>1, <1>2

(* The skip list without the entries whose time is over. *)
PurgedSkip(x) == [t \in Tgids |-> IF x.skip[t] = 1 THEN 0 ELSE x.skip[t]]

(* What scan_for_talkgroups() makes of the receiver before it looks for a  *)
(* talkgroup.                                                              *)
Prepared(w, v, r) ==
    /\ Kept(w, v)
    /\ v.radio = w.radio
    /\ v.hand = w.hand
    /\ v.ear[r].skip = PurgedSkip(w.ear[r])
    /\ v.ear[r].black = w.ear[r].black
    /\ v.ear[r].white = w.ear[r].white
    /\ \/ SameHold(w.ear[r], v.ear[r])
       \/ v.ear[r].hold = NoTg /\ v.ear[r].mode = FALSE /\ w.ear[r].until = 0

(* The expired hold and the expired entries of the skip list are gone. *)
LEMMA ScanPrepares ==
    ASSUME NEW w, NEW r \in Receivers, WorldInv(w)
    PROVE  Prepared(w, Purged(CheckExpiredHold(w, r), r), r)
<1> DEFINE u == CheckExpiredHold(w, r)
           x == [u.ear[r] EXCEPT !.skip = PurgedSkip(u.ear[r])]
           f == [u.ear EXCEPT ![r] = x]
           v == Purged(u, r)
<1>1. Unheld(w, u, r)
  BY CheckExpiredHoldUnheld
<1> HIDE DEF u
<1>2. /\ Kept(w, u) /\ WorldInv(u) /\ u \in WorldType
      /\ u.ear[r] \in Ear /\ u.ear \in [Receivers -> Ear]
  BY <1>1, WorldParts DEF Unheld, Kept, WorldInv, Core
<1>3. PurgedSkip(u.ear[r]) \in [Tgids -> 0..SkipTime + 1]
  <2>1. u.ear[r].skip \in [Tgids -> 0..SkipTime + 1]
    BY <1>2 DEF Ear
  <2> QED  BY <2>1, Times DEF PurgedSkip
<1>4. v = [u EXCEPT !.ear = f]
  BY <1>2 DEF Purged, PurgedSkip, WorldType, Ear
<1>5. /\ x \in Ear /\ SameHold(u.ear[r], x)
      /\ x.skip = PurgedSkip(u.ear[r]) /\ x.black = u.ear[r].black /\ x.white = u.ear[r].white
  BY <1>2, <1>3 DEF Ear, SameHold
<1> HIDE DEF x, v
<1>6. f \in [Receivers -> Ear] /\ f[r] = x
      /\ \A q \in Receivers : SameHold(u.ear[q], f[q])
  BY <1>2, <1>5 DEF SameHold
<1> HIDE DEF f
<1>7. v.ear = f /\ v.radio = u.radio /\ v.hand = u.hand
  BY <1>2, <1>4 DEF WorldType
<1>8. Kept(w, v)
  <2>1. Kept(u, v)
    BY <1>2, <1>4, <1>6, EarSameHolds, SameHoldsKept
  <2> QED  BY <1>2, <2>1, KeptTwice
<1>9. PurgedSkip(u.ear[r]) = PurgedSkip(w.ear[r])
  BY <1>1 DEF Unheld, PurgedSkip
<1>10. v.ear[r] = x /\ v.radio = w.radio /\ v.hand = w.hand
  BY <1>1, <1>6, <1>7 DEF Unheld
<1>11. \/ SameHold(w.ear[r], v.ear[r])
       \/ v.ear[r].hold = NoTg /\ v.ear[r].mode = FALSE /\ w.ear[r].until = 0
  BY <1>1, <1>5, <1>10 DEF Unheld, SameHold
<1>12. /\ v.ear[r].skip = PurgedSkip(w.ear[r])
       /\ v.ear[r].black = w.ear[r].black /\ v.ear[r].white = w.ear[r].white
  BY <1>1, <1>5, <1>9, <1>10 DEF Unheld
<1> QED  BY <1>8, <1>10, <1>11, <1>12 DEF Prepared, u, v

(* A talkgroup that r may begin to follow. *)
Chosen(v, r, t) ==
    /\ v.hand.site = HomeOf[r]
    /\ t \in Tgids /\ t # v.radio.tgid[r]
    /\ v.radio.own[HomeOf[r]][t] \in {NoRx, r}
    /\ \/ t = v.ear[r].hold
       \/ /\ ~ v.ear[r].mode
          /\ Listed(v.ear[r], t)
          /\ v.radio.own[HomeOf[r]][t] = NoRx
          /\ StartsFrom(v, r) # NoTg => Prio[t] < Prio[StartsFrom(v, r)]

(* find_talkgroup() starts from what is held or followed, if nobody else   *)
(* has it.                                                                 *)
LEMMA StartsFromWhat ==
    ASSUME NEW v, NEW r \in Receivers, v.hand.site = HomeOf[r]
    PROVE  \/ StartsFrom(v, r) = NoTg
           \/ /\ StartsFrom(v, r) = (IF v.ear[r].hold # NoTg THEN v.ear[r].hold
                                     ELSE v.radio.tgid[r])
              /\ v.radio.own[HomeOf[r]][StartsFrom(v, r)] \in {NoRx, r}
  BY DEF StartsFrom, Current

(* find_talkgroup() returns nothing that the lists, the hold or another    *)
(* receiver forbid.                                                        *)
LEMMA FoundIsChosen ==
    ASSUME NEW v, NEW r \in Receivers, WorldInv(v), v.hand.site = HomeOf[r],
           NEW t \in FindTalkgroup(v, r), t # v.radio.tgid[r]
    PROVE  Chosen(v, r, t)
<1> DEFINE start == StartsFrom(v, r)
           found == Competes(v, r, start)
           best == {x \in found : \A u \in found : Prio[x] <= Prio[u]}
<1>1. v.hand.stamped \in SUBSET Tgids /\ (v.ear[r].mode => v.ear[r].hold # NoTg)
  BY WorldParts DEF WorldInv, Core, Handler, HoldFits
<1>2. t \in v.hand.stamped /\ (t = start \/ t \in found)
  BY DEF FindTalkgroup
<1>3. t \in Tgids /\ t # NoTg
  BY <1>1, <1>2, RadioAssumption
<1>4. CASE t = start
  <2>1. t = v.ear[r].hold /\ v.radio.own[HomeOf[r]][t] \in {NoRx, r}
    BY <1>3, <1>4, StartsFromWhat
  <2> QED  BY <1>3, <2>1 DEF Chosen
<1>5. CASE t \in found
  <2>1. /\ ~ (v.ear[r].mode /\ v.ear[r].hold # NoTg)
        /\ Listed(v.ear[r], t)
        /\ v.radio.own[HomeOf[r]][t] = NoRx
        /\ start # NoTg => Prio[t] < Prio[start]
    BY <1>5 DEF Competes
  <2> QED  BY <1>1, <1>3, <2>1 DEF Chosen
<1> QED  BY <1>2, <1>4, <1>5

(* r follows t, or nothing if the channel could not be tuned. *)
Started(x, e, r, t) ==
    /\ WorldInv(e)
    /\ e.hand.busy = x.hand.busy /\ e.hand.site = x.hand.site /\ e.hand.todo = x.hand.todo
    /\ \A q \in Receivers : q # r => e.radio.tgid[q] = x.radio.tgid[q]
    /\ e.radio.tgid[r] \in {t, NoTg}

(* tune_voice(): an automatic hold ends with it, a manual one was on t. *)
LEMMA StartCallStarts ==
    ASSUME NEW x, NEW r \in Receivers, NEW t \in Tgids, NEW tunable \in BOOLEAN,
           WorldInv(x), x.radio.tgid[r] = NoTg,
           x.radio.own[HomeOf[r]][t] \in {NoRx, r},
           x.ear[r].mode => x.ear[r].hold = t
    PROVE  Started(x, StartCall(x, r, t, tunable), r, t)
<1> DEFINE d == x.radio
           f == TuneVoice(d, r, t, tunable)
           y == [x EXCEPT !.radio = TuneVoice(@, r, t, tunable)]
           e == StartCall(x, r, t, tunable)
<1>1. /\ x \in WorldType /\ RadioInv(d) /\ d \in Radio /\ d.sys = HomeOf
      /\ (TableKept => TableAgrees(d)) /\ HandFits(x)
      /\ \A q \in Receivers : HoldFits(x, q)
      /\ d.sys[r] = HomeOf[r] /\ d.tgid[r] = NoTg
      /\ d.own[d.sys[r]][t] \in {NoRx, r}
      /\ x.ear[r].mode \in BOOLEAN /\ t # NoTg
  BY RadioAssumption, WorldParts DEF WorldInv, Core, RadioInv
<1>2. RadioInv(f)
  BY <1>1, TuneVoiceInv
<1>3. TableKept => TableAgrees(f)
  BY <1>1, TuneVoiceTable
<1>4. /\ f.sys = d.sys
      /\ \A q \in Receivers : q # r => f.tgid[q] = d.tgid[q]
      /\ f.tgid[r] = IF tunable = TRUE THEN t ELSE NoTg
  <2>1. CASE tunable = TRUE
    <3>1. f = TuneVoice(d, r, t, TRUE)
      BY <2>1
    <3> HIDE DEF f
    <3>2. TakesCall(d, f, r, t)
      BY <1>1, <3>1, TunedCalls
    <3> QED  BY <2>1, <3>2 DEF TakesCall
  <2>2. CASE tunable = FALSE
    <3>1. f = TuneVoice(d, r, t, FALSE)
      BY <2>2
    <3> HIDE DEF f
    <3>2. SameCalls(d, f)
      BY <1>1, <3>1, UntunedCalls
    <3> QED  BY <1>1, <2>2, <3>2 DEF SameCalls
  <2> QED  BY <2>1, <2>2
<1>5. y = [x EXCEPT !.radio = f]
  BY <1>1 DEF WorldType
<1>6. \/ tunable = TRUE /\ x.ear[r].mode = FALSE /\ e = ClearHold(y, r)
      \/ (tunable = FALSE \/ x.ear[r].mode = TRUE) /\ e = y
  BY <1>1 DEF StartCall
<1> HIDE DEF f, y, e, d
<1>7. y \in WorldType /\ y.radio = f /\ y.ear = x.ear /\ y.hand = x.hand
  BY <1>1, <1>2, <1>5 DEF WorldType, RadioInv
<1>8. Core(y)
  BY <1>1, <1>2, <1>3, <1>4, <1>7 DEF Core, HandFits
<1>9. ASSUME NEW q \in Receivers, q # r
      PROVE  HoldFits(y, q)
  <2>1. HoldFits(x, q) /\ y.radio.tgid[q] = x.radio.tgid[q] /\ y.ear[q] = x.ear[q]
    BY <1>1, <1>4, <1>7, <1>9 DEF d
  <2> QED  BY <2>1 DEF HoldFits
<1>10. CASE tunable = TRUE /\ x.ear[r].mode = FALSE /\ e = ClearHold(y, r)
  <2>1. Holds(y, e, r, NoTg, 0, FALSE)
    BY <1>7, <1>10, Times, SetHoldHolds DEF ClearHold
  <2>2. Core(e) /\ e.radio = f /\ e.hand = x.hand
    BY <1>7, <1>8, <2>1, CoreFrame DEF Holds
  <2>3. HoldFits(e, r)
    BY <2>1 DEF Holds, HoldFits
  <2>4. ASSUME NEW q \in Receivers, q # r
        PROVE  HoldFits(e, q)
    BY <1>7, <1>9, <2>1, <2>2, <2>4 DEF Holds, HoldFits
  <2>5. WorldInv(e)
    BY <2>2, <2>3, <2>4 DEF WorldInv
  <2> QED  BY <1>4, <1>10, <2>2, <2>5 DEF Started, e, d
<1>11. CASE (tunable = FALSE \/ x.ear[r].mode = TRUE) /\ e = y
  <2>1. HoldFits(y, r)
    <3>1. CASE tunable = TRUE
      BY <1>1, <1>4, <1>7, <1>11, <3>1 DEF HoldFits
    <3>2. CASE tunable = FALSE
      <4>1. y.radio.tgid[r] = NoTg /\ y.ear[r] = x.ear[r] /\ HoldFits(x, r)
        BY <1>1, <1>4, <1>7, <3>2
      <4> QED  BY <4>1 DEF HoldFits
    <3> QED  BY <3>1, <3>2
  <2>2. WorldInv(e)
    BY <1>8, <1>9, <1>11, <2>1 DEF WorldInv
  <2> QED  BY <1>4, <1>7, <1>11, <2>2 DEF Started, e, d
<1> QED  BY <1>6, <1>10, <1>11 DEF e

(* A receiver in a call leaves it first ("preempt"). *)
LEMMA FollowCallStarts ==
    ASSUME NEW v, NEW r \in Receivers, NEW t, NEW tunable \in BOOLEAN,
           WorldInv(v), Chosen(v, r, t)
    PROVE  Started(v, FollowCall(v, r, t, tunable), r, t)
<1>1. /\ Core(v) /\ v \in WorldType /\ RadioInv(v.radio) /\ HoldFits(v, r)
      /\ v.radio.sys[r] = HomeOf[r] /\ Current(v, r) = v.radio.tgid[r]
      /\ v.ear[r].mode \in BOOLEAN /\ v.radio \in Radio
  BY WorldParts DEF WorldInv, Core, Current
<1>2. /\ t \in Tgids /\ t # v.radio.tgid[r] /\ v.radio.own[HomeOf[r]][t] \in {NoRx, r}
      /\ v.ear[r].mode => v.ear[r].hold = t
  BY DEF Chosen
<1>3. CASE v.radio.tgid[r] = NoTg
  <2>1. FollowCall(v, r, t, tunable) = StartCall(v, r, t, tunable)
    BY <1>1, <1>3 DEF FollowCall
  <2>2. Started(v, StartCall(v, r, t, tunable), r, t)
    BY <1>2, <1>3, StartCallStarts
  <2> QED  BY <2>1, <2>2
<1>4. CASE v.radio.tgid[r] # NoTg
  <2> DEFINE x == EndCall(v, r, TRUE)
             e == StartCall(x, r, t, tunable)
  <2>1. FollowCall(v, r, t, tunable) = e
    BY <1>1, <1>4 DEF FollowCall
  <2>2. v.ear[r].mode = FALSE
    BY <1>1, <1>2, <1>4 DEF HoldFits
  <2>3. Ended(v, x, r)
    BY <1>1, <1>4, EndCallEnds
  <2> HIDE DEF x
  <2>4. Core(x) /\ x.radio.tgid = [v.radio.tgid EXCEPT ![r] = NoTg]
    BY <1>1, <1>4, <2>3, EndedCore
  <2>5. \A q \in Receivers : x.radio.tgid[q] = IF q = r THEN NoTg ELSE v.radio.tgid[q]
    BY <1>1, <2>4 DEF Radio
  <2>6. ASSUME NEW q \in Receivers
        PROVE  HoldFits(x, q)
    <3>1. CASE q = r
      BY <2>2, <2>3, <2>5, <3>1 DEF HoldFits, Ended
    <3>2. CASE q # r
      BY <2>3, <2>5, <3>2 DEF HoldFits, Ended, WorldInv
    <3> QED  BY <3>1, <3>2
  <2>7. WorldInv(x) /\ x.radio.tgid[r] = NoTg /\ (x.ear[r].mode => x.ear[r].hold = t)
    BY <2>2, <2>3, <2>4, <2>5, <2>6 DEF WorldInv, Ended
  <2>8. x.radio.own[HomeOf[r]][t] \in {NoRx, r}
    <3>1. /\ x.radio = DropCall(v.radio, r) /\ HomeOf[r] \in Sites /\ v.radio.tgid[r] \in Tgids
      BY <1>1, <1>4, <2>3, CallAssumption, WorldParts DEF Ended
    <3>2. x.radio.own = [v.radio.own EXCEPT ![HomeOf[r]][v.radio.tgid[r]] = NoRx]
      BY <1>1, <3>1 DEF DropCall, Radio
    <3> QED  BY <1>1, <1>2, <3>1, <3>2 DEF Radio
  <2>9. Started(x, e, r, t)
    BY <1>2, <2>7, <2>8, StartCallStarts
  <2> HIDE DEF e
  <2>10. Started(v, e, r, t)
    BY <2>3, <2>5, <2>9 DEF Started, Ended
  <2> QED  BY <2>1, <2>10
<1> QED  BY <1>3, <1>4

(* From w to e receiver r, and no other, may have begun a call, after it   *)
(* was prepared to v.                                                      *)
Scanned(w, v, e, r) ==
    /\ WorldInv(e)
    /\ Prepared(w, v, r)
    /\ e.hand.busy = w.hand.busy /\ e.hand.site = w.hand.site /\ e.hand.todo = w.hand.todo
    /\ \A q \in Receivers : q # r => e.radio.tgid[q] = w.radio.tgid[q]
    /\ \/ e.radio.tgid[r] \in {w.radio.tgid[r], NoTg}
       \/ Chosen(v, r, e.radio.tgid[r])

(* scan_for_talkgroups() of a receiver of the site whose message is        *)
(* handled.                                                                *)
LEMMA ScanReceiverScans ==
    ASSUME NEW w, NEW r \in Receivers, WorldInv(w), w.hand.busy, r \in w.hand.todo,
           NEW e \in ScanReceiver(w, r)
    PROVE  \E v : Scanned(w, v, e, r)
<1> DEFINE v == Purged(CheckExpiredHold(w, r), r)
           wanted == {t \in FindTalkgroup(v, r) : t # Current(w, r) /\ t \in v.hand.placed}
<1>1. Prepared(w, v, r)
  BY ScanPrepares
<1>2. v.hand.site = HomeOf[r]
  BY <1>1 DEF Prepared, WorldInv, Core, HandFits
<1>3. \/ e = v
      \/ \E t \in wanted, tunable \in BOOLEAN : e = FollowCall(v, r, t, tunable)
  <2> DEFINE could == IF EarlyGrants THEN BOOLEAN ELSE {TRUE}
  <2>1. could \subseteq BOOLEAN
    OBVIOUS
  <2>2. ScanReceiver(w, r) = IF wanted = {} THEN {v}
                             ELSE {FollowCall(v, r, t, tunable) : t \in wanted, tunable \in could}
    BY DEF ScanReceiver
  <2> HIDE DEF wanted, could, v
  <2> QED  BY <2>1, <2>2
<1> HIDE DEF v
<1>4. WorldInv(v) /\ v.radio = w.radio /\ v.hand = w.hand
  BY <1>1 DEF Prepared, Kept
<1>5. CASE e = v
  BY <1>1, <1>4, <1>5 DEF Scanned
<1>6. CASE \E t \in wanted, tunable \in BOOLEAN : e = FollowCall(v, r, t, tunable)
  <2>1. PICK t \in wanted, tunable \in BOOLEAN : e = FollowCall(v, r, t, tunable)
    BY <1>6
  <2>2. t \in FindTalkgroup(v, r) /\ t # v.radio.tgid[r]
    BY <1>4, <2>1 DEF Current
  <2>3. Chosen(v, r, t)
    BY <1>2, <1>4, <2>2, FoundIsChosen
  <2>4. Started(v, e, r, t)
    BY <1>4, <2>1, <2>3, FollowCallStarts
  <2> QED  BY <1>1, <1>4, <2>3, <2>4 DEF Started, Scanned
<1> QED  BY <1>3, <1>5, <1>6

-----------------------------------------------------------------------------
(* The handlers.                                                           *)

(* Another tuning of the same calls. *)
LEMMA RetunedKept ==
    ASSUME NEW w, WorldInv(w), NEW d, RadioInv(d), SameCalls(w.radio, d)
    PROVE  Kept(w, [w EXCEPT !.radio = d])
<1> DEFINE e == [w EXCEPT !.radio = d]
<1>1. /\ Core(w) /\ w \in WorldType /\ w.radio.sys = HomeOf
      /\ (TableKept => TableAgrees(w.radio)) /\ HandFits(w) /\ d \in Radio
      /\ \A q \in Receivers : HoldFits(w, q)
  BY DEF WorldInv, Core, RadioInv
<1>2. e \in WorldType /\ e.radio = d /\ e.ear = w.ear /\ e.hand = w.hand
  BY <1>1 DEF WorldType
<1> HIDE DEF e
<1>3. TableKept => TableAgrees(d)
  BY <1>1, TableFrame DEF SameCalls
<1>4. Core(e)
  BY <1>1, <1>2, <1>3 DEF Core, HandFits, SameCalls
<1>5. \A q \in Receivers : HoldFits(e, q)
  BY <1>1, <1>2 DEF HoldFits, SameCalls
<1>6. NoStart(w, e)
  BY <1>2 DEF NoStart, SameCalls
<1> QED  BY <1>4, <1>5, <1>6 DEF Kept, WorldInv, e

(* The channel timeout, in a call or on the control channel. *)
LEMMA TimesOutKept ==
    ASSUME NEW w, NEW r \in Receivers, WorldInv(w)
    PROVE  Kept(w, TimesOut(w, r))
<1> DEFINE d == w.radio
           x == [d EXCEPT !.vcr[r] = @ + 1]
           struck == [w EXCEPT !.radio.vcr[r] = @ + 1]
           e == TimesOut(w, r)
<1>1. w \in WorldType /\ RadioInv(d) /\ d \in Radio
  BY DEF WorldInv, Core, RadioInv
<1>2. CASE d.tgid[r] = NoTg /\ HasCC(d, r)
  <2> DEFINE c == TimeoutCC(d, r)
  <2>1. RadioInv(c) /\ SameCalls(d, c)
    BY <1>1, <1>2, TimeoutCCInv, SameCallsOps
  <2>2. e = [w EXCEPT !.radio = TimeoutCC(@, r)]
    BY <1>2 DEF TimesOut
  <2>3. e = [w EXCEPT !.radio = c]
    BY <1>1, <2>2 DEF WorldType
  <2> HIDE DEF c, e, d
  <2>4. Kept(w, e)
    BY <2>1, <2>3, RetunedKept DEF d
  <2> QED  BY <2>4 DEF e
<1>3. CASE d.tgid[r] = NoTg /\ ~ HasCC(d, r)
  BY <1>3, KeptSame DEF TimesOut
<1>4. CASE d.tgid[r] # NoTg
  <2>1. /\ x \in Radio
        /\ x.cc = d.cc /\ x.idx = d.idx /\ x.sys = d.sys /\ x.own = d.own
        /\ x.idle = d.idle /\ x.tuned = d.tuned /\ x.tgid = d.tgid
    <3> DEFINE vcr == [d.vcr EXCEPT ![r] = d.vcr[r] + 1]
    <3> HIDE DEF d
    <3>1. vcr \in [Receivers -> Nat]
      BY <1>1 DEF Radio
    <3>2. x = [d EXCEPT !.vcr = vcr]
      BY <1>1 DEF Radio
    <3> HIDE DEF vcr, x
    <3> QED  BY <1>1, <3>1, <3>2 DEF Radio
  <2>2. struck = [w EXCEPT !.radio = x]
    BY <1>1 DEF WorldType, Radio
  <2>3. e = Release(struck, r, TRUE) \/ e = struck
    BY <1>4 DEF TimesOut
  <2> HIDE DEF x, struck, e, d
  <2>4. RadioInv(x) /\ SameCalls(d, x)
    BY <1>1, <2>1 DEF RadioInv, CCIndexInRange, ClaimsListen, BoundWhereListed, SameCalls
  <2>5. Kept(w, struck)
    BY <2>2, <2>4, RetunedKept DEF d
  <2>6. Kept(struck, Release(struck, r, TRUE))
    BY <2>5, ReleaseInv DEF Kept
  <2>7. Kept(w, e)
    BY <2>3, <2>5, <2>6, KeptTwice
  <2> QED  BY <2>7 DEF e
<1> QED  BY <1>2, <1>3, <1>4

(* A message was understood: the receivers of its site are to be scanned. *)
LEMMA UpdatedInv ==
    ASSUME NEW w, NEW r \in Receivers, WorldInv(w),
           NEW stamped \in SUBSET Tgids, NEW secret \in SUBSET Tgids
    PROVE  LET e == Updated(w, r, stamped, secret) IN
           WorldInv(e) /\ e.radio = w.radio /\ e.hand.busy = TRUE
<1> DEFINE todo == {q \in Receivers : HomeOf[q] = w.radio.sys[r]}
           h == [busy |-> TRUE, site |-> w.radio.sys[r], todo |-> todo,
                 stamped |-> stamped, secret |-> secret, placed |-> stamped]
           e == Updated(w, r, stamped, secret)
<1>1. Core(w) /\ w \in WorldType /\ w.radio.sys[r] \in Sites
  BY WorldParts DEF WorldInv, Core
<1>2. e = [w EXCEPT !.hand = h]
  BY DEF Updated
<1>3. /\ h \in Handler /\ h.busy = TRUE
      /\ \A q \in h.todo : HomeOf[q] = h.site
  BY <1>1 DEF Handler
<1> HIDE DEF h, e
<1>4. e \in WorldType /\ e.radio = w.radio /\ e.ear = w.ear /\ e.hand = h
  BY <1>1, <1>2, <1>3 DEF WorldType
<1>5. Core(e)
  BY <1>1, <1>3, <1>4 DEF Core, HandFits
<1>6. \A q \in Receivers : HoldFits(e, q)
  BY <1>4 DEF WorldInv, HoldFits
<1> QED  BY <1>3, <1>4, <1>5, <1>6 DEF WorldInv, e

(* A site that nobody monitors is given its first idle receiver. *)
LEMMA AssignmentServes ==
    ASSUME NEW d, RadioInv(d)
    PROVE  Served(CheckCCAssignments(d))
<1> DEFINE e == CheckCCAssignments(d)
<1>1. d \in Radio
  BY DEF RadioInv
<1>2. /\ e.cc = [s \in Sites |-> IF \E r \in Receivers : Assigns(d, s, r)
                                 THEN CHOOSE r \in Receivers : Assigns(d, s, r)
                                 ELSE d.cc[s]]
      /\ e.idle \subseteq d.idle
  BY <1>1 DEF CheckCCAssignments, Radio
<1> HIDE DEF e
<1> SUFFICES ASSUME NEW s \in Sites, e.cc[s] = NoRx, CCCount[s] > 0,
                    NEW r \in Receivers, HomeOf[r] = s, r \in e.idle
             PROVE  FALSE
  BY DEF Served, e
<1> DEFINE T == {q \in Receivers : HomeOf[q] = s /\ q \in d.idle}
<1>3. r \in T /\ T \in SUBSET Nat
  BY <1>2, RadioAssumption
<1>4. PICK m \in T : \A y \in T : m <= y
  BY <1>3, LeastElement
<1>5. ~ \E q \in Receivers : Assigns(d, s, q)
  <2>1. ASSUME \E q \in Receivers : Assigns(d, s, q)
        PROVE  FALSE
    <3>1. e.cc[s] = CHOOSE q \in Receivers : Assigns(d, s, q)
      BY <1>2, <2>1
    <3>2. (CHOOSE q \in Receivers : Assigns(d, s, q)) \in Receivers
      BY <2>1
    <3> QED  BY <3>1, <3>2, RadioAssumption
  <2> QED  BY <2>1
<1>6. d.cc[s] = NoRx
  BY <1>2, <1>5
<1>7. Assigns(d, s, m)
  BY <1>4, <1>6 DEF Assigns, FirstIdle
<1> QED  BY <1>4, <1>5, <1>7

(* check_cc_assignments(), which ends every message and every command. *)
LEMMA AssignedKept ==
    ASSUME NEW w, WorldInv(w)
    PROVE  LET e == [w EXCEPT !.radio = CheckCCAssignments(@)] IN
           Kept(w, e) /\ Served(e.radio) /\ e.radio = CheckCCAssignments(w.radio)
<1> DEFINE d == CheckCCAssignments(w.radio)
           e == [w EXCEPT !.radio = CheckCCAssignments(@)]
<1>1. w \in WorldType /\ RadioInv(w.radio) /\ w.radio \in Radio
  BY DEF WorldInv, Core, RadioInv
<1>2. RadioInv(d) /\ Served(d)
  BY <1>1, CheckCCAssignmentsInv, AssignmentServes
<1>3. SameCalls(w.radio, d)
  <2>1. ASSUME NEW r \in Receivers
        PROVE  SameCalls(w.radio, d)
    BY <1>1, SameCallsOps
  <2>2. CASE Receivers = {}
    BY <1>1 DEF CheckCCAssignments, SameCalls, Radio
  <2> QED  BY <2>1, <2>2
<1>4. e = [w EXCEPT !.radio = d]
  BY <1>1 DEF WorldType
<1> HIDE DEF d, e
<1>5. Kept(w, e)
  BY <1>2, <1>3, <1>4, RetunedKept
<1>6. e.radio = d
  BY <1>1, <1>4 DEF WorldType
<1> QED  BY <1>2, <1>5, <1>6 DEF d, e

-----------------------------------------------------------------------------
(* The actions.                                                            *)

(* No receiver begins a call. *)
Quiet(d, e) == \A q \in Receivers : e.tgid[q] \in {d.tgid[q], NoTg}

(* An action that makes w the state makes it the world. *)
LEMMA BecomeWorld ==
    ASSUME NEW w, w \in WorldType, Become(w)
    PROVE  World' = w
  BY DEF Become, World, WorldType

(* A handler that begins no call and asks for a scan. *)
LEMMA UpdatedStep ==
    ASSUME NEW w, NEW r \in Receivers, Kept(World, w),
           NEW stamped \in SUBSET Tgids, NEW secret \in SUBSET Tgids,
           Become(Updated(w, r, stamped, secret))
    PROVE  WorldInv(World') /\ Quiet(radio, radio') /\ hand'.busy = TRUE
<1> DEFINE e == Updated(w, r, stamped, secret)
<1>1. WorldInv(e) /\ e.radio = w.radio /\ e.hand.busy = TRUE
  BY UpdatedInv DEF Kept
<1> HIDE DEF e
<1>2. e \in WorldType
  BY <1>1 DEF WorldInv, Core
<1>3. World' = e
  BY <1>2, BecomeWorld DEF e
<1>4. radio' = w.radio /\ hand'.busy = TRUE /\ World.radio = radio
  BY <1>1, <1>3 DEF World
<1> QED  BY <1>1, <1>3, <1>4 DEF Kept, NoStart, Quiet

(* Grants, terminations, time-outs and the rest begin no call themselves.  *)
LEMMA HandleStep ==
    ASSUME WorldInv(World), NEW r \in Receivers, Handle(r)
    PROVE  /\ WorldInv(World') /\ Quiet(radio, radio') /\ due' = due
           /\ hand'.busy \/ (~ hand.busy /\ radio'.cc = radio.cc /\ radio'.idle = radio.idle)
<1>1. {} \in SUBSET Tgids /\ Kept(World, World)
  BY KeptSame
<1>2. CASE Grant(r)
  <2>1. PICK stamped \in SUBSET Tgids, secret \in SUBSET Tgids :
            Become(Updated(World, r, stamped, secret))
    BY <1>2 DEF Grant
  <2> QED  BY <1>1, <1>2, <2>1, UpdatedStep DEF Grant
<1>3. CASE CallTerminates(r)
  <2>1. Kept(World, Release(World, r, TRUE))
    BY ReleaseInv
  <2> QED  BY <1>1, <1>3, <2>1, UpdatedStep DEF CallTerminates
<1>4. CASE ChannelTimeout(r)
  <2>1. Kept(World, TimesOut(World, r))
    BY TimesOutKept
  <2> QED  BY <1>1, <1>4, <2>1, UpdatedStep DEF ChannelTimeout
<1>5. CASE SyncEstablished(r)
  <2>1. radio \in Radio /\ RadioInv(radio) /\ World.radio = radio /\ Current(World, r) = radio.tgid[r]
    BY DEF WorldInv, Core, World, RadioInv, Current
  <2>2. /\ radio' \in Radio
        /\ radio'.cc = radio.cc /\ radio'.idx = radio.idx /\ radio'.sys = radio.sys
        /\ radio'.own = radio.own /\ radio'.idle = radio.idle
        /\ radio'.tuned = radio.tuned /\ radio'.tgid = radio.tgid
    <3>1. CASE radio.tgid[r] # NoTg
      <4>1. radio' = [radio EXCEPT !.vcr[r] = 0]
        BY <1>5, <2>1, <3>1 DEF SyncEstablished
      <4> QED  BY <2>1, <4>1 DEF Radio
    <3>2. CASE radio.tgid[r] = NoTg /\ HasCC(radio, r)
      <4>1. radio' = [radio EXCEPT !.retries[radio.sys[r]] = 0]
        BY <1>5, <2>1, <3>2 DEF SyncEstablished
      <4> QED  BY <2>1, <4>1 DEF Radio
    <3>3. CASE radio.tgid[r] = NoTg /\ ~ HasCC(radio, r)
      <4>1. radio' = radio
        BY <1>5, <2>1, <3>3 DEF SyncEstablished
      <4> QED  BY <2>1, <4>1
    <3> QED  BY <3>1, <3>2, <3>3
  <2>3. RadioInv(radio') /\ SameCalls(radio, radio')
    BY <2>1, <2>2 DEF RadioInv, CCIndexInRange, ClaimsListen, BoundWhereListed, SameCalls
  <2>4. Kept(World, [World EXCEPT !.radio = radio'])
    BY <2>1, <2>3, RetunedKept
  <2>5. World' = [World EXCEPT !.radio = radio']
    BY <1>5 DEF SyncEstablished, World
  <2>6. Quiet(radio, radio')
    BY <2>2 DEF Quiet
  <2> QED  BY <1>5, <2>2, <2>4, <2>5, <2>6 DEF Kept, SyncEstablished
<1>6. CASE CallInfo(r)
  BY <1>1, <1>6, UpdatedStep DEF CallInfo
<1>7. CASE EncryptedCall(r)
  <2>1. PICK t \in Tgids : Become(Updated(AddSkip(World, r, t), r, {}, {}))
    BY <1>7 DEF EncryptedCall
  <2>2. Kept(World, AddSkip(World, r, t))
    BY AddSkipKept
  <2> QED  BY <1>1, <1>7, <2>1, <2>2, UpdatedStep DEF EncryptedCall
<1> QED  BY <1>2, <1>3, <1>4, <1>5, <1>6, <1>7 DEF Handle

(* A command begins no call, and ends with a reassignment. *)
LEMMA CommandStep ==
    ASSUME WorldInv(World), NEW r \in Receivers, Command(r)
    PROVE  WorldInv(World') /\ Quiet(radio, radio') /\ due' = due /\ Served(radio')
<1>1. PICK w \in Commanded(World, r) : Become([w EXCEPT !.radio = CheckCCAssignments(@)])
  BY DEF Command
<1> DEFINE e == [w EXCEPT !.radio = CheckCCAssignments(@)]
<1>2. Kept(World, w)
  BY CommandedKept
<1>3. Kept(w, e) /\ Served(e.radio)
  BY <1>2, AssignedKept DEF Kept
<1> HIDE DEF e
<1>4. Kept(World, e) /\ e \in WorldType
  BY <1>2, <1>3, KeptTwice DEF Kept, WorldInv, Core
<1>5. World' = e
  BY <1>1, <1>4, BecomeWorld DEF e
<1>6. radio' = e.radio /\ World.radio = radio
  BY <1>5 DEF World
<1> QED  BY <1>3, <1>4, <1>5, <1>6 DEF Command, Kept, NoStart, Quiet

(* One receiver of the site may begin a call, as its lists and its hold    *)
(* allow.                                                                  *)
LEMMA ScanStep ==
    ASSUME WorldInv(World), NEW r \in Receivers, Scan(r)
    PROVE  /\ WorldInv(World') /\ due' = due /\ hand'.busy
           /\ \E v, e : Scanned(World, v, e, r) /\ radio' = e.radio
<1>1. PICK e \in ScanReceiver(World, r) : Become([e EXCEPT !.hand.todo = @ \ {r}])
  BY DEF Scan
<1>2. World.hand.busy /\ r \in World.hand.todo
  BY DEF Scan, World
<1>3. PICK v : Scanned(World, v, e, r)
  BY <1>2, ScanReceiverScans
<1>4. /\ Core(e) /\ e \in WorldType /\ e.hand \in Handler /\ HandFits(e)
      /\ \A q \in Receivers : HoldFits(e, q)
      /\ e.hand.busy = hand.busy
  BY <1>3, WorldParts DEF Scanned, WorldInv, Core, World
<1> DEFINE h == [e.hand EXCEPT !.todo = e.hand.todo \ {r}]
           f == [e EXCEPT !.hand.todo = @ \ {r}]
<1>5. h \in Handler /\ h.busy = e.hand.busy /\ h.site = e.hand.site /\ h.todo \subseteq e.hand.todo
  BY <1>4 DEF Handler
<1>6. f = [e EXCEPT !.hand = h]
  BY <1>4 DEF WorldType, Handler
<1> HIDE DEF h, f
<1>7. f \in WorldType /\ f.radio = e.radio /\ f.ear = e.ear /\ f.hand = h
  BY <1>4, <1>5, <1>6 DEF WorldType
<1>8. Core(f)
  BY <1>4, <1>5, <1>7 DEF Core, HandFits
<1>9. \A q \in Receivers : HoldFits(f, q)
  BY <1>4, <1>7 DEF HoldFits
<1>10. World' = f
  BY <1>1, <1>7, BecomeWorld DEF f
<1>11. radio' = e.radio /\ hand' = h
  BY <1>7, <1>10 DEF World
<1>12. hand'.busy
  BY <1>4, <1>5, <1>11 DEF Scan
<1> QED  BY <1>3, <1>8, <1>9, <1>10, <1>11, <1>12 DEF WorldInv, Scan

(* The end of a message: the reassignment, and perhaps the cleanup of      *)
(* expired holds.                                                          *)
LEMMA ReassignStep ==
    ASSUME WorldInv(World), Reassign
    PROVE  WorldInv(World') /\ Quiet(radio, radio') /\ due' = FALSE /\ Served(radio')
<1> DEFINE d == CheckCCAssignments(radio)
           w == [World EXCEPT !.radio = CheckCCAssignments(@)]
           x(r) == CheckExpiredHold(World, r).ear[r]
<1>1. /\ World \in WorldType /\ World.radio = radio /\ World.ear = ear /\ World.hand = hand
      /\ ear \in [Receivers -> Ear]
  BY DEF WorldInv, Core, World, WorldType
<1>2. Kept(World, w) /\ Served(w.radio) /\ w.radio = d
  BY <1>1, AssignedKept
<1>3. w.ear = ear
  BY <1>1 DEF WorldType
<1>4. radio' = d /\ hand' = Idling /\ due' = FALSE
      /\ ear' = IF due THEN [r \in Receivers |-> x(r)] ELSE ear
  BY DEF Reassign
<1>5. ASSUME NEW r \in Receivers
      PROVE  /\ x(r) \in Ear
             /\ SameHold(ear[r], x(r)) \/ (x(r).hold = NoTg /\ x(r).mode = FALSE)
  <2> DEFINE v == CheckExpiredHold(World, r)
  <2>1. Unheld(World, v, r)
    BY CheckExpiredHoldUnheld
  <2> HIDE DEF v
  <2>2. v \in WorldType
    BY <2>1 DEF Unheld, Kept, WorldInv, Core
  <2>3. v.ear[r] \in Ear
    BY <2>2, WorldParts
  <2>4. SameHold(ear[r], v.ear[r]) \/ (v.ear[r].hold = NoTg /\ v.ear[r].mode = FALSE)
    BY <1>1, <2>1 DEF Unheld
  <2> QED  BY <2>3, <2>4 DEF v
<1> HIDE DEF w, d, x
<1>6. ear' \in [Receivers -> Ear]
  BY <1>1, <1>4, <1>5
<1>7. \A r \in Receivers :
        SameHold(ear[r], ear'[r]) \/ (ear'[r].hold = NoTg /\ ear'[r].mode = FALSE)
  BY <1>4, <1>5 DEF SameHold
<1>8. World'.radio = d /\ World'.ear = ear' /\ World'.hand = Idling
  BY <1>4 DEF World
<1>9. Idling \in Handler /\ Idling.busy = FALSE
  BY DEF Idling, Handler
<1>10. /\ RadioInv(d) /\ d \in Radio /\ d.sys = HomeOf /\ (TableKept => TableAgrees(d))
       /\ \A r \in Receivers : HoldFits(w, r)
  BY <1>2 DEF Kept, WorldInv, Core, RadioInv
<1>11. World' \in WorldType
  BY <1>4, <1>6, <1>9, <1>10 DEF World, WorldType
<1>12. HandFits(World')
  BY <1>8, <1>9 DEF HandFits
<1>13. Core(World')
  BY <1>8, <1>10, <1>11, <1>12 DEF Core
<1>14. ASSUME NEW r \in Receivers
       PROVE  HoldFits(World', r)
  BY <1>2, <1>3, <1>7, <1>8, <1>10 DEF HoldFits, SameHold
<1>15. Quiet(radio, radio')
  BY <1>1, <1>2, <1>4 DEF Kept, NoStart, Quiet
<1> QED  BY <1>2, <1>4, <1>13, <1>14, <1>15 DEF WorldInv

(* Time runs for the holds and the skip lists; a hold by hand has none. *)
LEMMA ElapseStep ==
    ASSUME WorldInv(World), Elapse
    PROVE  WorldInv(World') /\ radio' = radio /\ hand' = hand /\ due' = TRUE
<1> DEFINE u(r) == IF ear[r].until \in {0, Forever} THEN ear[r].until ELSE ear[r].until - 1
           k(r) == [t \in Tgids |-> IF ear[r].skip[t] > 1 THEN ear[r].skip[t] - 1
                                    ELSE ear[r].skip[t]]
           x(r) == [ear[r] EXCEPT !.until = u(r), !.skip = k(r)]
<1>1. /\ World \in WorldType /\ ear \in [Receivers -> Ear] /\ World.ear = ear
      /\ World.radio = radio /\ World.hand = hand
  BY DEF WorldInv, Core, World, WorldType
<1>2. radio' = radio /\ hand' = hand /\ due' = TRUE
  BY DEF Elapse
<1>3. ear' = [r \in Receivers |-> x(r)]
  BY DEF Elapse
<1>4. ASSUME NEW r \in Receivers
      PROVE  /\ u(r) \in 0..Forever /\ (ear[r].until = Forever => u(r) = Forever)
             /\ k(r) \in [Tgids -> 0..SkipTime + 1]
  <2>1. ear[r].until \in 0..Forever /\ ear[r].skip \in [Tgids -> 0..SkipTime + 1]
    BY <1>1 DEF Ear
  <2>2. Forever \in Nat /\ SkipTime \in Nat
    BY CallAssumption DEF Forever
  <2>3. u(r) \in 0..Forever /\ (ear[r].until = Forever => u(r) = Forever)
    BY <2>1, <2>2
  <2>4. ASSUME NEW t \in Tgids
        PROVE  (IF ear[r].skip[t] > 1 THEN ear[r].skip[t] - 1 ELSE ear[r].skip[t])
                   \in 0..SkipTime + 1
    <3>1. ear[r].skip[t] \in 0..SkipTime + 1
      BY <2>1
    <3> QED  BY <2>2, <3>1
  <2> QED  BY <2>3, <2>4
<1> HIDE DEF u, k
<1>5. ASSUME NEW r \in Receivers
      PROVE  /\ x(r) \in Ear /\ x(r).hold = ear[r].hold /\ x(r).mode = ear[r].mode
             /\ ear[r].until = Forever => x(r).until = Forever
  <2>1. ear[r] \in Ear
    BY <1>1
  <2> QED  BY <1>4, <2>1 DEF Ear
<1> HIDE DEF x
<1>6. /\ ear' \in [Receivers -> Ear]
      /\ \A r \in Receivers : ear'[r].hold = ear[r].hold /\ ear'[r].mode = ear[r].mode
                              /\ (ear[r].until = Forever => ear'[r].until = Forever)
  BY <1>3, <1>5
<1>7. World'.radio = radio /\ World'.ear = ear' /\ World'.hand = hand
  BY <1>2 DEF World
<1>8. World' \in WorldType
  BY <1>1, <1>2, <1>6 DEF World, WorldType
<1>9. Core(World')
  BY <1>1, <1>7, <1>8 DEF WorldInv, Core, HandFits
<1>10. \A r \in Receivers : HoldFits(World', r)
  BY <1>1, <1>6, <1>7 DEF WorldInv, HoldFits
<1> QED  BY <1>2, <1>9, <1>10 DEF WorldInv

(* Before the first message every control channel that can be is claimed. *)
LEMMA InitInv == Init => IInv
<1> SUFFICES ASSUME Init PROVE IInv
  OBVIOUS
<1> DEFINE d == ReceiversIdle(HomeOf)
           e0 == [hold |-> NoTg, mode |-> FALSE, until |-> 0,
                  skip |-> [t \in Tgids |-> 0],
                  black |-> {}, white |-> {}, private |-> TRUE]
           w == [radio |-> d, ear |-> ear, hand |-> hand]
<1>1. RadioInv(d) /\ d.sys = HomeOf /\ d \in Radio
  BY Homes, ReceiversIdleInv DEF RadioInv
<1>2. /\ \A r \in Receivers : d.tgid[r] = NoTg
      /\ \A s \in Sites, t \in Tgids : d.own[s][t] = NoRx
  BY DEF ReceiversIdle
<1>3. TableAgrees(d)
  BY <1>2 DEF TableAgrees
<1>4. e0 \in Ear /\ e0.hold = NoTg /\ e0.mode = FALSE
  BY Times DEF Ear
<1>5. ear = [r \in Receivers |-> LoadLists(e0)] /\ hand = Idling /\ due = TRUE
      /\ radio = CheckCCAssignments(d)
  BY DEF Init
<1> HIDE DEF e0, d
<1>6. /\ ear \in [Receivers -> Ear]
      /\ \A r \in Receivers : ear[r].hold = NoTg /\ ear[r].mode = FALSE
  BY <1>4, <1>5, LoadListsEar DEF SameHold
<1>7. hand \in Handler /\ hand.busy = FALSE
  BY <1>5 DEF Idling, Handler
<1>8. w \in WorldType /\ w.radio = d /\ w.ear = ear /\ w.hand = hand
  BY <1>1, <1>6, <1>7 DEF WorldType
<1> HIDE DEF w
<1>9. WorldInv(w)
  <2>1. Core(w)
    BY <1>1, <1>3, <1>7, <1>8 DEF Core, HandFits
  <2>2. \A r \in Receivers : HoldFits(w, r)
    BY <1>2, <1>6, <1>8 DEF HoldFits, d
  <2> QED  BY <2>1, <2>2 DEF WorldInv
<1> DEFINE v == [w EXCEPT !.radio = CheckCCAssignments(@)]
<1>10. Kept(w, v) /\ Served(v.radio) /\ v.radio = CheckCCAssignments(w.radio)
  BY <1>9, AssignedKept
<1>11. v.ear = ear /\ v.hand = hand /\ v.radio = radio
  BY <1>5, <1>8, <1>10 DEF WorldType
<1> HIDE DEF v
<1>12. WorldInv(v) /\ v \in WorldType
  BY <1>10 DEF Kept, WorldInv, Core
<1>13. World = v
  BY <1>11, <1>12 DEF World, WorldType
<1> QED  BY <1>5, <1>10, <1>11, <1>12, <1>13 DEF IInv

(* What a step of the receivers' calls can be: none begins, or one does    *)
(* that the scan has chosen.                                               *)
CallStep ==
    \/ Quiet(radio, radio')
    \/ \E r \in Receivers : \E v, e : Scanned(World, v, e, r) /\ radio' = e.radio

(* Every action preserves the invariant. *)
LEMMA NextInv ==
    ASSUME IInv, [Next]_vars
    PROVE  IInv' /\ CallStep
<1>1. WorldInv(World) /\ due \in BOOLEAN /\ (~ hand.busy => Served(radio)) /\ World.radio = radio
  BY DEF IInv, World
<1>2. ASSUME NEW r \in Receivers, Handle(r)
      PROVE  IInv' /\ CallStep
  <2>1. /\ WorldInv(World') /\ Quiet(radio, radio') /\ due' = due
        /\ hand'.busy \/ (~ hand.busy /\ radio'.cc = radio.cc /\ radio'.idle = radio.idle)
    BY <1>1, <1>2, HandleStep
  <2>2. ~ hand'.busy => Served(radio')
    BY <1>1, <2>1 DEF Served
  <2> QED  BY <1>1, <2>1, <2>2 DEF IInv, CallStep
<1>3. ASSUME NEW r \in Receivers, Scan(r)
      PROVE  IInv' /\ CallStep
  <2>1. /\ WorldInv(World') /\ due' = due /\ hand'.busy
        /\ \E v, e : Scanned(World, v, e, r) /\ radio' = e.radio
    BY <1>1, <1>3, ScanStep
  <2> QED  BY <1>1, <2>1 DEF IInv, CallStep
<1>4. ASSUME NEW r \in Receivers, Command(r)
      PROVE  IInv' /\ CallStep
  <2>1. WorldInv(World') /\ Quiet(radio, radio') /\ due' = due /\ Served(radio')
    BY <1>1, <1>4, CommandStep
  <2> QED  BY <1>1, <2>1 DEF IInv, CallStep
<1>5. CASE Reassign
  <2>1. WorldInv(World') /\ Quiet(radio, radio') /\ due' = FALSE /\ Served(radio')
    BY <1>1, <1>5, ReassignStep
  <2> QED  BY <2>1 DEF IInv, CallStep
<1>6. CASE Elapse
  <2>1. WorldInv(World') /\ radio' = radio /\ hand' = hand /\ due' = TRUE
    BY <1>1, <1>6, ElapseStep
  <2> QED  BY <1>1, <2>1 DEF IInv, CallStep, Quiet
<1>7. CASE UNCHANGED vars
  BY <1>1, <1>7 DEF vars, IInv, World, CallStep, Quiet
<1> QED  BY <1>2, <1>3, <1>4, <1>5, <1>6, <1>7 DEF Next

-----------------------------------------------------------------------------
(* Theorems.                                                               *)

(* The invariant holds in every reachable state. *)
THEOREM Invariance == Spec => []IInv
<1>1. Init => IInv
  BY InitInv
<1>2. IInv /\ [Next]_vars => IInv'
  BY NextInv
<1> QED  BY <1>1, <1>2, PTL DEF Spec

(* The records keep their types and cc_index stays inside cc_list. *)
THEOREM TypeCorrect == Spec => []TypeOK
<1>1. IInv => TypeOK
  <2> SUFFICES ASSUME IInv PROVE TypeOK
    OBVIOUS
  <2>1. World \in WorldType /\ RadioInv(World.radio)
    BY DEF IInv, WorldInv, Core
  <2>2. World.radio = radio /\ World.ear = ear /\ World.hand = hand
    BY DEF World
  <2>3. radio \in Radio /\ ear \in [Receivers -> Ear] /\ hand \in Handler
    BY <2>1, <2>2, WorldParts
  <2> QED  BY <2>1, <2>2, <2>3 DEF IInv, RadioInv, TypeOK
<1> QED  BY <1>1, Invariance, PTL

(* Nobody holds a claim on a control channel without listening to it,      *)
(* wherever the UI thread cuts into the handling of a message.             *)
THEOREM ClaimantsListen == Spec => []ClaimantListens
<1>1. IInv => ClaimantListens
  BY DEF IInv, WorldInv, Core, World, RadioInv, ClaimantListens
<1> QED  BY <1>1, Invariance, PTL

(* Between two messages a site nobody listens to has no idle receiver.     *)
THEOREM AlwaysServed == Spec => []ServedIfPossible
<1>1. IInv => ServedIfPossible
  BY DEF IInv, Served, ServedIfPossible
<1> QED  BY <1>1, Invariance, PTL

(* The talkgroup table and the receivers agree on who is in which call, as *)
(* long as nothing replaces the table.                                     *)
THEOREM TableMatches == ASSUME TableKept PROVE Spec => []CallsMatch
<1>1. IInv => CallsMatch
  <2> SUFFICES ASSUME IInv PROVE CallsMatch
    OBVIOUS
  <2>1. TableAgrees(radio)
    BY DEF IInv, WorldInv, Core, World
  <2> QED  BY <2>1 DEF TableAgrees, CallsMatch
<1> QED  BY <1>1, Invariance, PTL

(* A receiver that begins a call does so in its own scan, on a talkgroup   *)
(* it may follow.                                                          *)
LEMMA StartIsChosen ==
    ASSUME IInv, CallStep, NEW r \in Receivers, NEW t \in Tgids, Starts(r, t)
    PROVE  \E v : Prepared(World, v, r) /\ Chosen(v, r, t)
<1>1. radio'.tgid[r] = t /\ t # NoTg /\ t # radio.tgid[r] /\ World.radio = radio
  BY DEF Starts, World
<1>2. ~ Quiet(radio, radio')
  BY <1>1 DEF Quiet
<1>3. PICK q \in Receivers : \E v, e : Scanned(World, v, e, q) /\ radio' = e.radio
  BY <1>2 DEF CallStep
<1>4. PICK v, e : Scanned(World, v, e, q) /\ radio' = e.radio
  BY <1>3
<1>5. q = r /\ Chosen(v, r, t)
  BY <1>1, <1>4 DEF Scanned
<1> QED  BY <1>4, <1>5 DEF Scanned

(* Black list, white list and skip list decide, or the hold does: whatever *)
(* the UI thread changed between the grant and the scan.                   *)
THEOREM ListsDecide == Spec => ListsRespected
<1>1. ASSUME IInv, CallStep, NEW r \in Receivers, NEW t \in Tgids, Starts(r, t)
      PROVE  \/ Listed([ear[r] EXCEPT !.skip = [u \in Tgids |-> IF @[u] = 1 THEN 0 ELSE @[u]]], t)
             \/ ear[r].hold = t
  <2>1. PICK v : Prepared(World, v, r) /\ Chosen(v, r, t)
    BY <1>1, StartIsChosen
  <2>2. World.ear = ear /\ t # NoTg /\ ear[r] \in Ear
    BY <1>1, WorldParts DEF World, Starts, IInv, WorldInv, Core
  <2>3. CASE t = v.ear[r].hold
    BY <2>1, <2>2, <2>3 DEF Prepared, SameHold
  <2>4. CASE Listed(v.ear[r], t)
    <3> DEFINE x == [ear[r] EXCEPT !.skip = [u \in Tgids |-> IF @[u] = 1 THEN 0 ELSE @[u]]]
    <3>1. x = [ear[r] EXCEPT !.skip = PurgedSkip(ear[r])]
      BY <2>2 DEF PurgedSkip, Ear
    <3>2. x.skip = PurgedSkip(ear[r]) /\ x.black = ear[r].black /\ x.white = ear[r].white
      BY <2>2, <3>1 DEF Ear
    <3> HIDE DEF x
    <3>3. Listed(x, t)
      BY <2>1, <2>2, <2>4, <3>2 DEF Prepared, Listed
    <3> QED  BY <3>3 DEF x
  <2> QED  BY <2>1, <2>3, <2>4 DEF Chosen
<1>2. IInv /\ [Next]_vars =>
        [ \A r \in Receivers, t \in Tgids : Starts(r, t) =>
          \/ Listed([ear[r] EXCEPT !.skip = [u \in Tgids |-> IF @[u] = 1 THEN 0 ELSE @[u]]], t)
          \/ ear[r].hold = t ]_vars
  BY <1>1, NextInv
<1> QED  BY <1>2, Invariance, PTL DEF Spec, ListsRespected

(* A held talkgroup yields to nothing if it was held by hand, and else to  *)
(* a higher priority or because another receiver follows it.               *)
THEOREM HoldsReserve == Spec => HoldReserves
<1>1. ASSUME IInv, CallStep, NEW r \in Receivers, NEW t \in Tgids,
             Starts(r, t), ear[r].hold # NoTg, ear[r].until > 0
      PROVE  LET h == ear[r].hold IN
             \/ t = h
             \/ /\ ~ ear[r].mode
                /\ Prio[t] < Prio[h] \/ radio.own[radio.sys[r]][h] \notin {NoRx, r}
  <2>1. PICK v : Prepared(World, v, r) /\ Chosen(v, r, t)
    BY <1>1, StartIsChosen
  <2>2. /\ World.ear = ear /\ World.radio = radio /\ World.hand = hand
        /\ radio.sys[r] = HomeOf[r] /\ ear[r].until # 0
    BY <1>1 DEF World, IInv, WorldInv, Core
  <2>3. SameHold(ear[r], v.ear[r]) /\ v.radio = radio
    BY <2>1, <2>2 DEF Prepared
  <2>4. CASE t = v.ear[r].hold
    BY <2>3, <2>4 DEF SameHold
  <2>5. CASE /\ ~ v.ear[r].mode
             /\ StartsFrom(v, r) # NoTg => Prio[t] < Prio[StartsFrom(v, r)]
    <3>1. ~ ear[r].mode /\ v.ear[r].hold = ear[r].hold
      BY <2>3, <2>5 DEF SameHold
    <3>2. CASE radio.own[radio.sys[r]][ear[r].hold] \notin {NoRx, r}
      BY <3>1, <3>2
    <3>3. CASE radio.own[radio.sys[r]][ear[r].hold] \in {NoRx, r}
      <4>1. v.hand.site = radio.sys[r]
        BY <2>1, <2>2 DEF Chosen
      <4>2. StartsFrom(v, r) = ear[r].hold
        BY <1>1, <2>3, <3>1, <3>3, <4>1 DEF StartsFrom
      <4> QED  BY <1>1, <2>5, <3>1, <4>2
    <3> QED  BY <3>2, <3>3
  <2> QED  BY <2>1, <2>4, <2>5 DEF Chosen
<1>2. IInv /\ [Next]_vars =>
        [ \A r \in Receivers, t \in Tgids :
            Starts(r, t) /\ ear[r].hold # NoTg /\ ear[r].until > 0 =>
              LET h == ear[r].hold IN
              \/ t = h
              \/ /\ ~ ear[r].mode
                 /\ Prio[t] < Prio[h] \/ radio.own[radio.sys[r]][h] \notin {NoRx, r} ]_vars
  BY <1>1, NextInv
<1> QED  BY <1>2, Invariance, PTL DEF Spec, HoldReserves

(* A call in progress yields to a free call of a higher priority and not   *)
(* under a manual hold, as long as nothing replaces the table.             *)
THEOREM PreemptionImproves == ASSUME TableKept PROVE Spec => OnlyBetterPreempts
<1>1. ASSUME IInv, CallStep, NEW r \in Receivers, NEW t \in Tgids,
             Starts(r, t), radio.tgid[r] # NoTg
      PROVE  /\ Prio[t] < Prio[radio.tgid[r]]
             /\ ~ ear[r].mode
             /\ radio.own[radio.sys[r]][t] = NoRx
  <2>1. PICK v : Prepared(World, v, r) /\ Chosen(v, r, t)
    BY <1>1, StartIsChosen
  <2>2. /\ World.ear = ear /\ World.radio = radio /\ World.hand = hand
        /\ radio.sys[r] = HomeOf[r] /\ TableAgrees(radio) /\ t # NoTg /\ t # radio.tgid[r]
        /\ HoldFits(World, r)
    BY <1>1 DEF World, IInv, WorldInv, Core, Starts
  <2>3. v.radio = radio /\ HoldFits(v, r)
    BY <2>1, <2>2 DEF Prepared, Kept, WorldInv
  <2>4. v.ear[r].hold = (IF v.ear[r].mode THEN radio.tgid[r] ELSE NoTg)
    BY <1>1, <2>3 DEF HoldFits
  <2>5. /\ ~ v.ear[r].mode /\ radio.own[HomeOf[r]][t] = NoRx
        /\ StartsFrom(v, r) # NoTg => Prio[t] < Prio[StartsFrom(v, r)]
    BY <2>1, <2>2, <2>3, <2>4 DEF Chosen
  <2>6. StartsFrom(v, r) = radio.tgid[r]
    <3>1. v.hand.site = radio.sys[r]
      BY <2>1, <2>2 DEF Chosen
    <3>2. radio.own[radio.sys[r]][radio.tgid[r]] = r
      BY <1>1, <2>2 DEF TableAgrees
    <3> QED  BY <1>1, <2>3, <2>4, <2>5, <3>1, <3>2 DEF StartsFrom, Current
  <2>7. ~ ear[r].mode
    <3>1. Forever # 0
      BY CallAssumption DEF Forever
    <3> QED  BY <2>1, <2>2, <2>5, <3>1 DEF Prepared, SameHold, HoldFits
  <2> QED  BY <1>1, <2>2, <2>5, <2>6, <2>7
<1>2. IInv /\ [Next]_vars =>
        [ \A r \in Receivers, t \in Tgids :
            Starts(r, t) /\ radio.tgid[r] # NoTg =>
              /\ Prio[t] < Prio[radio.tgid[r]]
              /\ ~ ear[r].mode
              /\ radio.own[radio.sys[r]][t] = NoRx ]_vars
  BY <1>1, NextInv
<1> QED  BY <1>2, Invariance, PTL DEF Spec, OnlyBetterPreempts
=============================================================================
