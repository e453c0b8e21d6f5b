---------------------------- MODULE RxCtl_proofs ----------------------------
(***************************************************************************)
(* The lemmas that the proofs about roaming and about call following rest  *)
(* on, in two parts.                                                       *)
(*                                                                         *)
(* The tuning core: every operator of P25Radio, under the condition its    *)
(* callers establish, preserves RadioInv; those that message handling uses *)
(* leave a parked scout alone.  An operator that moves a receiver passes   *)
(* through records where that receiver alone breaks the invariant:         *)
(* InvExcept describes them.  Nothing of RxCtl is used in this part, which *)
(* is all that CallFollow_proofs takes.                                    *)
(*                                                                         *)
(* Messages: handling one preserves RadioInv, leaves a parked scout alone  *)
(* and does not touch the coordinator's own state, in either roaming mode. *)
(* There w ranges over the records the roaming modules build their state   *)
(* into; R is the type of the coordinator's own part.                      *)
(***************************************************************************)
EXTENDS RxCtl, TLAPS

ListensIfClaims(d, r) ==
    \A s \in Sites : d.cc[s] = r =>
        /\ CCCount[s] > 0
        /\ d.sys[r] = s
        /\ d.tuned[r] = <<s, d.idx[s]>>
        /\ r \notin d.idle
        /\ d.tgid[r] = NoTg

BoundIfListed(d, r) ==
    /\ r \in d.idle => d.tgid[r] = NoTg
    /\ r \in d.idle /\ HomeOf[r] # NoSite => d.sys[r] = HomeOf[r]
    /\ d.tgid[r] # NoTg => d.sys[r] = HomeOf[r]

InvExcept(d, r) ==
    /\ d \in Radio
    /\ CCIndexInRange(d)
    /\ \A q \in Receivers \ {r} : ListensIfClaims(d, q) /\ BoundIfListed(d, q)

NoClaims(d, r) == \A s \in Sites : d.cc[s] # r

NoOtherClaim(d, r, s) == \A t \in Sites : d.cc[t] = r => t = s

-----------------------------------------------------------------------------

(* RadioInv is what holds of every single receiver, plus the types. *)
LEMMA SplitInv ==
    ASSUME NEW d, NEW r \in Receivers
    PROVE  RadioInv(d) <=> /\ InvExcept(d, r)
                           /\ ListensIfClaims(d, r)
                           /\ BoundIfListed(d, r)
  BY DEF RadioInv, InvExcept, ClaimsListen, BoundWhereListed,
         ListensIfClaims, BoundIfListed

(* An idle receiver, or one in a call, claims no control channel:          *)
(* idle_rx() and tune_voice() have released it.                            *)
LEMMA IdleHasNoClaims ==
    ASSUME NEW d, RadioInv(d), NEW r \in Receivers,
           r \in d.idle \/ d.tgid[r] # NoTg
    PROVE  NoClaims(d, r)
  BY DEF RadioInv, ClaimsListen, NoClaims

(* A receiver claims the control channel of the site it is bound to, of no *)
(* other.                                                                  *)
LEMMA OwnSiteOnly ==
    ASSUME NEW d, RadioInv(d), NEW r \in Receivers, NEW s \in Sites, d.cc[s] = r
    PROVE  s = d.sys[r] /\ HasCC(d, r)
  BY DEF RadioInv, ClaimsListen, HasCC

(* The binding of a receiver is a site, never the absence of one. *)
LEMMA SysIsSite ==
    ASSUME NEW d \in Radio, NEW r \in Receivers
    PROVE  d.sys[r] \in Sites /\ d.sys[r] # NoSite
  BY RadioAssumption DEF Radio

(* release_cc(): afterwards r does not claim s. *)
LEMMA ReleaseCCInv ==
    ASSUME NEW d, RadioInv(d), NEW r \in Receivers, NEW s \in Sites
    PROVE  LET e == ReleaseCC(d, s, r) IN
           /\ RadioInv(e)
           /\ LeavesScoutAlone(d, e)
           /\ e.cc[s] # r
           /\ e.idle = d.idle /\ e.tgid = d.tgid /\ e.sys = d.sys
           /\ \A t \in Sites : e.cc[t] \in {d.cc[t], NoRx}
<1> DEFINE e == ReleaseCC(d, s, r)
<1>1. CASE d.cc[s] # r
  BY <1>1 DEF ReleaseCC, LeavesScoutAlone
<1>2. CASE d.cc[s] = r
  <2>1. /\ e \in Radio
        /\ e.cc = [d.cc EXCEPT ![s] = NoRx]
        /\ e.sys = d.sys /\ e.idle = d.idle /\ e.tuned = d.tuned
        /\ e.tgid = d.tgid /\ e.idx = d.idx
    BY <1>2 DEF ReleaseCC, RadioInv, Radio
  <2>2. d.cc \in [Sites -> Receivers \cup {NoRx}]
    BY DEF RadioInv, Radio
  <2> HIDE DEF e
  <2>3. CCIndexInRange(e)
    BY <2>1 DEF RadioInv, CCIndexInRange
  <2>4. ClaimsListen(e)
    BY <2>1, <2>2, RadioAssumption DEF RadioInv, ClaimsListen
  <2>5. BoundWhereListed(e)
    BY <2>1 DEF RadioInv, BoundWhereListed
  <2>6. LeavesScoutAlone(d, e)
    BY <2>1 DEF LeavesScoutAlone
  <2>7. e.cc[s] # r /\ \A t \in Sites : e.cc[t] \in {d.cc[t], NoRx}
    BY <2>1, <2>2, RadioAssumption
  <2> QED  BY <2>1, <2>3, <2>4, <2>5, <2>6, <2>7 DEF RadioInv, e
<1> QED  BY <1>1, <1>2

(* idle_rx() is called on receivers whose call is over. *)
LEMMA IdleRxInv ==
    ASSUME NEW d, NEW r \in Receivers, InvExcept(d, r), NoClaims(d, r),
           d.tgid[r] = NoTg,
           HomeOf[r] = NoSite \/ d.sys[r] = HomeOf[r]
    PROVE  LET e == IdleRx(d, r) IN
           /\ RadioInv(e)
           /\ LeavesScoutAlone(d, e)
           /\ e.idle = d.idle \cup {r} /\ e.cc = d.cc /\ e.tgid = d.tgid
<1> DEFINE e == IdleRx(d, r)
<1>0. ~ HasCC(d, r)
  BY SysIsSite DEF HasCC, NoClaims, InvExcept
<1>1. /\ e \in Radio
      /\ e.idle = d.idle \cup {r}
      /\ e.sys = d.sys /\ e.cc = d.cc /\ e.tuned = d.tuned
      /\ e.tgid = d.tgid /\ e.idx = d.idx
  BY <1>0 DEF IdleRx, InvExcept, Radio
<1> HIDE DEF e
<1>2. InvExcept(e, r)
  BY <1>1 DEF InvExcept, CCIndexInRange, ListensIfClaims, BoundIfListed
<1>3. ListensIfClaims(e, r) /\ BoundIfListed(e, r)
  BY <1>1 DEF NoClaims, ListensIfClaims, BoundIfListed
<1>4. LeavesScoutAlone(d, e)
  BY <1>1 DEF LeavesScoutAlone
<1> QED  BY <1>1, <1>2, <1>3, <1>4, SplitInv DEF e

(* tune_cc() of the frequency get_cc() offered. *)
LEMMA TuneCCInv ==
    ASSUME NEW d, NEW r \in Receivers, NEW s \in Sites, InvExcept(d, r),
           OffersCC(d, s, r),
           d.sys[r] = s, d.tgid[r] = NoTg, NoOtherClaim(d, r, s)
    PROVE  LET e == TuneCC(d, s, r) IN
           /\ RadioInv(e)
           /\ e.sys = d.sys
           /\ e.idle = d.idle \ {r}
           /\ e.cc = [d.cc EXCEPT ![s] = r]
           /\ e.tgid = d.tgid
<1> DEFINE e == TuneCC(d, s, r)
<1>1. /\ e.cc = [d.cc EXCEPT ![s] = r]
      /\ e.idle = d.idle \ {r}
      /\ e.tuned = [d.tuned EXCEPT ![r] = <<s, d.idx[s]>>]
      /\ e.sys = d.sys /\ e.tgid = d.tgid /\ e.idx = d.idx
      /\ e.retries = d.retries /\ e.own = d.own /\ e.vcr = d.vcr
      /\ e \in Radio
  BY DEF TuneCC, InvExcept, Radio, Channel
<1>2. /\ d.cc \in [Sites -> Receivers \cup {NoRx}]
      /\ d.tuned \in [Receivers -> Channel]
      /\ d.cc[s] \in {NoRx, r}
  BY DEF InvExcept, Radio, OffersCC
<1> HIDE DEF e
<1>3. ASSUME NEW q \in Receivers \ {r}
      PROVE  ListensIfClaims(e, q) /\ BoundIfListed(e, q)
  BY <1>1, <1>2 DEF InvExcept, ListensIfClaims, BoundIfListed
<1>4. ListensIfClaims(e, r) /\ BoundIfListed(e, r)
  BY <1>1, <1>2 DEF NoOtherClaim, ListensIfClaims, BoundIfListed, OffersCC
<1>5. CCIndexInRange(e)
  BY <1>1 DEF InvExcept, CCIndexInRange
<1> QED  BY <1>1, <1>3, <1>4, <1>5, SplitInv DEF InvExcept, e

(* The channel timeout of the receiver that monitors its site's CC; the    *)
(* hunt keeps the claim and moves idx and the tuning together.             *)
LEMMA TimeoutCCInv ==
    ASSUME NEW d, NEW r \in Receivers, RadioInv(d), HasCC(d, r)
    PROVE  RadioInv(TimeoutCC(d, r)) /\ LeavesScoutAlone(d, TimeoutCC(d, r))
<1> DEFINE s == d.sys[r]
           n == IF d.retries[s] + 1 >= CCTimeoutRetries
                THEN NextCC(d, s)
                ELSE [d EXCEPT !.retries[s] = @ + 1]
<1>0. s \in Sites
  BY DEF RadioInv, Radio
<1>1. /\ d.cc[s] = r /\ r \notin d.idle /\ d.tgid[r] = NoTg
      /\ \A t \in Sites : d.cc[t] = r => t = s
  BY <1>0 DEF HasCC, RadioInv, ClaimsListen
<1>2. /\ n \in Radio
      /\ n.cc = d.cc /\ n.sys = d.sys /\ n.idle = d.idle
      /\ n.tuned = d.tuned /\ n.tgid = d.tgid
      /\ \A t \in Sites \ {s} : n.idx[t] = d.idx[t]
      /\ n.idx[s] \in 1..CCCount[s]
  <2>0. /\ CCCount[s] \in Nat \ {0}
        /\ d.idx[s] \in 1..CCCount[s]
        /\ d.retries[s] \in Nat
    BY <1>0, <1>1, RadioAssumption DEF RadioInv, CCIndexInRange, Radio, ClaimsListen
  <2>1. CASE d.retries[s] + 1 >= CCTimeoutRetries
    <3> DEFINE v == IF d.idx[s] >= CCCount[s] THEN 1 ELSE d.idx[s] + 1
    <3>1. v \in 1..CCCount[s] /\ v \in Nat
      BY <2>0
    <3>2. n = [d EXCEPT !.retries[s] = 0, !.idx[s] = v]
      BY <2>1 DEF NextCC
    <3> HIDE DEF n, v, s
    <3> QED  BY <1>0, <3>1, <3>2 DEF RadioInv, Radio
  <2>2. CASE ~ (d.retries[s] + 1 >= CCTimeoutRetries)
    <3> DEFINE v == d.retries[s] + 1
    <3>1. v \in Nat
      BY <2>0
    <3>2. n = [d EXCEPT !.retries[s] = v]
      BY <2>2
    <3> HIDE DEF n, v, s
    <3> QED  BY <1>0, <2>0, <3>1, <3>2 DEF RadioInv, Radio
  <2> QED  BY <2>1, <2>2
<1>4. TimeoutCC(d, r) = TuneCC(n, s, r)
  BY DEF TimeoutCC
<1> HIDE DEF n, s
<1>5. InvExcept(n, r)
  <2>1. CCIndexInRange(n)
    BY <1>2 DEF RadioInv, CCIndexInRange
  <2>2. ASSUME NEW q \in Receivers \ {r}
        PROVE  ListensIfClaims(n, q) /\ BoundIfListed(n, q)
    BY <1>1, <1>2
       DEF RadioInv, ClaimsListen, BoundWhereListed, ListensIfClaims, BoundIfListed
  <2> QED  BY <1>2, <2>1, <2>2 DEF InvExcept
<1>6. CCCount[s] > 0
  BY <1>0, <1>1 DEF RadioInv, ClaimsListen
<1>7. OffersCC(n, s, r) /\ n.sys[r] = s /\ n.tgid[r] = NoTg
      /\ NoOtherClaim(n, r, s)
  BY <1>1, <1>2, <1>6 DEF OffersCC, NoOtherClaim, s
<1>8. /\ RadioInv(TuneCC(n, s, r))
      /\ TuneCC(n, s, r).sys = n.sys
      /\ TuneCC(n, s, r).idle = n.idle \ {r}
  <2> DEFINE e == TuneCC(n, s, r)
  <2>1. /\ RadioInv(e) /\ e.sys = n.sys /\ e.idle = n.idle \ {r}
        /\ e.cc = [n.cc EXCEPT ![s] = r] /\ e.tgid = n.tgid
    BY <1>0, <1>5, <1>7, TuneCCInv
  <2> QED  BY <2>1
<1> QED  BY <1>1, <1>2, <1>4, <1>8 DEF LeavesScoutAlone

-----------------------------------------------------------------------------
(* retarget() leaves r alone in breaking the invariant, and with no claim. *)
LEMMA RetargetInv ==
    ASSUME NEW d, NEW r \in Receivers, NEW s \in Sites, RadioInv(d)
    PROVE  LET e == Retarget(d, r, s) IN
           /\ InvExcept(e, r) /\ NoClaims(e, r)
           /\ e.sys = [d.sys EXCEPT ![r] = s]
           /\ e.tgid = [d.tgid EXCEPT ![r] = NoTg]
           /\ e.idle = d.idle
           /\ \A t \in Sites : e.cc[t] \in {d.cc[t], NoRx}
<1> DEFINE c == ReleaseCC(d, d.sys[r], r)
           e == Retarget(d, r, s)
<1>0. d \in Radio /\ d.sys[r] \in Sites
  BY DEF RadioInv, Radio
<1>1. /\ RadioInv(c) /\ c.cc[d.sys[r]] # r
      /\ c.idle = d.idle /\ c.tgid = d.tgid /\ c.sys = d.sys
      /\ \A t \in Sites : c.cc[t] \in {d.cc[t], NoRx}
  BY <1>0, ReleaseCCInv
<1>2. NoClaims(c, r)
  <2> HIDE DEF c
  <2> SUFFICES ASSUME NEW t \in Sites, c.cc[t] = r
               PROVE  FALSE
    BY DEF NoClaims
  <2>1. c.sys[r] = t
    BY <1>1 DEF RadioInv, ClaimsListen
  <2> QED  BY <1>1, <2>1
<1>3. /\ e \in Radio
      /\ e.cc = c.cc /\ e.idx = c.idx /\ e.idle = c.idle
      /\ e.sys = [c.sys EXCEPT ![r] = s]
      /\ e.tgid = [c.tgid EXCEPT ![r] = NoTg]
      /\ e.tuned = [c.tuned EXCEPT ![r] = Untuned]
  <2> HIDE DEF c
  <2>1. e = [c EXCEPT !.sys[r] = s, !.tgid[r] = NoTg, !.tuned[r] = Untuned]
    BY DEF Retarget, c
  <2> HIDE DEF e
  <2> QED  BY <1>1, <2>1, RadioAssumption DEF RadioInv, Radio, Untuned, Channel
<1>4. /\ c.sys \in [Receivers -> Sites] /\ c.tgid \in [Receivers -> Tgids \cup {NoTg}]
      /\ c.tuned \in [Receivers -> Channel]
  BY <1>1 DEF RadioInv, Radio
<1> HIDE DEF e, c
<1>5. ASSUME NEW q \in Receivers \ {r}
      PROVE  ListensIfClaims(e, q) /\ BoundIfListed(e, q)
  <2>1. ListensIfClaims(c, q) /\ BoundIfListed(c, q)
    BY <1>1, SplitInv
  <2>2. e.sys[q] = c.sys[q] /\ e.tgid[q] = c.tgid[q] /\ e.tuned[q] = c.tuned[q]
    BY <1>3, <1>4
  <2> QED  BY <1>3, <2>1, <2>2 DEF ListensIfClaims, BoundIfListed
<1>6. CCIndexInRange(e)
  BY <1>1, <1>3 DEF RadioInv, CCIndexInRange
<1>7. InvExcept(e, r)
  BY <1>3, <1>5, <1>6 DEF InvExcept
<1>8. NoClaims(e, r)
  BY <1>2, <1>3 DEF NoClaims
<1> QED  BY <1>1, <1>3, <1>7, <1>8 DEF e

(* A receiver moves to the control channel of site s.  One that is in a    *)
(* receivers list must get it: idle on a strange site, it would be given   *)
(* the control channel of the site whose list it is in.                    *)
LEMMA MoveInv ==
    ASSUME NEW d, NEW r \in Receivers, NEW s \in Sites, RadioInv(d),
           HomeOf[r] = NoSite \/ OffersCC(Retarget(d, r, s), s, r)
    PROVE  LET e == TuneCC(Retarget(d, r, s), s, r) IN
           /\ RadioInv(e)
           /\ e.sys = [d.sys EXCEPT ![r] = s]
           /\ e.tgid = [d.tgid EXCEPT ![r] = NoTg]
           /\ e.idle \ {r} = d.idle \ {r}
           /\ HomeOf[r] # NoSite => r \notin e.idle
<1> DEFINE m == Retarget(d, r, s)
           e == TuneCC(m, s, r)
<1>1. /\ InvExcept(m, r) /\ NoClaims(m, r)
      /\ m.sys = [d.sys EXCEPT ![r] = s]
      /\ m.tgid = [d.tgid EXCEPT ![r] = NoTg]
      /\ m.idle = d.idle
  BY RetargetInv
<1>2. d.sys \in [Receivers -> Sites] /\ d.tgid \in [Receivers -> Tgids \cup {NoTg}]
  BY DEF RadioInv, Radio
<1> HIDE DEF m
<1>3. m.sys[r] = s /\ m.tgid[r] = NoTg /\ NoOtherClaim(m, r, s)
  BY <1>1, <1>2 DEF NoClaims, NoOtherClaim
<1>4. CASE OffersCC(m, s, r)
  <2>1. /\ RadioInv(e) /\ e.sys = m.sys /\ e.idle = m.idle \ {r}
        /\ e.cc = [m.cc EXCEPT ![s] = r] /\ e.tgid = m.tgid
    <3>1. InvExcept(m, r)
      BY <1>1
    <3> QED  BY <1>3, <1>4, <3>1, TuneCCInv
  <2> QED  BY <1>1, <2>1 DEF m
<1>5. CASE ~ OffersCC(m, s, r)
  <2>1. e = IdleRx(m, r)
    BY <1>5 DEF TuneCC
  <2>2. HomeOf[r] = NoSite
    BY <1>5 DEF m
  <2> HIDE DEF e
  <2>3. /\ RadioInv(e)
        /\ LeavesScoutAlone(m, e)
        /\ e.idle = m.idle \cup {r} /\ e.cc = m.cc /\ e.tgid = m.tgid
    BY <1>1, <1>3, <2>1, <2>2, IdleRxInv
  <2> QED  BY <1>1, <2>2, <2>3 DEF LeavesScoutAlone, e, m
<1> QED  BY <1>4, <1>5

-----------------------------------------------------------------------------
(* The end of a call.                                                      *)

(* The part of expire_talkgroup() that ends the call without touching the  *)
(* tuning.                                                                 *)
LEMMA DropCallInv ==
    ASSUME NEW d, NEW r \in Receivers, RadioInv(d), d.tgid[r] # NoTg
    PROVE  LET e == DropCall(d, r) IN
           /\ RadioInv(e)
           /\ e.sys = d.sys /\ e.idle = d.idle /\ e.cc = d.cc
           /\ e.tgid = [d.tgid EXCEPT ![r] = NoTg]
           /\ r \notin e.idle
           /\ NoClaims(e, r)
           /\ e.sys[r] = HomeOf[r]
<1> DEFINE e == DropCall(d, r)
<1>1. NoClaims(d, r) /\ r \notin d.idle /\ d.sys[r] = HomeOf[r]
  BY IdleHasNoClaims DEF RadioInv, BoundWhereListed
<1>2. /\ d \in Radio /\ d.sys[r] \in Sites /\ d.tgid[r] \in Tgids
      /\ d.tgid \in [Receivers -> Tgids \cup {NoTg}]
  BY DEF RadioInv, Radio
<1>3. /\ e \in Radio
      /\ e.sys = d.sys /\ e.idle = d.idle /\ e.cc = d.cc
      /\ e.idx = d.idx /\ e.tuned = d.tuned
      /\ e.tgid = [d.tgid EXCEPT ![r] = NoTg]
  BY <1>2, RadioAssumption DEF DropCall, Radio
<1> HIDE DEF e
<1>4. CCIndexInRange(e) /\ ClaimsListen(e)
  BY <1>1, <1>2, <1>3 DEF RadioInv, CCIndexInRange, ClaimsListen, NoClaims
<1>5. BoundWhereListed(e)
  BY <1>1, <1>2, <1>3 DEF RadioInv, BoundWhereListed
<1>6. NoClaims(e, r)
  BY <1>1, <1>3 DEF NoClaims
<1> QED  BY <1>1, <1>3, <1>4, <1>5, <1>6 DEF RadioInv, e

(* expire_talkgroup() goes back to the control channel if it is offered and*)
(* idles the receiver if it is not.                                        *)
LEMMA ExpireTalkgroupInv ==
    ASSUME NEW d, NEW r \in Receivers, RadioInv(d)
    PROVE  /\ RadioInv(ExpireTalkgroup(d, r))
           /\ LeavesScoutAlone(d, ExpireTalkgroup(d, r))
<1>1. CASE d.tgid[r] = NoTg
  BY <1>1 DEF ExpireTalkgroup, LeavesScoutAlone
<1>2. CASE d.tgid[r] # NoTg
  <2> DEFINE c == DropCall(d, r)
  <2>1. /\ RadioInv(c) /\ NoClaims(c, r)
        /\ c.sys = d.sys /\ c.idle = d.idle
        /\ c.tgid = [d.tgid EXCEPT ![r] = NoTg]
        /\ c.sys[r] = HomeOf[r]
    BY <1>2, DropCallInv
  <2>2. c.tgid[r] = NoTg
    BY <2>1 DEF RadioInv, Radio
  <2>3. ExpireTalkgroup(d, r) = IdleRx(c, r)
    BY <1>2 DEF ExpireTalkgroup
  <2> HIDE DEF c
  <2>4. InvExcept(c, r)
    BY <2>1, SplitInv
  <2>5. RadioInv(IdleRx(c, r)) /\ LeavesScoutAlone(c, IdleRx(c, r))
    BY <2>1, <2>2, <2>4, IdleRxInv
  <2> QED  BY <2>1, <2>3, <2>5 DEF LeavesScoutAlone
<1> QED  BY <1>1, <1>2

-----------------------------------------------------------------------------
(* The start of a call.                                                    *)

(* tune_voice() gives up the control channel before it tunes away. *)
LEMMA TuneVoiceInv ==
    ASSUME NEW d, NEW r \in Receivers, NEW tg \in Tgids, NEW tunable \in BOOLEAN,
           RadioInv(d), d.sys[r] = HomeOf[r], d.tgid[r] = NoTg
    PROVE  LET e == TuneVoice(d, r, tg, tunable) IN
           RadioInv(e) /\ LeavesScoutAlone(d, e)
<1> DEFINE s == d.sys[r]
           i == [d EXCEPT !.idle = @ \ {r}]
           c == IF r \in d.idle THEN i ELSE ReleaseCC(d, s, r)
           e == TuneVoice(d, r, tg, tunable)
<1>0. d \in Radio /\ s \in Sites /\ HomeOf[r] # NoSite
  BY SysIsSite, RadioAssumption DEF RadioInv, Radio
<1>1. /\ RadioInv(c)
      /\ c.sys = d.sys /\ c.tgid = d.tgid
      /\ r \notin c.idle /\ NoClaims(c, r)
      /\ c.idle \ {r} = d.idle \ {r}
  <2>1. CASE r \in d.idle
    <3>1. NoClaims(d, r)
      BY <2>1, IdleHasNoClaims
    <3>2. /\ i \in Radio /\ i.cc = d.cc /\ i.idx = d.idx /\ i.tuned = d.tuned
          /\ i.sys = d.sys /\ i.tgid = d.tgid /\ i.idle = d.idle \ {r}
      BY <1>0 DEF Radio
    <3>3. c = i
      BY <2>1
    <3> HIDE DEF i, c
    <3>4. CCIndexInRange(i) /\ ClaimsListen(i) /\ BoundWhereListed(i) /\ NoClaims(i, r)
      BY <3>1, <3>2
         DEF RadioInv, CCIndexInRange, ClaimsListen, BoundWhereListed, NoClaims
    <3> QED  BY <3>2, <3>3, <3>4 DEF RadioInv
  <2>2. CASE r \notin d.idle
    <3>1. c = ReleaseCC(d, s, r)
      BY <2>2
    <3> HIDE DEF c, s
    <3>2. /\ RadioInv(c) /\ c.cc[s] # r
          /\ c.idle = d.idle /\ c.tgid = d.tgid /\ c.sys = d.sys
      BY <1>0, <3>1, ReleaseCCInv
    <3>3. NoClaims(c, r)
      <4> SUFFICES ASSUME NEW t \in Sites, c.cc[t] = r
                   PROVE  FALSE
        BY DEF NoClaims
      <4>1. c.sys[r] = t
        BY <3>2 DEF RadioInv, ClaimsListen
      <4> QED  BY <3>2, <4>1 DEF s
    <3> QED  BY <2>2, <3>2, <3>3
  <2> QED  BY <2>1, <2>2
<1>2. CASE ~ tunable
  <2>1. e = c
    BY <1>2 DEF TuneVoice
  <2> HIDE DEF c, e
  <2> QED  BY <1>0, <1>1, <2>1 DEF LeavesScoutAlone, e
<1>3. CASE tunable
  <2>1. e = [c EXCEPT !.tuned[r] = <<s, 0>>, !.vcr[r] = 0, !.tgid[r] = tg,
                      !.own[s][tg] = r]
    BY <1>3 DEF TuneVoice
  <2>2. /\ c \in Radio /\ s = HomeOf[r] /\ c.sys[r] = s
        /\ c.tgid \in [Receivers -> Tgids \cup {NoTg}]
        /\ c.tuned \in [Receivers -> Channel]
    BY <1>1 DEF RadioInv, Radio
  <2> HIDE DEF c, e, s
  <2>3. <<s, 0>> \in Channel
    BY <1>0 DEF Channel
  <2>4. /\ e \in Radio
        /\ e.cc = c.cc /\ e.idx = c.idx /\ e.sys = c.sys /\ e.idle = c.idle
        /\ e.tuned = [c.tuned EXCEPT ![r] = <<s, 0>>]
        /\ e.tgid = [c.tgid EXCEPT ![r] = tg]
    BY <1>0, <2>1, <2>2, <2>3 DEF Radio
  <2>5. CCIndexInRange(e)
    BY <1>1, <2>4 DEF RadioInv, CCIndexInRange
  <2>6. ClaimsListen(e)
    <3> SUFFICES ASSUME NEW t \in Sites, NEW q \in Receivers, e.cc[t] = q
                 PROVE  /\ CCCount[t] > 0
                        /\ e.sys[q] = t
                        /\ e.tuned[q] = <<t, e.idx[t]>>
                        /\ q \notin e.idle
                        /\ e.tgid[q] = NoTg
      BY DEF ClaimsListen
    <3>1. c.cc[t] = q /\ q # r
      BY <1>1, <2>4 DEF NoClaims
    <3>2. /\ CCCount[t] > 0 /\ c.sys[q] = t /\ c.tuned[q] = <<t, c.idx[t]>>
          /\ q \notin c.idle /\ c.tgid[q] = NoTg
      BY <1>1, <3>1 DEF RadioInv, ClaimsListen
    <3>3. e.tuned[q] = c.tuned[q] /\ e.tgid[q] = c.tgid[q]
      BY <2>2, <2>4, <3>1
    <3> QED  BY <2>4, <3>2, <3>3
  <2>7. BoundWhereListed(e)
    BY <1>1, <2>2, <2>4 DEF RadioInv, BoundWhereListed
  <2>8. LeavesScoutAlone(d, e)
    BY <1>0, <1>1, <2>4 DEF LeavesScoutAlone
  <2> QED  BY <2>4, <2>5, <2>6, <2>7, <2>8 DEF RadioInv, e
<1> QED  BY <1>2, <1>3

(* A receiver that takes a granted call, or leaves one for it. *)
LEMMA FollowInv ==
    ASSUME NEW d, NEW r \in Receivers, NEW tg \in Tgids, NEW tunable \in BOOLEAN,
           RadioInv(d), d.sys[r] = HomeOf[r]
    PROVE  LET e == Follow(d, r, tg, tunable) IN
           RadioInv(e) /\ LeavesScoutAlone(d, e)
<1>1. CASE d.tgid[r] = NoTg
  BY <1>1, TuneVoiceInv DEF Follow
<1>2. CASE d.tgid[r] # NoTg
  <2> DEFINE c == DropCall(d, r)
             e == TuneVoice(c, r, tg, tunable)
  <2>1. /\ RadioInv(c) /\ c.sys = d.sys /\ c.idle = d.idle /\ c.cc = d.cc
        /\ c.tgid = [d.tgid EXCEPT ![r] = NoTg]
        /\ r \notin c.idle
        /\ NoClaims(c, r)
        /\ c.sys[r] = HomeOf[r]
    BY <1>2, DropCallInv
  <2>2. c.tgid[r] = NoTg
    BY <2>1 DEF RadioInv, Radio
  <2> HIDE DEF c
  <2>3. RadioInv(e) /\ LeavesScoutAlone(c, e)
    BY <2>1, <2>2, TuneVoiceInv
  <2>4. Follow(d, r, tg, tunable) = e
    BY <1>2 DEF Follow, c
  <2> QED  BY <2>1, <2>3, <2>4 DEF LeavesScoutAlone
<1> QED  BY <1>1, <1>2

(* scan_for_talkgroups() of all receivers in the site's list: each takes a *)
(* call or stays as it is.                                                 *)
LEMMA ScanForTalkgroupsInv ==
    ASSUME NEW d, RadioInv(d), NEW s \in Sites, NEW tg \in Tgids,
           NEW e \in ScanForTalkgroups(d, s, tg)
    PROVE  RadioInv(e) /\ LeavesScoutAlone(d, e)
<1>1. CASE e = d
  BY <1>1 DEF LeavesScoutAlone
<1>2. CASE e # d
  <2>1. PICK p \in {r \in Receivers : CanTake(d, r, s, tg)} \X BOOLEAN :
            e = Follow(d, p[1], tg, p[2])
    BY <1>2 DEF ScanForTalkgroups
  <2>2. p[1] \in Receivers /\ p[2] \in BOOLEAN /\ d.sys[p[1]] = HomeOf[p[1]]
    BY <2>1 DEF CanTake
  <2> QED  BY <2>1, <2>2, FollowInv
<1> QED  BY <1>1, <1>2

-----------------------------------------------------------------------------
(* Reassignment: a receiver that is assigned was idle in a list, hence     *)
(* bound to the site of that list.                                         *)

(* check_cc_assignments() preserves RadioInv and leaves a receiver that is *)
(* in no list alone.                                                       *)
LEMMA CheckCCAssignmentsInv ==
    ASSUME NEW d, RadioInv(d)
    PROVE  LET e == CheckCCAssignments(d) IN
           RadioInv(e) /\ LeavesScoutAlone(d, e)
<1> DEFINE some(s) == \E r \in Receivers : Assigns(d, s, r)
           the(s)  == CHOOSE r \in Receivers : Assigns(d, s, r)
           e == CheckCCAssignments(d)
<1>1. /\ d.cc \in [Sites -> Receivers \cup {NoRx}]
      /\ d.tuned \in [Receivers -> Channel]
      /\ d.idx \in [Sites -> Nat]
      /\ d.idle \subseteq Receivers
  BY DEF RadioInv, Radio
<1>2. /\ e.cc = [s \in Sites |-> IF some(s) THEN the(s) ELSE d.cc[s]]
      /\ e.idle = {r \in d.idle : ~ \E s \in Sites : Assigns(d, s, r)}
      /\ e.tuned = [r \in Receivers |-> IF \E s \in Sites : Assigns(d, s, r)
                                        THEN <<HomeOf[r], d.idx[HomeOf[r]]>>
                                        ELSE d.tuned[r]]
      /\ e.sys = d.sys /\ e.tgid = d.tgid /\ e.idx = d.idx
      /\ e.retries = d.retries /\ e.own = d.own /\ e.vcr = d.vcr
      /\ e = [d EXCEPT !.cc = e.cc, !.idle = e.idle, !.tuned = e.tuned]
  BY DEF CheckCCAssignments, RadioInv, Radio
<1>3. ASSUME NEW s \in Sites, some(s)
      PROVE  the(s) \in Receivers /\ Assigns(d, s, the(s))
  BY <1>3
<1>4. ASSUME NEW s \in Sites, NEW r \in Receivers, Assigns(d, s, r)
      PROVE  /\ HomeOf[r] = s /\ r \in d.idle /\ CCCount[s] > 0
             /\ d.sys[r] = s /\ d.tgid[r] = NoTg
  BY <1>4, RadioAssumption
     DEF Assigns, FirstIdle, RadioInv, BoundWhereListed
<1> HIDE DEF e, the, some
<1>5. e \in Radio
  <2>1. e.cc \in [Sites -> Receivers \cup {NoRx}]
    <3>1. ASSUME NEW s \in Sites
          PROVE  (IF some(s) THEN the(s) ELSE d.cc[s]) \in Receivers \cup {NoRx}
      BY <1>1, <1>3
    <3> QED  BY <1>2, <3>1
  <2>2. e.tuned \in [Receivers -> Channel]
    <3>1. ASSUME NEW r \in Receivers, NEW s \in Sites, Assigns(d, s, r)
          PROVE  <<HomeOf[r], d.idx[HomeOf[r]]>> \in Channel
      BY <1>1, <1>4, <3>1 DEF Channel
    <3>2. ASSUME NEW r \in Receivers
          PROVE  (IF \E s \in Sites : Assigns(d, s, r)
                  THEN <<HomeOf[r], d.idx[HomeOf[r]]>>
                  ELSE d.tuned[r]) \in Channel
      BY <1>1, <3>1
    <3> QED  BY <1>2, <3>2
  <2>3. e.idle \subseteq Receivers
    BY <1>1, <1>2
  <2> QED  BY <1>2, <2>1, <2>2, <2>3 DEF RadioInv, Radio
<1>6. CCIndexInRange(e)
  BY <1>2 DEF RadioInv, CCIndexInRange
<1>7. ClaimsListen(e)
  <2> SUFFICES ASSUME NEW s \in Sites, NEW r \in Receivers, e.cc[s] = r
               PROVE  /\ CCCount[s] > 0
                      /\ e.sys[r] = s
                      /\ e.tuned[r] = <<s, e.idx[s]>>
                      /\ r \notin e.idle
                      /\ e.tgid[r] = NoTg
    BY DEF ClaimsListen
  <2>1. CASE some(s)
    <3>1. Assigns(d, s, r)
      BY <1>2, <1>3, <2>1
    <3>2. HomeOf[r] = s /\ CCCount[s] > 0 /\ d.sys[r] = s /\ d.tgid[r] = NoTg
      BY <1>4, <3>1
    <3>3. e.tuned[r] = <<HomeOf[r], d.idx[HomeOf[r]]>>
      BY <1>2, <3>1
    <3>4. r \notin e.idle
      BY <1>2, <3>1
    <3> QED  BY <1>2, <3>2, <3>3, <3>4
  <2>2. CASE ~ some(s)
    <3>1. d.cc[s] = r
      BY <1>2, <2>2
    <3>2. /\ CCCount[s] > 0 /\ d.sys[r] = s /\ d.tuned[r] = <<s, d.idx[s]>>
          /\ r \notin d.idle /\ d.tgid[r] = NoTg
      BY <3>1 DEF RadioInv, ClaimsListen
    <3>3. \A q \in Sites : ~ Assigns(d, q, r)
      BY <1>4, <3>2
    <3> QED  BY <1>2, <3>2, <3>3
  <2> QED  BY <2>1, <2>2
<1>8. BoundWhereListed(e)
  BY <1>2 DEF RadioInv, BoundWhereListed
<1>9. LeavesScoutAlone(d, e)
  <2>1. ASSUME NEW r \in Receivers, HomeOf[r] = NoSite, NEW s \in Sites
        PROVE  ~ Assigns(d, s, r)
    BY <1>4, <2>1, RadioAssumption
  <2> QED  BY <1>2, <2>1 DEF LeavesScoutAlone
<1> QED  BY <1>5, <1>6, <1>7, <1>8, <1>9 DEF RadioInv, e

(* The state before rx_ctl.post_init(). *)
LEMMA ReceiversIdleInv ==
    ASSUME NEW start \in [Receivers -> Sites],
           \A r \in Receivers : HomeOf[r] # NoSite => start[r] = HomeOf[r]
    PROVE  /\ RadioInv(ReceiversIdle(start))
           /\ ReceiversIdle(start).sys = start
           /\ ReceiversIdle(start).idle = Receivers
<1> DEFINE e == ReceiversIdle(start)
<1>1. /\ e \in Radio
      /\ e.cc = [s \in Sites |-> NoRx]
      /\ e.idx = [s \in Sites |-> 1]
      /\ e.sys = start /\ e.idle = Receivers
      /\ e.tgid = [r \in Receivers |-> NoTg]
  BY DEF ReceiversIdle, Radio, Channel, Untuned
<1> HIDE DEF e
<1>2. CCIndexInRange(e)
  BY <1>1, RadioAssumption DEF CCIndexInRange
<1>3. ClaimsListen(e)
  BY <1>1, RadioAssumption DEF ClaimsListen
<1>4. BoundWhereListed(e)
  BY <1>1 DEF BoundWhereListed
<1> QED  BY <1>1, <1>2, <1>3, <1>4 DEF RadioInv, e

-----------------------------------------------------------------------------
(* Messages. *)

WorldOf(R) == [radio : Radio, sig : Signals, roam : R]

(* A saturating counter stays within its limit. *)
LEMMA AtMostType ==
    ASSUME NEW n \in Nat, NEW limit \in Nat
    PROVE  AtMost(n, limit) \in 0..limit
  BY DEF AtMost

(* The limit of the age of signalling is a number. *)
LEMMA MaxAgeType == MaxAge \in Nat
  BY RxCtlAssumption DEF MaxAge

(* A unit of time keeps the types of the measurements. *)
LEMMA OlderType ==
    ASSUME NEW x \in Signals
    PROVE  Older(x) \in Signals
<1> DEFINE age(s) == AtMost(x.age[s] + 1, MaxAge)
           boot == AtMost(x.boot + 1, Grace)
<1>1. boot \in Nat
  BY RxCtlAssumption DEF Signals, AtMost
<1>2. \A s \in Sites : age(s) \in Nat
  BY MaxAgeType DEF Signals, AtMost
<1>3. Older(x) = [x EXCEPT !.age = [s \in Sites |-> age(s)],
                           !.boot = boot, !.due = TRUE]
  BY DEF Older, Signals
<1> HIDE DEF age, boot
<1> QED  BY <1>1, <1>2, <1>3 DEF Signals

(* Both are used below: a change RadioInv does not look at, and a message  *)
(* that is dropped.                                                        *)
LEMMA CountersInv ==
    ASSUME NEW d, RadioInv(d), NEW e \in Radio,
           e.cc = d.cc, e.idx = d.idx, e.sys = d.sys, e.idle = d.idle,
           e.tuned = d.tuned, e.tgid = d.tgid
    PROVE  RadioInv(e) /\ LeavesScoutAlone(d, e)
  BY DEF RadioInv, CCIndexInRange, ClaimsListen, BoundWhereListed, LeavesScoutAlone

(* A message that is ignored changes nothing. *)
LEMMA SameInv ==
    ASSUME NEW d, RadioInv(d)
    PROVE  RadioInv(d) /\ LeavesScoutAlone(d, d)
  BY DEF LeavesScoutAlone

(* Steps that leave a claimless scout alone compose. *)
LEMMA LeavesScoutAloneTrans ==
    ASSUME NEW d, NEW c, NEW e, LeavesScoutAlone(d, c), LeavesScoutAlone(c, e)
    PROVE  LeavesScoutAlone(d, e)
  BY DEF LeavesScoutAlone

(* A handler either does not idle anyone or ends with the reassignment. *)
Reassigned(d, e) ==
    \/ e.idle = d.idle
    \/ \E c \in Radio : /\ RadioInv(c) /\ LeavesScoutAlone(d, c)
                        /\ e = CheckCCAssignments(c)

(* A channel timeout: hunt on the control channel, or end a call that is   *)
(* not heard.                                                              *)
LEMMA TimeoutMessageInv ==
    ASSUME NEW d, RadioInv(d), NEW r \in Receivers
    PROVE  LET e == TimeoutMessage(d, r) IN
           RadioInv(e) /\ LeavesScoutAlone(d, e)
<1> DEFINE c == [d EXCEPT !.vcr[r] = @ + 1]
<1>1. CASE d.tgid[r] = NoTg /\ HasCC(d, r)
  BY <1>1, TimeoutCCInv DEF TimeoutMessage
<1>2. CASE d.tgid[r] = NoTg /\ ~ HasCC(d, r)
  BY <1>2, SameInv DEF TimeoutMessage
<1>3. CASE d.tgid[r] # NoTg
  <2>1. /\ c \in Radio
        /\ c.cc = d.cc /\ c.idx = d.idx /\ c.sys = d.sys /\ c.idle = d.idle
        /\ c.tuned = d.tuned /\ c.tgid = d.tgid
    <3> DEFINE v == d.vcr[r] + 1
    <3>1. d \in Radio /\ v \in Nat /\ c = [d EXCEPT !.vcr[r] = v]
      BY DEF RadioInv, Radio
    <3> HIDE DEF c, v
    <3> QED  BY <3>1 DEF Radio
  <2>2. TimeoutMessage(d, r) = c \/ TimeoutMessage(d, r) = ExpireTalkgroup(c, r)
    BY <1>3 DEF TimeoutMessage
  <2> HIDE DEF c
  <2>3. RadioInv(c) /\ LeavesScoutAlone(d, c)
    BY <2>1, CountersInv
  <2>4. RadioInv(ExpireTalkgroup(c, r)) /\ LeavesScoutAlone(c, ExpireTalkgroup(c, r))
    BY <2>3, ExpireTalkgroupInv
  <2> QED  BY <2>2, <2>3, <2>4, LeavesScoutAloneTrans
<1> QED  BY <1>1, <1>2, <1>3

(* A sync report resets the hunt and changes no claim. *)
LEMMA SyncMessageInv ==
    ASSUME NEW d, RadioInv(d), NEW r \in Receivers
    PROVE  LET e == SyncMessage(d, r) IN
           RadioInv(e) /\ LeavesScoutAlone(d, e) /\ Reassigned(d, e)
<1> DEFINE e == SyncMessage(d, r)
<1>1. /\ e \in Radio
      /\ e.cc = d.cc /\ e.idx = d.idx /\ e.sys = d.sys /\ e.idle = d.idle
      /\ e.tuned = d.tuned /\ e.tgid = d.tgid
  <2>1. d \in Radio /\ d.sys[r] \in Sites
    BY DEF RadioInv, Radio
  <2>2. \/ e = d
        \/ e = [d EXCEPT !.retries[d.sys[r]] = 0]
        \/ e = [d EXCEPT !.vcr[r] = 0]
    BY DEF SyncMessage
  <2> HIDE DEF e
  <2>3. CASE e = d
    BY <2>1, <2>3
  <2>4. CASE e = [d EXCEPT !.retries[d.sys[r]] = 0]
    BY <2>1, <2>4 DEF Radio
  <2>5. CASE e = [d EXCEPT !.vcr[r] = 0]
    BY <2>1, <2>5 DEF Radio
  <2> QED  BY <2>2, <2>3, <2>4, <2>5
<1> HIDE DEF e
<1>2. RadioInv(e) /\ LeavesScoutAlone(d, e)
  BY <1>1, CountersInv
<1> QED  BY <1>1, <1>2 DEF Reassigned, e

(* The reassignment that most messages end with. *)
LEMMA ThenCheckInv ==
    ASSUME NEW d, NEW c, RadioInv(c), LeavesScoutAlone(d, c)
    PROVE  LET e == CheckCCAssignments(c) IN
           RadioInv(e) /\ LeavesScoutAlone(d, e) /\ Reassigned(d, e)
  BY CheckCCAssignmentsInv, LeavesScoutAloneTrans DEF RadioInv, Reassigned

(* A call end or encryption report of a receiver in a call. *)
LEMMA CallEventInv ==
    ASSUME NEW d, RadioInv(d), NEW r \in Receivers,
           NEW e \in {d, CheckCCAssignments(d),
                      CheckCCAssignments(ExpireTalkgroup(d, r))}
    PROVE  RadioInv(e) /\ LeavesScoutAlone(d, e) /\ Reassigned(d, e)
<1>1. CASE e = d
  BY <1>1, SameInv DEF Reassigned
<1>2. CASE e = CheckCCAssignments(d)
  BY <1>2, SameInv, ThenCheckInv
<1>3. CASE e = CheckCCAssignments(ExpireTalkgroup(d, r))
  BY <1>3, ExpireTalkgroupInv, ThenCheckInv
<1> QED  BY <1>1, <1>2, <1>3

-----------------------------------------------------------------------------

(* Decoded signalling, with the scan for calls it starts. *)
LEMMA SignalInv ==
    ASSUME NEW R, NEW w \in WorldOf(R), NEW m \in Message, RadioInv(w.radio),
           NEW e \in Signal(w, m)
    PROVE  /\ e \in WorldOf(R) /\ e.roam = w.roam
           /\ RadioInv(e.radio) /\ LeavesScoutAlone(w.radio, e.radio)
           /\ Reassigned(w.radio, e.radio)
<1> DEFINE s  == w.radio.sys[m.rx]
           w1 == [w EXCEPT !.sig.heard = @ \cup {s}, !.sig.age[s] = 0]
<1>1. s \in Sites
  BY DEF WorldOf, Message, Radio
<1>2. w1 \in WorldOf(R) /\ w1.radio = w.radio /\ w1.roam = w.roam
  BY <1>1 DEF WorldOf, Signals
<1>3. CASE m.tg = NoTg
  <2>1. e = w1
    BY <1>3 DEF Signal
  <2> QED  BY <1>2, <2>1, SameInv DEF Reassigned
<1>4. CASE m.tg # NoTg
  <2>0. m.tg \in Tgids
    BY <1>4 DEF Message
  <2>1. PICK d \in ScanForTalkgroups(w.radio, s, m.tg) :
            e = [w1 EXCEPT !.radio = CheckCCAssignments(d)]
    BY <1>4 DEF Signal
  <2> HIDE DEF s, w1
  <2>2. RadioInv(d) /\ LeavesScoutAlone(w.radio, d)
    BY <1>1, <2>0, <2>1, ScanForTalkgroupsInv
  <2> DEFINE c == CheckCCAssignments(d)
  <2>3. RadioInv(c) /\ LeavesScoutAlone(w.radio, c) /\ Reassigned(w.radio, c)
    BY <2>2, ThenCheckInv
  <2> HIDE DEF c
  <2>4. e = [w1 EXCEPT !.radio = c] /\ c \in Radio
    BY <2>1, <2>3 DEF c, RadioInv
  <2>5. e \in WorldOf(R) /\ e.radio = c /\ e.roam = w1.roam
    BY <1>2, <2>4 DEF WorldOf
  <2> QED  BY <1>2, <2>3, <2>5
<1> QED  BY <1>3, <1>4

(* process_qmsg() of one message of any kind, with the scan and the        *)
(* reassignment.                                                           *)
LEMMA DispatchInv ==
    ASSUME NEW R, NEW w \in WorldOf(R), NEW m \in Message, RadioInv(w.radio),
           NEW e \in Dispatch(w, m)
    PROVE  /\ e \in WorldOf(R) /\ e.roam = w.roam
           /\ RadioInv(e.radio) /\ LeavesScoutAlone(w.radio, e.radio)
           /\ Reassigned(w.radio, e.radio)
<1> DEFINE d == w.radio
<1>0. m.rx \in Receivers /\ m.kind \in {"signal", "timeout", "sync", "end", "info"}
  BY DEF Message
<1>1. ASSUME NEW c, e = [w EXCEPT !.radio = c],
             RadioInv(c), LeavesScoutAlone(d, c), Reassigned(d, c)
      PROVE  /\ e \in WorldOf(R) /\ e.roam = w.roam
             /\ RadioInv(e.radio) /\ LeavesScoutAlone(w.radio, e.radio)
             /\ Reassigned(w.radio, e.radio)
  <2>1. e \in WorldOf(R) /\ e.roam = w.roam /\ e.radio = c
    BY <1>1 DEF WorldOf, RadioInv
  <2> QED  BY <1>1, <2>1
<1>2. CASE m.kind = "signal"
  BY <1>2, SignalInv DEF Dispatch
<1>3. CASE m.kind = "timeout"
  <2> DEFINE c == CheckCCAssignments(TimeoutMessage(d, m.rx))
  <2>1. e = [w EXCEPT !.radio = c]
    BY <1>3 DEF Dispatch
  <2>2. RadioInv(c) /\ LeavesScoutAlone(d, c) /\ Reassigned(d, c)
    BY <1>0, TimeoutMessageInv, ThenCheckInv
  <2> QED  BY <1>1, <2>1, <2>2
<1>4. CASE m.kind = "sync"
  <2> DEFINE c == SyncMessage(d, m.rx)
  <2>1. e = [w EXCEPT !.radio = c]
    BY <1>4 DEF Dispatch
  <2>2. RadioInv(c) /\ LeavesScoutAlone(d, c) /\ Reassigned(d, c)
    BY <1>0, SyncMessageInv
  <2> QED  BY <1>1, <2>1, <2>2
<1>5. CASE m.kind \in {"end", "info"}
  <2>1. PICK c \in {d, CheckCCAssignments(d),
                    CheckCCAssignments(ExpireTalkgroup(d, m.rx))} :
            e = [w EXCEPT !.radio = c]
    BY <1>5 DEF Dispatch, EndMessage, InfoMessage
  <2>2. RadioInv(c) /\ LeavesScoutAlone(d, c) /\ Reassigned(d, c)
    BY <1>0, <2>1, CallEventInv
  <2> QED  BY <1>1, <2>1, <2>2
<1> QED  BY <1>0, <1>2, <1>3, <1>4, <1>5
=============================================================================
