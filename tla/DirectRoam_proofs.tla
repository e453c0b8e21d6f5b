------------------------- MODULE DirectRoam_proofs --------------------------
(***************************************************************************)
(* Theorems about single-dongle roaming, for any set of sites that all     *)
(* have a control channel, any timing constants, cooldowns and queue       *)
(* length.                                                                 *)
(*                                                                         *)
(* The inductive invariant adds to RadioInv what a cycle has booked (which *)
(* leg the receiver is bound to, what is still to come, when a cooldown    *)
(* may run) and on what evidence: a site that is called degraded, or whose *)
(* call is followed, has been heard.                                       *)
(***************************************************************************)
EXTENDS DirectRoam, RxCtl_proofs

CycleBooked(w) ==
    /\ w.roam.phase # "none" =>
          w.roam.home \in Sites /\ w.roam.target = w.radio.sys[Primary]
    /\ w.roam.phase = "cycle" =>
          /\ w.roam.home \in w.sig.heard
          /\ w.roam.target # w.roam.home => w.roam.home \in w.roam.cands
    /\ w.roam.phase = "cold" =>
          w.roam.target # w.roam.home /\ w.roam.home \notin w.roam.cands
    /\ w.roam.cool > 0 =>
          w.roam.phase = "none" /\ w.radio.sys[Primary] \in w.sig.heard

Evidence(w) ==
    /\ \A s \in Sites : w.sig.bad[s] > 0 => s \in w.sig.heard
    /\ w.radio.tgid[Primary] # NoTg => w.radio.sys[Primary] \in w.sig.heard

WorldInv(w) ==
    /\ w \in WorldOf(Roam)
    /\ RadioInv(w.radio)
    /\ CycleBooked(w)
    /\ Evidence(w)
    /\ Primary \notin w.radio.idle

IInv ==
    /\ WorldInv(World)
    /\ queue \in Seq(Message) /\ Len(queue) <= QueueMax
    /\ quiet \in 0..Cooldown /\ quiet + roam.cool >= Cooldown

(* There is one receiver, and it is in the list of a site. *)
LEMMA ReceiverFacts ==
    /\ Receivers = {Primary} /\ HomeOf[Primary] # NoSite
    /\ NoSite \notin Sites /\ NoRx \notin Receivers
  BY RadioAssumption, RxCtlAssumption, DirectAssumption

(* The receiver is always bound to a site. *)
LEMMA SysFacts ==
    ASSUME NEW w, WorldInv(w)
    PROVE  /\ w \in WorldOf(Roam) /\ w.radio \in Radio /\ w.roam \in Roam
           /\ w.sig \in Signals /\ w.radio.sys[Primary] \in Sites
  BY ReceiverFacts DEF WorldInv, WorldOf, Radio

(* No cooldown runs while a cycle does. *)
LEMMA RunningFacts ==
    ASSUME NEW w, WorldInv(w), w.roam.phase # "none"
    PROVE  w.roam.cool = 0 /\ w.roam.target = w.radio.sys[Primary]
<1>1. ~ (w.roam.cool > 0) /\ w.roam.target = w.radio.sys[Primary]
  BY DEF WorldInv, CycleBooked
<1>2. w.roam.cool \in 0..Cooldown
  BY SysFacts DEF Roam
<1> QED  BY <1>1, <1>2, DirectAssumption

-----------------------------------------------------------------------------
(* The legs of a cycle.                                                    *)

(* No other receiver can hold the control channel of the leg, so the       *)
(* receiver always gets it.                                                *)
LEMMA DirectRetargetInv ==
    ASSUME NoPlaceholders, NEW d, RadioInv(d), NEW s \in Sites
    PROVE  LET e == DirectRetarget(d, s) IN
           /\ RadioInv(e)
           /\ e.sys[Primary] = s /\ e.tgid[Primary] = NoTg
           /\ Primary \notin e.idle
<1> DEFINE m == Retarget(d, Primary, s)
           e == TuneCC(m, s, Primary)
<1>1. \A t \in Sites : m.cc[t] \in {d.cc[t], NoRx}
  BY ReceiverFacts, RetargetInv
<1>2. OffersCC(m, s, Primary)
  BY <1>1, ReceiverFacts DEF OffersCC, NoPlaceholders, RadioInv, Radio
<1>3. /\ RadioInv(e)
      /\ e.sys = [d.sys EXCEPT ![Primary] = s]
      /\ e.tgid = [d.tgid EXCEPT ![Primary] = NoTg]
      /\ HomeOf[Primary] # NoSite => Primary \notin e.idle
  BY <1>2, ReceiverFacts, MoveInv
<1> HIDE DEF e
<1> QED  BY <1>3, ReceiverFacts DEF RadioInv, Radio, DirectRetarget, e

(* Ending a cycle changes neither its count nor its cooldowns. *)
LEMMA ResetFacts ==
    ASSUME NEW r \in Roam
    PROVE  /\ Reset(r) \in Roam /\ Reset(r).phase = "none"
           /\ Reset(r).got = r.got /\ Reset(r).cool = r.cool
  BY DEF Reset, Roam

(* What a tick may do beyond preserving the invariant: the receiver ends   *)
(* up on the site the cycle began on or on a proven one, a cycle begins    *)
(* only outside the cooldown, and a cooldown starts in full.               *)
MovedWell(w, e) ==
    /\ e.radio.sys[Primary] # w.radio.sys[Primary] \/ w.roam.phase # "none" =>
         \/ e.roam.phase # "none"
         \/ e.radio.sys[Primary] = w.roam.home
         \/ ProvenGood([sig |-> e.sig], e.radio.sys[Primary], e.roam.got)
    /\ w.roam.phase = "none" /\ e.radio.sys[Primary] # w.radio.sys[Primary] =>
         w.roam.cool = 0
    /\ e.roam.cool \in {w.roam.cool, Cooldown}

(* What a cycle that is about to try its next leg has booked. *)
AboutToMove(w) ==
    /\ w \in WorldOf(Roam)
    /\ RadioInv(w.radio)
    /\ Evidence(w)
    /\ w.roam.phase # "none" /\ w.roam.cool = 0
    /\ w.roam.home \in Sites
    /\ w.roam.phase = "cycle" =>
         w.roam.home \in w.roam.cands /\ w.roam.home \in w.sig.heard
    /\ w.roam.phase = "cold" => w.roam.home \notin w.roam.cands

(* _direct_roam_next() and _direct_cold_next() with a candidate left. *)
LEMMA TryNextInv ==
    ASSUME NoPlaceholders, NEW w, AboutToMove(w), NEW s \in w.roam.cands,
           w.roam.phase = "cycle" => s \in NextLeg(w.roam)
    PROVE  LET e == TryNext(w, s) IN
           WorldInv(e) /\ e.roam.phase = w.roam.phase /\ e.roam.cool = w.roam.cool
<1> DEFINE d == DirectRetarget(w.radio, s)
           n == OpenLeg(w.roam, s)
           e == TryNext(w, s)
<1>0. w \in WorldOf(Roam) /\ w.roam \in Roam /\ s \in Sites
  BY DEF AboutToMove, WorldOf, Roam
<1>1. /\ RadioInv(d) /\ d.sys[Primary] = s /\ d.tgid[Primary] = NoTg
      /\ Primary \notin d.idle
  BY <1>0, DirectRetargetInv DEF AboutToMove
<1>2. /\ n \in Roam /\ n.target = s /\ n.cands = w.roam.cands \ {s}
      /\ n.phase = w.roam.phase /\ n.home = w.roam.home /\ n.cool = w.roam.cool
  <2>1. 0 \in 0..Window /\ 0 \in 0..MinTsbk
    BY RxCtlAssumption
  <2> QED  BY <1>0, <2>1 DEF OpenLeg, Roam
<1>3. e = [w EXCEPT !.radio = d, !.roam = n]
  BY DEF TryNext
<1> HIDE DEF d, n, e
<1>4. e \in WorldOf(Roam) /\ e.radio = d /\ e.roam = n /\ e.sig = w.sig
  BY <1>0, <1>1, <1>2, <1>3 DEF WorldOf, RadioInv
<1>5. Evidence(e)
  BY <1>1, <1>4 DEF AboutToMove, Evidence
<1>6. CycleBooked(e)
  BY <1>0, <1>1, <1>2, <1>4 DEF AboutToMove, CycleBooked, NextLeg
<1> QED  BY <1>1, <1>2, <1>4, <1>5, <1>6 DEF WorldInv, e

(* The next leg is always there to be popped. *)
LEMMA DirectRoamNextInv ==
    ASSUME NoPlaceholders, NEW w, AboutToMove(w), w.roam.phase = "cycle",
           NEW e \in DirectRoamNext(w)
    PROVE  WorldInv(e) /\ e.roam.phase = "cycle" /\ e.roam.cool = w.roam.cool
<1>1. PICK s \in NextLeg(w.roam) : e = TryNext(w, s)
  BY DEF DirectRoamNext
<1>2. s \in w.roam.cands
  BY <1>1 DEF NextLeg, AboutToMove
<1> QED  BY <1>1, <1>2, TryNextInv

(* A cycle that ends where the receiver is. *)
LEMMA EndCycleInv ==
    ASSUME NEW w, WorldInv(w), NEW n \in Roam, n.phase = "none",
           n.cool > 0 => w.radio.sys[Primary] \in w.sig.heard
    PROVE  LET e == [w EXCEPT !.roam = n] IN
           WorldInv(e) /\ e.radio = w.radio /\ e.sig = w.sig /\ e.roam = n
<1> DEFINE e == [w EXCEPT !.roam = n]
<1>1. e \in WorldOf(Roam) /\ e.radio = w.radio /\ e.sig = w.sig /\ e.roam = n
  BY DEF WorldInv, WorldOf
<1> HIDE DEF e
<1> QED  BY <1>1 DEF WorldInv, CycleBooked, Evidence, e

(* _evaluate_direct(): commit, recovery, the next leg or exhaustion. *)
LEMMA EvaluateDirectInv ==
    ASSUME NoPlaceholders, NEW w, WorldInv(w), w.roam.phase = "cycle",
           NEW e \in EvaluateDirect(w)
    PROVE  WorldInv(e) /\ MovedWell(w, e)
<1> DEFINE good == ProvenGood(w, w.roam.target, w.roam.got)
<1>0. /\ w \in WorldOf(Roam) /\ w.roam \in Roam /\ w.roam.cool = 0
      /\ w.roam.target = w.radio.sys[Primary]
  BY SysFacts, RunningFacts
<1>1. CASE good
  <2> DEFINE n == Reset(w.roam)
  <2>1. n \in Roam /\ n.phase = "none" /\ n.got = w.roam.got /\ n.cool = 0
    BY <1>0, ResetFacts
  <2>2. e = [w EXCEPT !.roam = n]
    BY <1>1 DEF EvaluateDirect
  <2> HIDE DEF n
  <2>3. WorldInv(e) /\ e.radio = w.radio /\ e.sig = w.sig /\ e.roam = n
    BY <2>1, <2>2, EndCycleInv
  <2>4. ProvenGood([sig |-> e.sig], e.radio.sys[Primary], e.roam.got)
    BY <1>0, <1>1, <2>1, <2>3 DEF ProvenGood
  <2> QED  BY <1>0, <2>1, <2>3, <2>4 DEF MovedWell
<1>2. CASE ~ good /\ w.roam.target # w.roam.home
  <2>1. e \in DirectRoamNext(w)
    BY <1>2 DEF EvaluateDirect
  <2>2. AboutToMove(w)
    BY <1>0, <1>2 DEF WorldInv, CycleBooked, AboutToMove
  <2> QED  BY <2>1, <2>2, DirectRoamNextInv DEF MovedWell
<1>3. CASE ~ good /\ w.roam.target = w.roam.home
  <2> DEFINE m == Reset(w.roam)
             n == [m EXCEPT !.cool = Cooldown]
  <2>1. m \in Roam /\ m.phase = "none"
    BY <1>0, ResetFacts
  <2>2. e = [w EXCEPT !.roam = n]
    BY <1>3 DEF EvaluateDirect
  <2> HIDE DEF m
  <2>3. n \in Roam /\ n.phase = "none" /\ n.cool = Cooldown
    BY <2>1, DirectAssumption DEF Roam
  <2> HIDE DEF n
  <2>4. w.radio.sys[Primary] \in w.sig.heard
    BY <1>0, <1>3 DEF WorldInv, CycleBooked
  <2>5. WorldInv(e) /\ e.radio = w.radio /\ e.sig = w.sig /\ e.roam = n
    BY <2>2, <2>3, <2>4, EndCycleInv
  <2> QED  BY <1>0, <1>3, <2>3, <2>5 DEF MovedWell
<1> QED  BY <1>1, <1>2, <1>3

(* _direct_cold_next(): the next site of the system, or back to the one    *)
(* the receiver started on.                                                *)
LEMMA DirectColdNextInv ==
    ASSUME NoPlaceholders, NEW w, AboutToMove(w), w.roam.phase = "cold",
           NEW e \in DirectColdNext(w)
    PROVE  /\ WorldInv(e) /\ e.roam.cool = w.roam.cool
           /\ e.roam.phase = "none" => e.radio.sys[Primary] = w.roam.home
           /\ w.roam.cands # {} => e.roam.phase = "cold"
<1>0. w \in WorldOf(Roam) /\ w.roam \in Roam /\ w.roam.home \in Sites
  BY DEF AboutToMove, WorldOf
<1>1. CASE w.roam.cands = {}
  <2> DEFINE d == DirectRetarget(w.radio, w.roam.home)
             m == Reset(w.roam)
             n == [m EXCEPT !.coldCool = ColdCooldown]
  <2>1. /\ RadioInv(d) /\ d.sys[Primary] = w.roam.home
        /\ d.tgid[Primary] = NoTg /\ Primary \notin d.idle
    BY <1>0, DirectRetargetInv DEF AboutToMove
  <2>2. m \in Roam /\ m.phase = "none" /\ m.cool = w.roam.cool
    BY <1>0, ResetFacts
  <2>3. e = [w EXCEPT !.radio = d, !.roam = n]
    BY <1>1 DEF DirectColdNext
  <2> HIDE DEF d, m
  <2>4. n \in Roam /\ n.phase = "none" /\ n.cool = w.roam.cool
    BY <2>2, DirectAssumption DEF Roam
  <2> HIDE DEF n
  <2>5. e \in WorldOf(Roam) /\ e.radio = d /\ e.roam = n /\ e.sig = w.sig
    BY <1>0, <2>1, <2>3, <2>4 DEF WorldOf, RadioInv
  <2>6. Evidence(e) /\ CycleBooked(e)
    BY <2>1, <2>4, <2>5 DEF AboutToMove, Evidence, CycleBooked
  <2> QED  BY <1>1, <2>1, <2>4, <2>5, <2>6 DEF WorldInv
<1>2. CASE w.roam.cands # {}
  <2>1. PICK s \in w.roam.cands : e = TryNext(w, s)
    BY <1>2 DEF DirectColdNext
  <2> QED  BY <2>1, TryNextInv
<1> QED  BY <1>1, <1>2

(* _evaluate_direct_cold(). *)
LEMMA EvaluateDirectColdInv ==
    ASSUME NoPlaceholders, NEW w, WorldInv(w), w.roam.phase = "cold",
           NEW e \in EvaluateDirectCold(w)
    PROVE  WorldInv(e) /\ MovedWell(w, e)
<1>0. /\ w \in WorldOf(Roam) /\ w.roam \in Roam /\ w.roam.cool = 0
      /\ w.roam.target = w.radio.sys[Primary]
  BY SysFacts, RunningFacts
<1>1. CASE ProvenGood(w, w.roam.target, w.roam.got)
  <2> DEFINE n == Reset(w.roam)
  <2>1. n \in Roam /\ n.phase = "none" /\ n.got = w.roam.got /\ n.cool = 0
    BY <1>0, ResetFacts
  <2>2. e = [w EXCEPT !.roam = n]
    BY <1>1 DEF EvaluateDirectCold
  <2> HIDE DEF n
  <2>3. WorldInv(e) /\ e.radio = w.radio /\ e.sig = w.sig /\ e.roam = n
    BY <2>1, <2>2, EndCycleInv
  <2>4. ProvenGood([sig |-> e.sig], e.radio.sys[Primary], e.roam.got)
    BY <1>0, <1>1, <2>1, <2>3 DEF ProvenGood
  <2> QED  BY <1>0, <2>1, <2>3, <2>4 DEF MovedWell
<1>2. CASE ~ ProvenGood(w, w.roam.target, w.roam.got)
  <2>1. e \in DirectColdNext(w)
    BY <1>2 DEF EvaluateDirectCold
  <2>2. AboutToMove(w)
    BY <1>0 DEF WorldInv, CycleBooked, AboutToMove
  <2> QED  BY <2>1, <2>2, DirectColdNextInv DEF MovedWell
<1> QED  BY <1>1, <1>2

(* _start_direct(): a cycle begins when there is a candidate besides home. *)
LEMMA StartDirectInv ==
    ASSUME NoPlaceholders, NEW w, WorldInv(w),
           w.roam.phase = "none", w.roam.cool = 0,
           NEW home, home = w.radio.sys[Primary],
           NEW cands \in ResolvedCandidates(w, home),
           NEW e \in StartDirect(w, home, cands)
    PROVE  WorldInv(e) /\ MovedWell(w, e)
<1> DEFINE v == [w EXCEPT !.roam.phase = "cycle", !.roam.home = home,
                          !.roam.cands = cands \cup {home}]
<1>0. /\ w \in WorldOf(Roam) /\ home \in Sites /\ RadioInv(w.radio) /\ Evidence(w)
  BY SysFacts DEF WorldInv
<1>1. CASE cands = {}
  BY <1>1 DEF StartDirect, MovedWell
<1>2. CASE cands # {}
  <2>1. home \in w.sig.heard /\ cands \subseteq Sites
    BY <1>0, <1>2, RxCtlAssumption DEF ResolvedCandidates
  <2>2. e \in DirectRoamNext(v)
    BY <1>2 DEF StartDirect
  <2>3. /\ v \in WorldOf(Roam) /\ v.radio = w.radio /\ v.sig = w.sig
        /\ v.roam.phase = "cycle" /\ v.roam.home = home /\ v.roam.cool = 0
        /\ v.roam.cands = cands \cup {home}
    BY <1>0, <2>1 DEF WorldOf, Roam
  <2> HIDE DEF v
  <2>4. AboutToMove(v)
    BY <1>0, <2>1, <2>3 DEF AboutToMove, Evidence
  <2> QED  BY <2>2, <2>3, <2>4, DirectRoamNextInv DEF MovedWell
<1> QED  BY <1>1, <1>2

(* _start_direct_cold(). *)
LEMMA StartDirectColdInv ==
    ASSUME NoPlaceholders, NEW w, WorldInv(w),
           w.roam.phase = "none", w.roam.cool = 0,
           NEW home, home = w.radio.sys[Primary],
           NEW e \in StartDirectCold(w, home)
    PROVE  WorldInv(e) /\ MovedWell(w, e)
<1> DEFINE cands == SameSystemCandidates(home)
           v == [w EXCEPT !.roam.phase = "cold", !.roam.home = home,
                          !.roam.cands = cands]
           n == [w.roam EXCEPT !.coldCool = ColdCooldown]
<1>0. /\ w \in WorldOf(Roam) /\ w.roam \in Roam /\ home \in Sites
      /\ RadioInv(w.radio) /\ Evidence(w)
  BY SysFacts DEF WorldInv
<1>1. CASE cands = {}
  <2>1. e = [w EXCEPT !.roam = n]
    BY <1>1, <1>0 DEF StartDirectCold, WorldOf
  <2>2. n \in Roam /\ n.phase = "none" /\ n.cool = 0
    BY <1>0, DirectAssumption DEF Roam
  <2> HIDE DEF n, cands
  <2>3. WorldInv(e) /\ e.radio = w.radio /\ e.roam = n
    BY <2>1, <2>2, EndCycleInv
  <2> QED  BY <2>2, <2>3 DEF MovedWell
<1>2. CASE cands # {}
  <2>1. e \in DirectColdNext(v)
    BY <1>2 DEF StartDirectCold
  <2>2. cands \subseteq Sites /\ home \notin cands
    BY DEF SameSystemCandidates
  <2>3. /\ v \in WorldOf(Roam) /\ v.radio = w.radio /\ v.sig = w.sig
        /\ v.roam.phase = "cold" /\ v.roam.home = home /\ v.roam.cool = 0
        /\ v.roam.cands = cands
    BY <1>0, <2>2 DEF WorldOf, Roam
  <2> HIDE DEF v, cands
  <2>4. AboutToMove(v)
    BY <1>0, <2>2, <2>3 DEF AboutToMove, Evidence
  <2>5. WorldInv(e) /\ e.roam.cool = 0 /\ e.roam.phase = "cold"
    BY <1>2, <2>1, <2>3, <2>4, DirectColdNextInv
  <2> QED  BY <2>5 DEF MovedWell
<1> QED  BY <1>1, <1>2

(* The tick between cycles.  A cooldown runs only where the receiver has   *)
(* been heard, so a cold start never breaks it.                            *)
LEMMA TriggerDirectInv ==
    ASSUME NoPlaceholders, NEW w, WorldInv(w), w.roam.phase = "none",
           NEW e \in TriggerDirect(w)
    PROVE  WorldInv(e) /\ MovedWell(w, e)
<1> DEFINE home == w.radio.sys[Primary]
           cold == IsColdStart(w, home)
           starts == w.roam.cool = 0 /\ IsDegraded(w, home)
<1>0. w.roam \in Roam
  BY SysFacts
<1>1. CASE e = w
  BY <1>1 DEF MovedWell
<1>2. CASE cold /\ e # w
  <2>1. e \in StartDirectCold(w, home)
    BY <1>2 DEF TriggerDirect
  <2>2. ~ (w.roam.cool > 0)
    BY <1>2 DEF WorldInv, CycleBooked, IsColdStart
  <2>3. w.roam.cool = 0
    BY <1>0, <2>2, DirectAssumption DEF Roam
  <2> QED  BY <2>1, <2>3, StartDirectColdInv
<1>3. CASE ~ cold /\ e # w
  <2>1. starts /\ \E c \in ResolvedCandidates(w, home) : e \in StartDirect(w, home, c)
    BY <1>3 DEF TriggerDirect
  <2> QED  BY <2>1, StartDirectInv
<1> QED  BY <1>1, <1>2, <1>3

(* The tick in either state of the coordinator. *)
LEMMA RoamTickDirectInv ==
    ASSUME NoPlaceholders, NEW w, WorldInv(w), NEW e \in RoamTickDirect(w)
    PROVE  WorldInv(e) /\ MovedWell(w, e)
<1>0. w.roam.phase \in {"none", "cycle", "cold"} /\ w.roam.age \in Nat
  BY SysFacts, RxCtlAssumption DEF Roam
<1>1. CASE w.roam.phase = "none"
  BY <1>1, TriggerDirectInv DEF RoamTickDirect
<1>2. CASE w.roam.phase # "none" /\ w.roam.age < Window
  <2>1. e = w
    BY <1>0, <1>2, RxCtlAssumption DEF RoamTickDirect
  <2> QED  BY <1>2, <2>1 DEF MovedWell
<1>3. CASE w.roam.phase = "cold" /\ w.roam.age >= Window
  <2>1. e \in EvaluateDirectCold(w)
    BY <1>0, <1>3, RxCtlAssumption DEF RoamTickDirect
  <2> QED  BY <1>3, <2>1, EvaluateDirectColdInv
<1>4. CASE w.roam.phase = "cycle" /\ w.roam.age >= Window
  <2>1. e \in EvaluateDirect(w)
    BY <1>0, <1>4, RxCtlAssumption DEF RoamTickDirect
  <2> QED  BY <1>4, <2>1, EvaluateDirectInv
<1> QED  BY <1>0, <1>1, <1>2, <1>3, <1>4, RxCtlAssumption

(* The reading of voice quality counts against a site only while a call is *)
(* followed there, which takes having heard it.                            *)
LEMMA CheckVoiceDegradedInv ==
    ASSUME NEW w, WorldInv(w), NEW e \in CheckVoiceDegraded(w)
    PROVE  WorldInv(e) /\ e.radio = w.radio /\ e.roam = w.roam
<1> DEFINE s == w.radio.sys[Primary]
<1>1. s \in Sites /\ w.sig.bad \in [Sites -> Nat] /\ w \in WorldOf(Roam)
  BY SysFacts DEF Signals
<1>2. PICK n \in Nat :
          /\ e = [w EXCEPT !.sig.bad[s] = n]
          /\ n = 0 \/ w.radio.tgid[Primary] # NoTg
  BY <1>1, RxCtlAssumption DEF CheckVoiceDegraded, AtMost
<1>3. n > 0 => s \in w.sig.heard
  BY <1>2 DEF WorldInv, Evidence
<1> HIDE DEF s
<1>4. /\ e \in WorldOf(Roam) /\ e.radio = w.radio /\ e.roam = w.roam
      /\ e.sig.heard = w.sig.heard /\ e.sig.bad = [w.sig.bad EXCEPT ![s] = n]
  BY <1>1, <1>2 DEF WorldOf, Signals
<1>5. Evidence(e)
  BY <1>1, <1>3, <1>4 DEF WorldInv, Evidence
<1> QED  BY <1>4, <1>5 DEF WorldInv, CycleBooked

(* roam_tick() as a whole preserves the invariant and moves the receiver   *)
(* only as MovedWell allows.                                               *)
LEMMA RoamTickInv ==
    ASSUME NoPlaceholders, NEW w, WorldInv(w), NEW e \in RoamTick(w)
    PROVE  WorldInv(e) /\ MovedWell(w, e)
<1>1. CASE ~ w.sig.due
  <2>1. e = w
    BY <1>1 DEF RoamTick
  <2> QED  BY <2>1 DEF MovedWell
<1>2. CASE w.sig.due
  <2> DEFINE u == [w EXCEPT !.sig.due = FALSE]
  <2>1. /\ u \in WorldOf(Roam) /\ u.radio = w.radio /\ u.roam = w.roam
        /\ u.sig.heard = w.sig.heard /\ u.sig.bad = w.sig.bad
    <3> DEFINE x == [w.sig EXCEPT !.due = FALSE]
    <3>1. x \in Signals /\ x.heard = w.sig.heard /\ x.bad = w.sig.bad
      BY SysFacts DEF Signals
    <3>2. u = [w EXCEPT !.sig = x] /\ w \in WorldOf(Roam)
      BY SysFacts DEF WorldOf
    <3> HIDE DEF u, x
    <3> QED  BY <3>1, <3>2 DEF WorldOf
  <2>2. PICK v \in CheckVoiceDegraded(u) : e \in RoamTickDirect(v)
    BY <1>2 DEF RoamTick
  <2> HIDE DEF u
  <2>3. WorldInv(u)
    BY <2>1 DEF WorldInv, CycleBooked, Evidence
  <2>4. WorldInv(v) /\ v.radio = w.radio /\ v.roam = w.roam
    BY <2>1, <2>2, <2>3, CheckVoiceDegradedInv
  <2>5. WorldInv(e) /\ MovedWell(v, e)
    BY <2>2, <2>4, RoamTickDirectInv
  <2> QED  BY <2>4, <2>5 DEF MovedWell
<1> QED  BY <1>1, <1>2

-----------------------------------------------------------------------------
(* Handling a message.                                                     *)

(* A call is only ever begun by a grant. *)
NoNewCall(d, e) == \A r \in Receivers : e.tgid[r] \in {d.tgid[r], NoTg}

(* Ending a call and reassigning the control channels begin none. *)
LEMMA CallEventCalls ==
    ASSUME NEW d \in Radio, NEW r \in Receivers,
           NEW e \in {d, CheckCCAssignments(d),
                      CheckCCAssignments(ExpireTalkgroup(d, r))}
    PROVE  NoNewCall(d, e)
<1>1. CheckCCAssignments(d).tgid = d.tgid
  BY DEF CheckCCAssignments, Radio
<1> DEFINE c == ExpireTalkgroup(d, r)
<1>2. c.tgid \in {d.tgid, [d.tgid EXCEPT ![r] = NoTg]} /\ c = [c EXCEPT !.idx = c.idx]
  BY DEF ExpireTalkgroup, IdleRx, DropCall, Radio
<1> HIDE DEF c
<1>3. CheckCCAssignments(c).tgid = c.tgid
  BY <1>2 DEF CheckCCAssignments
<1> QED  BY <1>1, <1>2, <1>3 DEF NoNewCall, Radio, c

(* Nor does a channel timeout or a sync report. *)
LEMMA TimeoutMessageCalls ==
    ASSUME NEW d \in Radio, NEW r \in Receivers
    PROVE  /\ NoNewCall(d, CheckCCAssignments(TimeoutMessage(d, r)))
           /\ NoNewCall(d, SyncMessage(d, r))
<1> DEFINE c == TimeoutMessage(d, r)
           struck == [d EXCEPT !.vcr[r] = @ + 1]
<1>1. c.tgid \in {d.tgid, [d.tgid EXCEPT ![r] = NoTg]} /\ c = [c EXCEPT !.idx = c.idx]
  <2>1. c \in {TimeoutCC(d, r), d, ExpireTalkgroup(struck, r), struck}
    BY DEF TimeoutMessage
  <2>2. CASE c = TimeoutCC(d, r)
    BY <2>2 DEF TimeoutCC, NextCC, TuneCC, IdleRx, Radio
  <2>3. CASE c = d \/ c = struck
    BY <2>3 DEF Radio
  <2>4. CASE c = ExpireTalkgroup(struck, r)
    BY <2>4 DEF ExpireTalkgroup, IdleRx, DropCall, Radio
  <2> QED  BY <2>1, <2>2, <2>3, <2>4
<1> HIDE DEF c
<1>2. CheckCCAssignments(c).tgid = c.tgid
  BY <1>1 DEF CheckCCAssignments
<1>3. NoNewCall(d, CheckCCAssignments(c))
  BY <1>1, <1>2 DEF NoNewCall, Radio
<1>4. SyncMessage(d, r).tgid = d.tgid
  BY DEF SyncMessage, Radio
<1> QED  BY <1>3, <1>4 DEF NoNewCall, c

(* What a message does to the evidence: a call begins only on a site whose *)
(* grant has just been heard.                                              *)
LEMMA DispatchEvidence ==
    ASSUME NEW w \in WorldOf(Roam), NEW m \in Message, RadioInv(w.radio), Evidence(w),
           NEW e \in Dispatch(w, m)
    PROVE  Evidence(e) /\ w.sig.heard \subseteq e.sig.heard
<1> DEFINE d == w.radio
           s == d.sys[Primary]
<1>0. /\ m.rx = Primary /\ m.kind \in {"signal", "timeout", "sync", "end", "info"}
      /\ d \in Radio /\ w.sig \in Signals /\ s \in Sites
      /\ e.radio.sys = d.sys
  <2>1. d \in Radio /\ w.sig \in Signals /\ s \in Sites
    BY ReceiverFacts DEF WorldOf, Radio
  <2>2. m.rx = Primary /\ m.kind \in {"signal", "timeout", "sync", "end", "info"}
    BY ReceiverFacts DEF Message
  <2>3. LeavesScoutAlone(d, e.radio)
    BY DispatchInv
  <2> QED  BY <2>1, <2>2, <2>3 DEF LeavesScoutAlone
<1>1. ASSUME NEW c, e = [w EXCEPT !.radio = c], NoNewCall(d, c)
      PROVE  Evidence(e) /\ w.sig.heard \subseteq e.sig.heard
  <2>1. e.sig = w.sig /\ e.radio = c
    BY <1>1 DEF WorldOf
  <2>2. c.tgid[Primary] # NoTg => d.tgid[Primary] # NoTg
    BY <1>1, ReceiverFacts DEF NoNewCall
  <2> QED  BY <1>0, <2>1, <2>2 DEF Evidence
<1>2. CASE m.kind = "signal"
  <2> DEFINE x == [w.sig EXCEPT !.heard = @ \cup {s}, !.age[s] = 0]
  <2>1. e.sig = x
    <3> DEFINE u == [w EXCEPT !.sig.heard = @ \cup {s}, !.sig.age[s] = 0]
    <3>1. x \in Signals /\ w \in WorldOf(Roam)
      BY <1>0 DEF Signals
    <3>2. u = [w EXCEPT !.sig = x]
      BY <1>0 DEF WorldOf, Signals
    <3>3. e = u \/ \E c : e = [u EXCEPT !.radio = c]
      BY <1>0, <1>2 DEF Dispatch, Signal
    <3> HIDE DEF u, x
    <3>4. u \in WorldOf(Roam) /\ u.sig = x
      BY <3>1, <3>2 DEF WorldOf
    <3> QED  BY <3>3, <3>4 DEF WorldOf
  <2>2. x.heard = w.sig.heard \cup {s} /\ x.bad = w.sig.bad
    BY <1>0 DEF Signals
  <2> HIDE DEF x
  <2> QED  BY <1>0, <2>1, <2>2 DEF Evidence
<1>3. CASE m.kind = "timeout"
  <2> DEFINE c == CheckCCAssignments(TimeoutMessage(d, m.rx))
  <2>1. e = [w EXCEPT !.radio = c]
    BY <1>3 DEF Dispatch
  <2>2. NoNewCall(d, c)
    BY <1>0, ReceiverFacts, TimeoutMessageCalls
  <2> QED  BY <1>1, <2>1, <2>2
<1>4. CASE m.kind = "sync"
  <2> DEFINE c == SyncMessage(d, m.rx)
  <2>1. e = [w EXCEPT !.radio = c]
    BY <1>4 DEF Dispatch
  <2>2. NoNewCall(d, c)
    BY <1>0, ReceiverFacts, TimeoutMessageCalls
  <2> QED  BY <1>1, <2>1, <2>2
<1>5. CASE m.kind \in {"end", "info"}
  <2>1. PICK c \in {d, CheckCCAssignments(d),
                    CheckCCAssignments(ExpireTalkgroup(d, m.rx))} :
            e = [w EXCEPT !.radio = c]
    BY <1>5 DEF Dispatch, EndMessage, InfoMessage
  <2>2. NoNewCall(d, c)
    BY <1>0, <2>1, ReceiverFacts, CallEventCalls
  <2> QED  BY <1>1, <2>1, <2>2
<1> QED  BY <1>0, <1>2, <1>3, <1>4, <1>5

(* After the reassignment of a handler the receiver is not idle: it is the *)
(* only one that could hold its home site's control channel.               *)
LEMMA ReassignedServes ==
    ASSUME NoPlaceholders, NEW c \in Radio, RadioInv(c)
    PROVE  Primary \notin CheckCCAssignments(c).idle
<1> DEFINE h == HomeOf[Primary]
<1> SUFFICES ASSUME Primary \in c.idle
             PROVE  Assigns(c, h, Primary)
  BY ReceiverFacts, RxCtlAssumption DEF CheckCCAssignments, Radio
<1>1. h \in Sites /\ NoClaims(c, Primary)
  BY ReceiverFacts, RxCtlAssumption, IdleHasNoClaims
<1>2. c.cc[h] = NoRx
  BY <1>1, ReceiverFacts DEF NoClaims, Radio
<1>3. FirstIdle(c, h, Primary)
  BY ReceiverFacts, RadioAssumption DEF FirstIdle
<1> QED  BY <1>1, <1>2, <1>3 DEF Assigns, NoPlaceholders

(* The receiver is not idle after any handler. *)
LEMMA NeverIdled ==
    ASSUME NoPlaceholders, NEW d, NEW e, Reassigned(d, e), Primary \notin d.idle
    PROVE  Primary \notin e.idle
  BY ReassignedServes DEF Reassigned

(* A change of tuning that leaves the receiver bound where it was. *)
LEMMA FrameInv ==
    ASSUME NEW w, WorldInv(w), NEW e \in WorldOf(Roam), e.roam = w.roam,
           RadioInv(e.radio), e.radio.sys = w.radio.sys, Evidence(e),
           w.sig.heard \subseteq e.sig.heard, Primary \notin e.radio.idle
    PROVE  WorldInv(e)
  BY DEF WorldInv, CycleBooked

(* What process_qmsg() does before the roaming tick. *)
LEMMA HandledInv ==
    ASSUME NoPlaceholders, NEW w, WorldInv(w), NEW m \in Message,
           NEW e \in Dispatch(w, m)
    PROVE  WorldInv(e) /\ e.roam = w.roam /\ e.radio.sys = w.radio.sys
<1>1. /\ e \in WorldOf(Roam) /\ e.roam = w.roam
      /\ RadioInv(e.radio) /\ LeavesScoutAlone(w.radio, e.radio)
      /\ Reassigned(w.radio, e.radio)
  BY DispatchInv DEF WorldInv
<1>2. Evidence(e) /\ w.sig.heard \subseteq e.sig.heard
  BY DispatchEvidence DEF WorldInv
<1>3. Primary \notin e.radio.idle
  BY <1>1, NeverIdled DEF WorldInv
<1>4. WorldInv(e)
  BY <1>1, <1>2, <1>3, FrameInv DEF LeavesScoutAlone
<1> QED  BY <1>1, <1>4 DEF LeavesScoutAlone

(* Counting the signalling block. *)
LEMMA BookedInv ==
    ASSUME NEW w, WorldInv(w), NEW m \in Message
    PROVE  LET e == Booked(w, m) IN
           /\ WorldInv(e) /\ e.radio = w.radio
           /\ e.roam.phase = w.roam.phase /\ e.roam.home = w.roam.home
           /\ e.roam.cool = w.roam.cool
<1> DEFINE k == AtMost(w.roam.got + 1, MinTsbk)
           n == [w.roam EXCEPT !.got = k]
           e == Booked(w, m)
<1>1. k \in 0..MinTsbk
  BY SysFacts, RxCtlAssumption DEF Roam, AtMost
<1>2. e = w \/ e = [w EXCEPT !.roam = n]
  BY DEF Booked
<1> HIDE DEF e, k
<1>3. CASE e = w
  BY <1>3 DEF e
<1>4. CASE e = [w EXCEPT !.roam = n]
  <2>1. /\ n \in Roam /\ n.phase = w.roam.phase /\ n.home = w.roam.home
        /\ n.target = w.roam.target /\ n.cands = w.roam.cands /\ n.cool = w.roam.cool
    BY <1>1, SysFacts DEF Roam
  <2> HIDE DEF n
  <2>2. e \in WorldOf(Roam) /\ e.radio = w.radio /\ e.sig = w.sig /\ e.roam = n
    BY <1>4, <2>1, SysFacts DEF WorldOf
  <2>3. WorldInv(e)
    BY <2>1, <2>2 DEF WorldInv, CycleBooked, Evidence
  <2> QED  BY <2>1, <2>2, <2>3 DEF e
<1> QED  BY <1>2, <1>3, <1>4

(* What a framer queues is a message. *)
LEMMA EmissionsAreMessages ==
    ASSUME NEW d \in Radio, NEW r \in Receivers, NEW m \in Emissions(d, r)
    PROVE  m \in Message
<1>1. d.tuned[r][1] \in Sites \cup {NoSite}
  BY DEF Radio, Channel
<1> QED  BY <1>1 DEF Emissions, Message

-----------------------------------------------------------------------------
(* The steps.                                                              *)

(* post_init() gives the receiver its home site's control channel. *)
LEMMA InitInv ==
    ASSUME NoPlaceholders, Init
    PROVE  IInv
<1> DEFINE d == ReceiversIdle(HomeOf)
<1>1. HomeOf \in [Receivers -> Sites]
  BY ReceiverFacts, RxCtlAssumption, RadioAssumption
<1>2. RadioInv(d) /\ d.sys = HomeOf /\ d.tgid = [r \in Receivers |-> NoTg]
  BY <1>1, ReceiversIdleInv DEF ReceiversIdle
<1> HIDE DEF d
<1>3. radio = CheckCCAssignments(d) /\ d \in Radio
  BY <1>2 DEF Init, d, RadioInv
<1>4. RadioInv(radio) /\ Primary \notin radio.idle
  BY <1>2, <1>3, CheckCCAssignmentsInv, ReassignedServes
<1>5. radio.tgid[Primary] = NoTg
  BY <1>2, <1>3, ReceiverFacts DEF CheckCCAssignments, Radio
<1>6. sig \in Signals /\ sig.bad = [s \in Sites |-> 0]
  BY MaxAgeType DEF Init, InitialSignals, Signals
<1>7. roam \in Roam /\ roam.phase = "none" /\ roam.cool = 0
  BY RxCtlAssumption, DirectAssumption DEF Init, Roam
<1>8. World \in WorldOf(Roam) /\ World.radio = radio /\ World.sig = sig /\ World.roam = roam
  BY <1>4, <1>6, <1>7 DEF World, WorldOf, RadioInv
<1>9. CycleBooked(World) /\ Evidence(World)
  BY <1>5, <1>6, <1>7, <1>8 DEF CycleBooked, Evidence
<1>10. /\ queue \in Seq(Message) /\ Len(queue) <= QueueMax
       /\ quiet \in 0..Cooldown /\ quiet + roam.cool >= Cooldown
  BY <1>7, RxCtlAssumption, DirectAssumption DEF Init
<1> QED  BY <1>4, <1>8, <1>9, <1>10 DEF IInv, WorldInv

(* What the two action properties ask of a step. *)
Earned ==
    /\ radio'.sys[Primary] # radio.sys[Primary] \/ roam.phase # "none" =>
          \/ roam'.phase # "none"
          \/ radio'.sys[Primary] = roam.home
          \/ ProvenGood([sig |-> sig'], radio'.sys[Primary], roam'.got)
    /\ roam.phase = "none" /\ radio'.sys[Primary] # radio.sys[Primary] =>
          quiet >= Cooldown

(* A message is handled from dispatch to the end of the tick. *)
LEMMA DeliverInv ==
    ASSUME NoPlaceholders, IInv, Deliver
    PROVE  IInv' /\ Earned
<1> DEFINE m == Head(queue)
           w0 == Booked(World, m)
<1>1. m \in Message /\ queue' \in Seq(Message) /\ Len(queue') <= QueueMax
  BY RxCtlAssumption DEF IInv, Deliver
<1>2. PICK w1 \in Dispatch(w0, m) : \E w2 \in RoamTick(w1) :
          radio' = w2.radio /\ sig' = w2.sig /\ roam' = w2.roam
  BY DEF Deliver
<1>3. PICK w2 \in RoamTick(w1) :
          radio' = w2.radio /\ sig' = w2.sig /\ roam' = w2.roam
  BY <1>2
<1> HIDE DEF m
<1>4. /\ WorldInv(w0) /\ w0.radio = radio /\ w0.roam.phase = roam.phase
      /\ w0.roam.home = roam.home /\ w0.roam.cool = roam.cool
  BY <1>1, BookedInv DEF IInv, World
<1> HIDE DEF w0
<1>5. WorldInv(w1) /\ w1.roam = w0.roam /\ w1.radio.sys = radio.sys
  BY <1>1, <1>2, <1>4, HandledInv
<1>6. WorldInv(w2) /\ MovedWell(w1, w2)
  BY <1>3, <1>5, RoamTickInv
<1>7. World' = w2
  BY <1>3, <1>6 DEF WorldInv, WorldOf, World
<1>8. roam'.cool \in {roam.cool, Cooldown} /\ roam.cool \in 0..Cooldown
  BY <1>3, <1>4, <1>5, <1>6, SysFacts DEF MovedWell, Roam
<1>9. quiet' \in 0..Cooldown /\ quiet' + roam'.cool >= Cooldown
  <2>1. quiet' = IF roam'.cool > roam.cool THEN 0 ELSE quiet
    BY DEF Deliver
  <2> QED  BY <1>8, <2>1, DirectAssumption DEF IInv
<1>10. Earned
  <2>1. /\ radio'.sys[Primary] # radio.sys[Primary] \/ roam.phase # "none" =>
             \/ roam'.phase # "none"
             \/ radio'.sys[Primary] = roam.home
             \/ ProvenGood([sig |-> sig'], radio'.sys[Primary], roam'.got)
        /\ roam.phase = "none" /\ radio'.sys[Primary] # radio.sys[Primary] =>
             roam.cool = 0
    BY <1>3, <1>4, <1>5, <1>6 DEF MovedWell
  <2>2. roam.cool = 0 => quiet >= Cooldown
    BY DirectAssumption DEF IInv
  <2> QED  BY <2>1, <2>2 DEF Earned
<1>11. WorldInv(World)'
  BY <1>6, <1>7
<1> QED  BY <1>1, <1>9, <1>10, <1>11 DEF IInv

(* Every action preserves the invariant. *)
LEMMA NextInv ==
    ASSUME NoPlaceholders, IInv, [Next]_vars
    PROVE  IInv' /\ [Earned]_vars
<1>0. /\ WorldInv(World)
      /\ World \in WorldOf(Roam) /\ radio \in Radio /\ sig \in Signals /\ roam \in Roam
      /\ World.radio = radio /\ World.sig = sig /\ World.roam = roam
  BY DEF IInv, WorldInv, World, WorldOf
<1>1. CASE Emit
  <2>1. PICK m \in Emissions(radio, Primary) : queue' = Append(queue, m)
    BY <1>1 DEF Emit
  <2>2. m \in Message
    BY <1>0, <2>1, ReceiverFacts, EmissionsAreMessages
  <2>3. queue' \in Seq(Message) /\ Len(queue') <= QueueMax
    BY <1>1, <2>1, <2>2, RxCtlAssumption DEF Emit, IInv
  <2>4. World' = World /\ radio' = radio /\ roam' = roam /\ quiet' = quiet
    BY <1>1 DEF Emit, World
  <2> QED  BY <1>0, <2>3, <2>4 DEF IInv, Earned
<1>2. CASE Deliver
  BY <1>2, DeliverInv
<1>3. CASE Command
  <2>1. radio' \in {radio, CheckCCAssignments(radio),
                    CheckCCAssignments(ExpireTalkgroup(radio, Primary))}
    BY <1>3 DEF Command, UICommand
  <2>2. RadioInv(radio)
    BY <1>0 DEF WorldInv
  <2>3. RadioInv(radio') /\ LeavesScoutAlone(radio, radio') /\ Reassigned(radio, radio')
    BY <2>1, <2>2, ReceiverFacts, CallEventInv
  <2>4. Primary \notin radio'.idle
    BY <1>0, <2>3, NeverIdled DEF WorldInv
  <2>5. /\ World' \in WorldOf(Roam) /\ World'.roam = roam
        /\ World'.radio = radio' /\ World'.sig = sig
    BY <1>0, <1>3, <2>3 DEF Command, World, WorldOf, RadioInv
  <2>6. NoNewCall(radio, radio')
    BY <1>0, <2>1, ReceiverFacts, CallEventCalls
  <2>7. Evidence(World')
    BY <1>0, <2>3, <2>5, <2>6, ReceiverFacts
       DEF WorldInv, Evidence, NoNewCall, LeavesScoutAlone
  <2>8. WorldInv(World')
    BY <1>0, <2>3, <2>4, <2>5, <2>7, FrameInv DEF LeavesScoutAlone
  <2>9. roam' = roam /\ quiet' = quiet /\ queue' = queue
    BY <1>3 DEF Command
  <2> QED  BY <2>3, <2>8, <2>9 DEF IInv, Earned, LeavesScoutAlone
<1>4. CASE Elapse
  <2> DEFINE n == AtMost(roam.age + 1, Window)
             k == IF roam.cool = 0 THEN 0 ELSE roam.cool - 1
             l == IF roam.coldCool = 0 THEN 0 ELSE roam.coldCool - 1
  <2>1. sig' \in Signals /\ sig'.heard = sig.heard /\ sig'.bad = sig.bad
    BY <1>0, <1>4, OlderType DEF Elapse, Older, Signals
  <2>2. n \in 0..Window /\ k \in 0..Cooldown /\ l \in 0..ColdCooldown
    BY <1>0, RxCtlAssumption, DirectAssumption DEF Roam, AtMost
  <2>3. roam' = [roam EXCEPT !.age = n, !.cool = k, !.coldCool = l]
        /\ radio' = radio /\ queue' = queue /\ quiet' = AtMost(quiet + 1, Cooldown)
    BY <1>4 DEF Elapse
  <2>4. k > 0 => roam.cool > 0
    BY <1>0, DirectAssumption DEF Roam
  <2>5. quiet' \in 0..Cooldown /\ quiet' + k >= Cooldown
    BY <1>0, <2>3, DirectAssumption DEF IInv, Roam, AtMost
  <2> HIDE DEF n, k, l
  <2>6. /\ roam' \in Roam /\ roam'.phase = roam.phase /\ roam'.home = roam.home
        /\ roam'.target = roam.target /\ roam'.cands = roam.cands /\ roam'.cool = k
    BY <1>0, <2>2, <2>3 DEF Roam
  <2>7. /\ World' \in WorldOf(Roam) /\ World'.roam = roam'
        /\ World'.radio = radio /\ World'.sig = sig'
    BY <1>0, <2>1, <2>3, <2>6 DEF World, WorldOf
  <2>8. WorldInv(World')
    BY <1>0, <2>1, <2>4, <2>6, <2>7 DEF WorldInv, CycleBooked, Evidence
  <2> QED  BY <2>3, <2>5, <2>6, <2>8 DEF IInv, Earned
<1>5. CASE UNCHANGED vars
  BY <1>5 DEF vars, IInv, World
<1> QED  BY <1>1, <1>2, <1>3, <1>4, <1>5 DEF Next

(* The invariant holds in every reachable state if no site lacks control   *)
(* channels.                                                               *)
THEOREM Invariance == ASSUME NoPlaceholders PROVE Spec => []IInv
  BY InitInv, NextInv, PTL DEF Spec

(* The records keep their types and cc_index stays inside cc_list. *)
THEOREM TypeCorrect == ASSUME NoPlaceholders PROVE Spec => []TypeOK
<1>1. IInv => TypeOK
  BY DEF IInv, WorldInv, WorldOf, World, RadioInv, TypeOK
<1> QED  BY <1>1, Invariance, PTL

(* Whoever claims a control channel listens to it, through every leg of a  *)
(* cycle, every call and every user command.                               *)
THEOREM ClaimantsListen == ASSUME NoPlaceholders PROVE Spec => []ClaimantListens
<1>1. IInv => ClaimantListens
  BY DEF IInv, WorldInv, World, RadioInv, ClaimantListens
<1> QED  BY <1>1, Invariance, PTL

(* The only receiver is never left idle, so the messages that drive        *)
(* roam_tick() keep coming.                                                *)
THEOREM Hears == ASSUME NoPlaceholders PROVE Spec => []NeverDeaf
<1>1. IInv => NeverDeaf
  BY DEF IInv, WorldInv, World, NeverDeaf
<1> QED  BY <1>1, Invariance, PTL

(* While a cycle runs, the receiver is bound to the leg under evaluation   *)
(* and home is still to come.                                              *)
THEOREM LegsAreBound == ASSUME NoPlaceholders PROVE Spec => []LegIsBound
<1>1. IInv => LegIsBound
  BY DEF IInv, WorldInv, CycleBooked, World, LegIsBound
<1> QED  BY <1>1, Invariance, PTL

(* No site is degraded and cold at the same time. *)
THEOREM TriggersExclude == ASSUME NoPlaceholders PROVE Spec => []TriggersExclusive
<1>1. IInv => TriggersExclusive
  <2> SUFFICES ASSUME IInv, NEW s \in Sites, IsColdStart(World, s), IsDegraded(World, s)
               PROVE  FALSE
    BY DEF TriggersExclusive
  <2>1. s \notin sig.heard /\ sig.bad[s] >= VoiceDebounce
    BY DEF IsColdStart, IsDegraded, VoiceDegraded, World
  <2>2. sig.bad[s] \in Nat /\ (sig.bad[s] > 0 => s \in sig.heard)
    BY DEF IInv, WorldInv, WorldOf, Evidence, Signals, World
  <2> QED  BY <2>1, <2>2, RxCtlAssumption
<1> QED  BY <1>1, Invariance, PTL

(* A cycle leaves the receiver on the site it started from or on one that  *)
(* passed its window, and nothing but a cycle moves it.                    *)
THEOREM EndsWell == ASSUME NoPlaceholders PROVE Spec => EndsOnHomeOrProven
<1>1. IInv /\ [Next]_vars =>
        [ radio'.sys[Primary] # radio.sys[Primary] \/ roam.phase # "none" =>
            \/ roam'.phase # "none"
            \/ radio'.sys[Primary] = roam.home
            \/ ProvenGood([sig |-> sig'], radio'.sys[Primary], roam'.got) ]_vars
  BY NextInv DEF Earned
<1> QED  BY <1>1, Invariance, PTL DEF Spec, EndsOnHomeOrProven

(* After an exhausted cycle nothing moves the receiver for the cooldown. *)
THEOREM CooldownHolds == ASSUME NoPlaceholders PROVE Spec => QuietAfterExhaustion
<1>1. IInv /\ [Next]_vars =>
        [ roam.phase = "none" /\ radio'.sys[Primary] # radio.sys[Primary] =>
            quiet >= Cooldown ]_vars
  BY NextInv DEF Earned
<1> QED  BY <1>1, Invariance, PTL DEF Spec, QuietAfterExhaustion
=============================================================================
