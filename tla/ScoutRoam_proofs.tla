-------------------------- MODULE ScoutRoam_proofs --------------------------
(***************************************************************************)
(* Theorems about scout-mode roaming, for any set of sites that all have a *)
(* control channel, any timing constants and any queue length.             *)
(*                                                                         *)
(* The inductive invariant adds to RadioInv what ties the coordinator to   *)
(* the receivers: while a cycle runs the scout is bound to the candidate,  *)
(* scout_home_system is still the primary's system and is no candidate;    *)
(* between cycles the scout is idle.                                       *)
(***************************************************************************)
EXTENDS ScoutRoam, RxCtl_proofs

CycleConsistent(w) ==
    w.roam.cur # NoSite =>
        /\ w.radio.sys[Scout] = w.roam.cur
        /\ w.roam.cur # w.radio.sys[Primary]
        /\ w.roam.home = w.radio.sys[Primary]
        /\ w.roam.home \notin w.roam.cands

WorldInv(w) ==
    /\ w \in WorldOf(Roam)
    /\ RadioInv(w.radio)
    /\ CycleConsistent(w)
    /\ w.roam.cur = NoSite => Scout \in w.radio.idle
    /\ Primary \notin w.radio.idle

IInv ==
    /\ WorldInv(World)
    /\ queue \in Seq(Message) /\ Len(queue) <= QueueMax
    /\ decoded \in 0..MinTsbk

(* There are two receivers, primary and scout, and the scout is in no      *)
(* site's list.                                                            *)
LEMMA ReceiverFacts ==
    /\ Receivers = {Primary, Scout} /\ Primary # Scout
    /\ HomeOf[Scout] = NoSite /\ NoSite \notin Sites
    /\ NoRx \notin Receivers
  BY RadioAssumption, ScoutAssumption

(* What the handling of a message may do to the invariant: nothing. *)
LEMMA FrameInv ==
    ASSUME NEW w, WorldInv(w), NEW e \in WorldOf(Roam), e.roam = w.roam,
           RadioInv(e.radio), LeavesScoutAlone(w.radio, e.radio),
           Primary \notin e.radio.idle
    PROVE  WorldInv(e)
  BY ReceiverFacts DEF WorldInv, CycleConsistent, LeavesScoutAlone

(* Parking: the scout gives its claim back and goes idle. *)
LEMMA ParkInv ==
    ASSUME NEW d, RadioInv(d), NEW s \in Sites, d.sys[Scout] = s
    PROVE  LET e == IdleRx(ReleaseCC(d, s, Scout), Scout) IN
           RadioInv(e) /\ e.sys = d.sys /\ e.idle = d.idle \cup {Scout}
<1> DEFINE c == ReleaseCC(d, s, Scout)
           e == IdleRx(c, Scout)
<1>1. /\ RadioInv(c) /\ c.cc[s] # Scout
      /\ c.idle = d.idle /\ c.tgid = d.tgid /\ c.sys = d.sys
  BY ReceiverFacts, ReleaseCCInv
<1> HIDE DEF c
<1>2. NoClaims(c, Scout)
  <2> SUFFICES ASSUME NEW t \in Sites, c.cc[t] = Scout
               PROVE  FALSE
    BY DEF NoClaims
  <2>1. c.sys[Scout] = t
    BY <1>1, ReceiverFacts DEF RadioInv, ClaimsListen
  <2> QED  BY <1>1, <2>1
<1>3. c.tgid[Scout] = NoTg
  BY <1>1, ReceiverFacts DEF RadioInv, BoundWhereListed
<1>4. InvExcept(c, Scout)
  BY <1>1, SplitInv, ReceiverFacts
<1>5. /\ RadioInv(e)
      /\ LeavesScoutAlone(c, e)
      /\ e.idle = c.idle \cup {Scout} /\ e.cc = c.cc /\ e.tgid = c.tgid
  BY <1>2, <1>3, <1>4, ReceiverFacts, IdleRxInv
<1> QED  BY <1>1, <1>5 DEF LeavesScoutAlone, c

(* The bookkeeping _abort_scout() leaves: no candidate, and the last count. *)
LEMMA NoCycleFacts ==
    ASSUME NEW r \in Roam
    PROVE  NoCycle(r) \in Roam /\ NoCycle(r).cur = NoSite /\ NoCycle(r).got = r.got
  BY DEF NoCycle, Roam

(* _abort_scout() parks the scout and forgets the cycle. *)
LEMMA AbortScoutInv ==
    ASSUME NEW w, WorldInv(w)
    PROVE  LET e == AbortScout(w) IN
           WorldInv(e) /\ e.radio.sys = w.radio.sys
<1> DEFINE n == NoCycle(w.roam)
           d == IF w.roam.cur = NoSite THEN w.radio
                ELSE IdleRx(ReleaseCC(w.radio, w.roam.cur, Scout), Scout)
           e == AbortScout(w)
<1>1. n \in Roam /\ n.cur = NoSite
  BY NoCycleFacts DEF WorldInv, WorldOf
<1>2. /\ RadioInv(d) /\ d.sys = w.radio.sys
      /\ Scout \in d.idle /\ Primary \notin d.idle
  <2>1. CASE w.roam.cur = NoSite
    BY <2>1 DEF WorldInv
  <2>2. CASE w.roam.cur # NoSite
    <3>1. w.roam.cur \in Sites /\ w.radio.sys[Scout] = w.roam.cur
      BY <2>2 DEF WorldInv, CycleConsistent, WorldOf, Roam
    <3> QED  BY <2>2, <3>1, ParkInv, ReceiverFacts DEF WorldInv
  <2> QED  BY <2>1, <2>2
<1>3. e = [w EXCEPT !.radio = d, !.roam = n]
  BY DEF AbortScout
<1> HIDE DEF d, n, e
<1>4. e \in WorldOf(Roam) /\ e.radio = d /\ e.roam = n
  BY <1>1, <1>2, <1>3 DEF WorldInv, WorldOf, RadioInv
<1> QED  BY <1>1, <1>2, <1>4 DEF WorldInv, CycleConsistent, e

(* The scout is retargeted to the next candidate and its window opened. *)
LEMMA ScoutSiteInv ==
    ASSUME NEW w, WorldInv(w), NEW s \in w.roam.cands,
           w.roam.home = w.radio.sys[Primary], w.roam.home \notin w.roam.cands
    PROVE  LET e == ScoutSite(w, s) IN
           WorldInv(e) /\ e.radio.sys[Primary] = w.radio.sys[Primary]
<1> DEFINE d == TuneCC(Retarget(w.radio, Scout, s), s, Scout)
           n == OpenWindow(w.roam, s)
           e == ScoutSite(w, s)
<1>0. w \in WorldOf(Roam) /\ RadioInv(w.radio) /\ s \in Sites
  BY DEF WorldInv, WorldOf, Roam
<1>1. /\ RadioInv(d)
      /\ d.sys = [w.radio.sys EXCEPT ![Scout] = s]
      /\ d.tgid = [w.radio.tgid EXCEPT ![Scout] = NoTg]
      /\ d.idle \ {Scout} = w.radio.idle \ {Scout}
      /\ HomeOf[Scout] # NoSite => Scout \notin d.idle
  BY <1>0, ReceiverFacts, MoveInv
<1>2. /\ n \in Roam /\ n.cur = s /\ n.home = w.roam.home
      /\ n.cands = w.roam.cands \ {s}
  <2>1. w.roam \in Roam /\ 0 \in 0..Window /\ 0 \in 0..MinTsbk
    BY <1>0, RxCtlAssumption DEF WorldOf
  <2> QED  BY <1>0, <2>1 DEF OpenWindow, Roam
<1>3. e = [w EXCEPT !.radio = d, !.roam = n]
  BY DEF ScoutSite
<1> HIDE DEF d, n, e
<1>4. e \in WorldOf(Roam) /\ e.radio = d /\ e.roam = n
  BY <1>0, <1>1, <1>2, <1>3 DEF WorldOf, RadioInv
<1>5. d.sys[Scout] = s /\ d.sys[Primary] = w.radio.sys[Primary]
  BY <1>0, <1>1, ReceiverFacts DEF WorldOf, Radio
<1>6. s # NoSite /\ Primary \notin d.idle
  BY <1>0, <1>1, ReceiverFacts DEF WorldInv
<1> QED  BY <1>1, <1>2, <1>4, <1>5, <1>6 DEF WorldInv, CycleConsistent, e

(* _scout_next() tries a candidate or ends the cycle when none is left. *)
LEMMA ScoutNextInv ==
    ASSUME NEW w, WorldInv(w),
           w.roam.home = w.radio.sys[Primary], w.roam.home \notin w.roam.cands,
           NEW e \in ScoutNext(w)
    PROVE  WorldInv(e) /\ e.radio.sys[Primary] = w.radio.sys[Primary]
<1>1. CASE w.roam.cands = {}
  BY <1>1, AbortScoutInv DEF ScoutNext
<1>2. CASE w.roam.cands # {}
  <2>1. PICK s \in w.roam.cands : e = ScoutSite(w, s)
    BY <1>2 DEF ScoutNext
  <2> QED  BY <2>1, ScoutSiteInv
<1> QED  BY <1>1, <1>2

(* The hand-off.  When the scout has let go of the candidate nobody claims *)
(* it, so the primary gets its control channel.                            *)
LEMMA CommitRoamInv ==
    ASSUME NoPlaceholders, NEW w, WorldInv(w), w.roam.cur # NoSite
    PROVE  LET e == CommitRoam(w) IN
           /\ WorldInv(e)
           /\ e.radio.sys[Primary] = w.roam.cur
           /\ e.sig = w.sig /\ e.roam.got = w.roam.got
<1> DEFINE s  == w.roam.cur
           h  == w.roam.home
           d1 == IdleRx(ReleaseCC(w.radio, s, Scout), Scout)
           d2 == ReleaseCC(d1, h, Primary)
           m  == Retarget(d2, Primary, s)
           d  == TuneCC(m, s, Primary)
           n  == NoCycle(w.roam)
           e  == CommitRoam(w)
<1>0. /\ w \in WorldOf(Roam) /\ RadioInv(w.radio)
      /\ s \in Sites /\ w.radio.sys[Scout] = s
      /\ h = w.radio.sys[Primary] /\ h # s /\ h \in Sites
  BY ReceiverFacts DEF WorldInv, CycleConsistent, WorldOf, Roam, Radio
<1>1. RadioInv(d1) /\ d1.sys = w.radio.sys /\ d1.idle = w.radio.idle \cup {Scout}
  BY <1>0, ParkInv
<1> HIDE DEF d1
<1>2. /\ RadioInv(d2) /\ d2.sys = d1.sys /\ d2.idle = d1.idle
  BY <1>0, <1>1, ReceiverFacts, ReleaseCCInv
<1> HIDE DEF d2
<1>3. /\ d2.sys[Primary] # s
      /\ d2.cc[s] # Primary
      /\ d2.cc[s] # Scout
      /\ d2.cc[s] \in Receivers \cup {NoRx}
  <2>1. d2.sys[Primary] # s
    BY <1>0, <1>1, <1>2
  <2>2. d2.cc[s] # Primary
    BY <1>0, <1>2, <2>1, ReceiverFacts DEF RadioInv, ClaimsListen
  <2>3. NoClaims(d2, Scout)
    BY <1>1, <1>2, ReceiverFacts, IdleHasNoClaims
  <2> QED  BY <1>0, <1>2, <2>1, <2>2, <2>3 DEF NoClaims, RadioInv, Radio
<1>4. \A t \in Sites : m.cc[t] \in {d2.cc[t], NoRx}
  BY <1>0, <1>2, ReceiverFacts, RetargetInv
<1>5. OffersCC(m, s, Primary)
  BY <1>0, <1>3, <1>4, ReceiverFacts DEF OffersCC, NoPlaceholders
<1>6. /\ RadioInv(d)
      /\ d.sys = [d2.sys EXCEPT ![Primary] = s]
      /\ d.tgid = [d2.tgid EXCEPT ![Primary] = NoTg]
      /\ d.idle \ {Primary} = d2.idle \ {Primary}
      /\ HomeOf[Primary] # NoSite => Primary \notin d.idle
  BY <1>0, <1>2, <1>5, ReceiverFacts, MoveInv
<1>7. d.sys[Primary] = s /\ Scout \in d.idle /\ Primary \notin d.idle
  BY <1>1, <1>2, <1>6, ReceiverFacts, RxCtlAssumption DEF RadioInv, Radio
<1>8. n \in Roam /\ n.cur = NoSite /\ n.got = w.roam.got
  BY <1>0, NoCycleFacts DEF WorldOf
<1>9. e = [w EXCEPT !.radio = d, !.roam = n]
  BY DEF CommitRoam, d1, d2
<1> HIDE DEF d, n, e, m
<1>10. e \in WorldOf(Roam) /\ e.radio = d /\ e.roam = n /\ e.sig = w.sig
  BY <1>0, <1>6, <1>8, <1>9 DEF WorldOf, RadioInv
<1> QED  BY <1>6, <1>7, <1>8, <1>10 DEF WorldInv, CycleConsistent, e

-----------------------------------------------------------------------------
(* The coordinator's tick.                                                 *)

(* What HandOff asks of a step from w to e. *)
MovedWell(w, e) ==
    LET home == w.radio.sys[Primary]  now == [sig |-> e.sig] IN
    e.radio.sys[Primary] # home =>
        /\ e.radio.sys[Primary] = w.roam.cur
        /\ ProvenGood(now, w.roam.cur, e.roam.got)
        /\ IsDegraded(now, home) \/ IsColdStart(now, home)

(* The tick during a cycle: recovery, an open window, rejection or hand-   *)
(* off.                                                                    *)
LEMMA ContinueScoutInv ==
    ASSUME NoPlaceholders, NEW w, WorldInv(w), w.roam.cur # NoSite,
           NEW e \in ContinueScout(w)
    PROVE  WorldInv(e) /\ MovedWell(w, e)
<1> DEFINE home == w.radio.sys[Primary]
           bad == IsDegraded(w, home) \/ IsColdStart(w, home)
<1>1. CASE ~ bad
  <2>1. e = AbortScout(w)
    BY <1>1 DEF ContinueScout
  <2> QED  BY <2>1, AbortScoutInv DEF MovedWell
<1>2. CASE bad /\ e = w
  BY <1>2 DEF MovedWell
<1>3. CASE bad /\ e # w
  <2>1. e \in EvaluateScout(w)
    BY <1>3 DEF ContinueScout
  <2>2. CASE ProvenGood(w, w.roam.cur, w.roam.got)
    <3>1. e = CommitRoam(w)
      BY <2>1, <2>2 DEF EvaluateScout
    <3>2. /\ WorldInv(e)
          /\ e.radio.sys[Primary] = w.roam.cur
          /\ e.sig = w.sig /\ e.roam.got = w.roam.got
      BY <3>1, CommitRoamInv
    <3>3. MovedWell(w, e)
      BY <1>3, <2>2, <3>2 DEF MovedWell, ProvenGood, IsDegraded, IsColdStart, VoiceDegraded
    <3> QED  BY <3>2, <3>3
  <2>3. CASE ~ ProvenGood(w, w.roam.cur, w.roam.got)
    <3>1. e \in ScoutNext(w)
      BY <2>1, <2>3 DEF EvaluateScout
    <3>2. w.roam.home = w.radio.sys[Primary] /\ w.roam.home \notin w.roam.cands
      BY DEF WorldInv, CycleConsistent
    <3> QED  BY <3>1, <3>2, ScoutNextInv DEF MovedWell
  <2> QED  BY <2>2, <2>3
<1> QED  BY <1>1, <1>2, <1>3

(* start_scout() begins a cycle with the candidates it resolved. *)
LEMMA StartScoutInv ==
    ASSUME NEW w, WorldInv(w), w.roam.cur = NoSite,
           NEW home, home = w.radio.sys[Primary],
           NEW cands \in SUBSET (Sites \ {home}),
           NEW e \in StartScout(w, home, cands)
    PROVE  WorldInv(e) /\ MovedWell(w, e)
<1> DEFINE v == [w EXCEPT !.roam.home = home, !.roam.cands = cands]
<1>1. CASE cands = {}
  BY <1>1 DEF StartScout, MovedWell
<1>2. CASE cands # {}
  <2>1. e \in ScoutNext(v)
    BY <1>2 DEF StartScout
  <2>2. home \in Sites
    BY ReceiverFacts DEF WorldInv, WorldOf, Radio
  <2>3. /\ v \in WorldOf(Roam) /\ v.radio = w.radio
        /\ v.roam.cur = NoSite /\ v.roam.home = home /\ v.roam.cands = cands
    BY <2>2 DEF WorldInv, WorldOf, Roam
  <2> HIDE DEF v
  <2>4. WorldInv(v)
    BY <2>3 DEF WorldInv, CycleConsistent
  <2> QED  BY <2>1, <2>3, <2>4, ScoutNextInv DEF MovedWell
<1> QED  BY <1>1, <1>2

(* The tick between cycles: degraded or cold home sites start one. *)
LEMMA TriggerScoutInv ==
    ASSUME NEW w, WorldInv(w), w.roam.cur = NoSite,
           NEW e \in TriggerScout(w)
    PROVE  WorldInv(e) /\ MovedWell(w, e)
<1> DEFINE home == w.radio.sys[Primary]
<1>1. CASE IsColdStart(w, home)
  BY <1>1, StartScoutInv DEF TriggerScout, SameSystemCandidates
<1>2. CASE ~ IsColdStart(w, home) /\ IsDegraded(w, home)
  <2>1. PICK c \in ResolvedCandidates(w, home) : e \in StartScout(w, home, c)
    BY <1>2 DEF TriggerScout
  <2>2. home \in Sites
    BY ReceiverFacts DEF WorldInv, WorldOf, Radio
  <2>3. c \in SUBSET (Sites \ {home})
    BY <2>1, <2>2, RxCtlAssumption DEF ResolvedCandidates
  <2> QED  BY <2>1, <2>3, StartScoutInv
<1>3. CASE ~ IsColdStart(w, home) /\ ~ IsDegraded(w, home)
  BY <1>3 DEF TriggerScout, MovedWell
<1> QED  BY <1>1, <1>2, <1>3

(* The reading of voice quality touches the measurements only. *)
LEMMA CheckVoiceDegradedInv ==
    ASSUME NEW w, WorldInv(w), NEW e \in CheckVoiceDegraded(w)
    PROVE  WorldInv(e) /\ e.radio = w.radio /\ e.roam = w.roam
<1> DEFINE s == w.radio.sys[Primary]
<1>1. s \in Sites /\ w.sig.bad \in [Sites -> Nat] /\ w \in WorldOf(Roam)
  BY ReceiverFacts DEF WorldInv, WorldOf, Radio, Signals
<1>2. PICK n \in Nat : e = [w EXCEPT !.sig.bad[s] = n]
  BY <1>1, RxCtlAssumption DEF CheckVoiceDegraded, AtMost
<1> HIDE DEF s
<1>3. e \in WorldOf(Roam) /\ e.radio = w.radio /\ e.roam = w.roam
  BY <1>1, <1>2 DEF WorldOf, Signals
<1> QED  BY <1>3 DEF WorldInv, CycleConsistent

(* roam_tick() as a whole preserves the invariant, and moves the primary   *)
(* only by an earned hand-off.                                             *)
LEMMA RoamTickInv ==
    ASSUME NoPlaceholders, NEW w, WorldInv(w), NEW e \in RoamTick(w)
    PROVE  WorldInv(e) /\ MovedWell(w, e)
<1>1. CASE ~ w.sig.due
  BY <1>1 DEF RoamTick, MovedWell
<1>2. CASE w.sig.due
  <2> DEFINE u == [w EXCEPT !.sig.due = FALSE]
  <2>1. u \in WorldOf(Roam) /\ u.radio = w.radio /\ u.roam = w.roam
    BY DEF WorldInv, WorldOf, Signals
  <2>2. PICK v \in CheckVoiceDegraded(u) :
            e \in IF v.roam.cur # NoSite THEN ContinueScout(v) ELSE TriggerScout(v)
    BY <1>2 DEF RoamTick
  <2> HIDE DEF u
  <2>3. WorldInv(u)
    BY <2>1 DEF WorldInv, CycleConsistent
  <2>4. WorldInv(v) /\ v.radio = w.radio /\ v.roam = w.roam
    BY <2>1, <2>2, <2>3, CheckVoiceDegradedInv
  <2>5. WorldInv(e) /\ MovedWell(v, e)
    BY <2>2, <2>4, ContinueScoutInv, TriggerScoutInv
  <2> QED  BY <2>4, <2>5 DEF MovedWell
<1> QED  BY <1>1, <1>2

-----------------------------------------------------------------------------
(* Handling a message.  The primary can only be idle on its home site, the *)
(* scout does not compete for that site then, and so the reassignment      *)
(* gives it the control channel back.                                      *)

(* After the reassignment of a handler the primary is not idle. *)
LEMMA ReassignedServes ==
    ASSUME NoPlaceholders, NEW w, WorldInv(w),
           NEW c \in Radio, RadioInv(c), LeavesScoutAlone(w.radio, c)
    PROVE  Primary \notin CheckCCAssignments(c).idle
<1> DEFINE h == HomeOf[Primary]
<1> SUFFICES ASSUME Primary \in c.idle
             PROVE  Assigns(c, h, Primary)
  BY ReceiverFacts, RxCtlAssumption DEF CheckCCAssignments, Radio
<1>1. c.sys[Primary] = h /\ h \in Sites
  BY ReceiverFacts, RxCtlAssumption DEF RadioInv, BoundWhereListed
<1>2. NoClaims(c, Primary)
  BY ReceiverFacts, IdleHasNoClaims
<1>3. c.cc[h] # Scout
  <2>1. CASE w.roam.cur = NoSite
    <3>1. Scout \in c.idle
      BY <2>1, ReceiverFacts DEF WorldInv, LeavesScoutAlone
    <3>2. NoClaims(c, Scout)
      BY <3>1, ReceiverFacts, IdleHasNoClaims
    <3> QED  BY <1>1, <3>2 DEF NoClaims
  <2>2. CASE w.roam.cur # NoSite
    <3>1. c.sys[Scout] # h
      BY <1>1, <2>2 DEF WorldInv, CycleConsistent, LeavesScoutAlone
    <3> QED  BY <1>1, <3>1, ReceiverFacts DEF RadioInv, ClaimsListen
  <2> QED  BY <2>1, <2>2
<1>4. c.cc[h] = NoRx
  BY <1>1, <1>2, <1>3, ReceiverFacts DEF NoClaims, Radio
<1>5. FirstIdle(c, h, Primary)
  BY <1>1, ReceiverFacts, RadioAssumption DEF FirstIdle
<1> QED  BY <1>1, <1>4, <1>5 DEF Assigns, NoPlaceholders

(* What process_qmsg() does before the roaming tick preserves the          *)
(* invariant.                                                              *)
LEMMA HandledInv ==
    ASSUME NoPlaceholders, NEW w, WorldInv(w), NEW m \in Message,
           NEW e \in Dispatch(w, m)
    PROVE  WorldInv(e) /\ e.roam = w.roam /\ e.radio.sys = w.radio.sys
<1>1. /\ e \in WorldOf(Roam) /\ e.roam = w.roam
      /\ RadioInv(e.radio) /\ LeavesScoutAlone(w.radio, e.radio)
      /\ Reassigned(w.radio, e.radio)
  BY DispatchInv DEF WorldInv
<1>2. Primary \notin e.radio.idle
  <2>1. CASE e.radio.idle = w.radio.idle
    BY <2>1 DEF WorldInv
  <2>2. CASE e.radio.idle # w.radio.idle
    BY <1>1, <2>2, ReassignedServes DEF Reassigned
  <2> QED  BY <2>1, <2>2
<1>3. WorldInv(e)
  BY <1>1, <1>2, FrameInv
<1> QED  BY <1>1, <1>3 DEF LeavesScoutAlone

(* So does counting the signalling block. *)
LEMMA BookedInv ==
    ASSUME NEW w, WorldInv(w), NEW m \in Message
    PROVE  LET e == Booked(w, m) IN
           WorldInv(e) /\ e.radio = w.radio /\ e.roam.cur = w.roam.cur
<1> DEFINE n == AtMost(w.roam.got + 1, MinTsbk)
           e == Booked(w, m)
<1>1. n \in 0..MinTsbk
  BY RxCtlAssumption DEF WorldInv, WorldOf, Roam, AtMost
<1>2. e = w \/ e = [w EXCEPT !.roam.got = n]
  BY DEF Booked
<1> HIDE DEF n, e
<1>3. CASE e = w
  BY <1>3 DEF e
<1>4. CASE e = [w EXCEPT !.roam.got = n]
  <2>1. /\ e \in WorldOf(Roam) /\ e.radio = w.radio
        /\ e.roam.cur = w.roam.cur /\ e.roam.home = w.roam.home
        /\ e.roam.cands = w.roam.cands
    BY <1>1, <1>4 DEF WorldInv, WorldOf, Roam
  <2>2. WorldInv(e)
    BY <2>1 DEF WorldInv, CycleConsistent
  <2> QED  BY <2>1, <2>2 DEF e
<1> QED  BY <1>2, <1>3, <1>4

(* What a framer queues is a message. *)
LEMMA EmissionsAreMessages ==
    ASSUME NEW d \in Radio, NEW r \in Receivers, NEW m \in Emissions(d, r)
    PROVE  m \in Message
<1>1. d.tuned[r][1] \in Sites \cup {NoSite}
  BY DEF Radio, Channel
<1> QED  BY <1>1 DEF Emissions, Message

-----------------------------------------------------------------------------
(* The steps.                                                              *)

(* post_init() ends in a state that satisfies the invariant. *)
LEMMA InitInv ==
    ASSUME NoPlaceholders, Init
    PROVE  IInv
<1>1. PICK s \in Sites :
          radio = CheckCCAssignments(
                    ReceiversIdle([r \in Receivers |->
                                     IF r = Primary THEN HomeOf[r] ELSE s]))
  BY DEF Init
<1> DEFINE start == [r \in Receivers |-> IF r = Primary THEN HomeOf[r] ELSE s]
           d == ReceiversIdle(start)
<1>2. start \in [Receivers -> Sites]
  BY RxCtlAssumption
<1>3. \A r \in Receivers : HomeOf[r] # NoSite => start[r] = HomeOf[r]
  BY ReceiverFacts
<1>4. RadioInv(d) /\ d.sys = start /\ d.idle = Receivers
  BY <1>2, <1>3, ReceiversIdleInv
<1>5. radio = CheckCCAssignments(d)
  BY <1>1
<1> HIDE DEF d
<1>6. RadioInv(radio) /\ LeavesScoutAlone(d, radio)
  BY <1>4, <1>5, CheckCCAssignmentsInv
<1>7. Scout \in radio.idle
  BY <1>4, <1>6, ReceiverFacts DEF LeavesScoutAlone
<1>8. sig \in Signals /\ roam \in Roam /\ roam.cur = NoSite
  BY MaxAgeType, RxCtlAssumption DEF Init, InitialSignals, Signals, Roam
<1>9. Primary \notin radio.idle
  <2> DEFINE w == [radio |-> d, sig |-> sig, roam |-> roam]
             h == HomeOf[Primary]
  <2>1. d.sys[Primary] = h /\ h \in Sites /\ Primary \in d.idle
    BY <1>4, RxCtlAssumption DEF RadioInv, BoundWhereListed
  <2>2. NoClaims(d, Primary) /\ NoClaims(d, Scout)
    BY <1>4, ReceiverFacts, IdleHasNoClaims
  <2>3. d.cc[h] = NoRx
    BY <1>4, <2>1, <2>2, ReceiverFacts DEF NoClaims, RadioInv, Radio
  <2>4. FirstIdle(d, h, Primary)
    BY <2>1, ReceiverFacts, RadioAssumption DEF FirstIdle
  <2>5. Assigns(d, h, Primary)
    BY <2>1, <2>3, <2>4 DEF Assigns, NoPlaceholders
  <2> QED  BY <1>4, <1>5, <2>1, <2>5 DEF CheckCCAssignments, RadioInv, Radio
<1>10. World \in WorldOf(Roam)
  BY <1>6, <1>8 DEF World, WorldOf, RadioInv
<1>11. WorldInv(World)
  BY <1>6, <1>7, <1>8, <1>9, <1>10 DEF WorldInv, CycleConsistent, World
<1>12. queue \in Seq(Message) /\ Len(queue) <= QueueMax /\ decoded \in 0..MinTsbk
  BY RxCtlAssumption DEF Init
<1> QED  BY <1>11, <1>12 DEF IInv

(* What one step does, beyond preserving the invariant: HandOff. *)
LEMMA DeliverInv ==
    ASSUME NoPlaceholders, IInv, Deliver
    PROVE  IInv' /\ HandOff
<1> DEFINE m == Head(queue)
           w0 == Booked(World, m)
<1>1. m \in Message /\ queue' \in Seq(Message) /\ Len(queue') <= QueueMax
  BY RxCtlAssumption DEF IInv, Deliver
<1>2. PICK w1 \in Dispatch(w0, m) : \E w2 \in RoamTick(w1) :
          radio' = w2.radio /\ sig' = w2.sig /\ roam' = w2.roam
  BY DEF Deliver
<1>3. PICK w2 \in RoamTick(w1) :
          radio' = w2.radio /\ sig' = w2.sig /\ roam' = w2.roam
  BY <1>2
<1> HIDE DEF m
<1>4. WorldInv(w0) /\ w0.radio = radio /\ w0.roam.cur = roam.cur
  BY <1>1, BookedInv DEF IInv, World
<1> HIDE DEF w0
<1>5. WorldInv(w1) /\ w1.roam = w0.roam /\ w1.radio.sys = radio.sys
  BY <1>1, <1>2, <1>4, HandledInv
<1>6. WorldInv(w2) /\ MovedWell(w1, w2)
  BY <1>3, <1>5, RoamTickInv
<1>7. World' = w2
  BY <1>3, <1>6 DEF WorldInv, WorldOf, World
<1>8. HandOff
  BY <1>3, <1>4, <1>5, <1>6 DEF HandOff, MovedWell
<1>9. decoded' \in 0..MinTsbk
  BY RxCtlAssumption DEF IInv, Deliver, AtMost
<1>10. WorldInv(World)'
  BY <1>6, <1>7
<1> QED  BY <1>1, <1>8, <1>9, <1>10 DEF IInv

(* Every action preserves the invariant. *)
LEMMA NextInv ==
    ASSUME NoPlaceholders, IInv, [Next]_vars
    PROVE  IInv' /\ [HandOff]_vars
<1>0. World \in WorldOf(Roam) /\ radio \in Radio /\ sig \in Signals /\ roam \in Roam
  BY DEF IInv, WorldInv, World, WorldOf
<1>1. ASSUME NEW r \in Receivers, Emit(r)
      PROVE  IInv' /\ HandOff
  <2>1. PICK m \in Emissions(radio, r) : queue' = Append(queue, m)
    BY <1>1 DEF Emit
  <2>2. m \in Message
    BY <1>0, <2>1, EmissionsAreMessages
  <2>3. queue' \in Seq(Message) /\ Len(queue') <= QueueMax
    BY <1>1, <2>1, <2>2, RxCtlAssumption DEF Emit, IInv
  <2>4. World' = World /\ radio' = radio /\ decoded' = decoded
    BY <1>1 DEF Emit, World
  <2> QED  BY <2>3, <2>4 DEF IInv, HandOff
<1>2. CASE Deliver
  BY <1>2, DeliverInv
<1>3. CASE Command
  <2>1. radio' \in {radio, CheckCCAssignments(radio),
                    CheckCCAssignments(ExpireTalkgroup(radio, Primary))}
    BY <1>3 DEF Command, UICommand
  <2>2. RadioInv(radio)
    BY DEF IInv, WorldInv, World
  <2>3. RadioInv(radio') /\ LeavesScoutAlone(radio, radio') /\ Reassigned(radio, radio')
    BY <2>1, <2>2, ReceiverFacts, CallEventInv
  <2>4. Primary \notin radio'.idle
    <3>1. CASE radio'.idle = radio.idle
      BY <3>1 DEF IInv, WorldInv, World
    <3>2. CASE radio'.idle # radio.idle
      <4>1. PICK c \in Radio : /\ RadioInv(c) /\ LeavesScoutAlone(radio, c)
                               /\ radio' = CheckCCAssignments(c)
        BY <2>3, <3>2 DEF Reassigned
      <4>2. LeavesScoutAlone(World.radio, c) /\ WorldInv(World)
        BY <4>1 DEF World, IInv
      <4> QED  BY <4>1, <4>2, ReassignedServes
    <3> QED  BY <3>1, <3>2
  <2>5. World' \in WorldOf(Roam) /\ World'.roam = World.roam
    BY <1>0, <1>3, <2>3 DEF Command, World, WorldOf, RadioInv
  <2>6. World'.radio = radio' /\ World.radio = radio
    BY DEF World
  <2>7. WorldInv(World')
    BY <2>3, <2>4, <2>5, <2>6, FrameInv DEF IInv
  <2>8. HandOff
    BY <2>3 DEF LeavesScoutAlone, HandOff
  <2> QED  BY <1>3, <2>7, <2>8 DEF IInv, Command
<1>4. CASE Elapse
  <2> DEFINE n == AtMost(roam.age + 1, Window)
  <2>1. sig' \in Signals
    BY <1>0, <1>4, OlderType DEF Elapse
  <2>2. n \in 0..Window
    BY <1>0, RxCtlAssumption DEF Roam, AtMost
  <2>3. roam' = [roam EXCEPT !.age = n] /\ radio' = radio
    BY <1>4 DEF Elapse
  <2> HIDE DEF n
  <2>4. /\ roam' \in Roam /\ roam'.cur = roam.cur
        /\ roam'.home = roam.home /\ roam'.cands = roam.cands
    BY <1>0, <2>2, <2>3 DEF Roam
  <2>5. WorldInv(World')
    BY <1>0, <2>1, <2>3, <2>4 DEF IInv, WorldInv, WorldOf, CycleConsistent, World
  <2>6. HandOff
    BY <2>3 DEF HandOff
  <2> QED  BY <1>4, <2>5, <2>6 DEF IInv, Elapse
<1>5. CASE UNCHANGED vars
  BY <1>5 DEF vars, IInv, World
<1> QED  BY <1>1, <1>2, <1>3, <1>4, <1>5 DEF Next

(* The invariant holds in every reachable state if no site lacks control   *)
(* channels.                                                               *)
THEOREM Invariance == ASSUME NoPlaceholders PROVE Spec => []IInv
  BY InitInv, NextInv, PTL DEF Spec

(* The records keep their types and cc_index stays inside cc_list. *)
THEOREM TypeCorrect == ASSUME NoPlaceholders PROVE Spec => []TypeOK
<1>1. IInv => TypeOK
  BY DEF IInv, WorldInv, WorldOf, World, RadioInv, TypeOK
<1> QED  BY <1>1, Invariance, PTL

(* Nobody holds a claim on a control channel without listening to it. *)
THEOREM ClaimantsListen == ASSUME NoPlaceholders PROVE Spec => []ClaimantListens
<1>1. IInv => ClaimantListens
  <2> SUFFICES ASSUME IInv, NEW s \in Sites, radio.cc[s] # NoRx
               PROVE  LET r == radio.cc[s] IN
                      /\ radio.sys[r] = s
                      /\ radio.tuned[r] = <<s, radio.idx[s]>>
                      /\ r \notin radio.idle
                      /\ radio.tgid[r] = NoTg
    BY DEF ClaimantListens
  <2>1. RadioInv(radio)
    BY DEF IInv, WorldInv, World
  <2>2. radio.cc[s] \in Receivers
    BY <2>1 DEF RadioInv, Radio
  <2> QED  BY <2>1, <2>2 DEF RadioInv, ClaimsListen
<1> QED  BY <1>1, Invariance, PTL

(* Between cycles the scout is idle and claims nothing; it never follows a *)
(* call.                                                                   *)
THEOREM ScoutIsParked == ASSUME NoPlaceholders PROVE Spec => []ScoutParked
<1>1. IInv => ScoutParked
  <2> SUFFICES ASSUME IInv PROVE ScoutParked
    OBVIOUS
  <2>1. RadioInv(radio) /\ (roam.cur = NoSite => Scout \in radio.idle)
    BY DEF IInv, WorldInv, World
  <2>2. radio.tgid[Scout] = NoTg
    BY <2>1, ReceiverFacts DEF RadioInv, BoundWhereListed, Radio
  <2>3. Scout \in radio.idle => NoClaims(radio, Scout)
    BY <2>1, ReceiverFacts, IdleHasNoClaims
  <2> QED  BY <2>1, <2>2, <2>3 DEF ScoutParked, NoClaims
<1> QED  BY <1>1, Invariance, PTL

(* After every step a site nobody listens to has no idle receiver: the     *)
(* primary, the only receiver in a list, is never left idle.               *)
THEOREM AlwaysServed == ASSUME NoPlaceholders PROVE Spec => []ServedIfPossible
<1>1. IInv => ServedIfPossible
  BY ReceiverFacts DEF IInv, WorldInv, World, ServedIfPossible
<1> QED  BY <1>1, Invariance, PTL

(* Only a hand-off to a site that passed its window moves the primary, and *)
(* only off a site that is still bad.                                      *)
THEOREM HandOffsAreEarned == ASSUME NoPlaceholders PROVE Spec => OnlyHandOffMovesPrimary
  BY Invariance, NextInv, PTL DEF Spec, OnlyHandOffMovesPrimary
=============================================================================
