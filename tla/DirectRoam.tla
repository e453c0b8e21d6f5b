----------------------------- MODULE DirectRoam -----------------------------
(***************************************************************************)
(* Single-dongle roaming: there is no scout, so every attempt moves the    *)
(* only receiver.  A degraded site starts a cycle over the neighbours that *)
(* comes back to the site last; a cold start a cycle over all other sites  *)
(* of the system that reverts to the site it started from.                 *)
(*                                                                         *)
(* radio and sig are described in P25Radio and RxCtl.  direct_roam_* and   *)
(* direct_cold_* are never in use together, so one set of fields holds     *)
(* both: roam.phase says whose they are ("cycle" or "cold").               *)
(*   roam.home   *_home_system            roam.age  seconds of the window  *)
(*   roam.target direct_roam_target_system, direct_cold_current            *)
(*   roam.cands  *_candidates, as a set (see NextLeg for its order)        *)
(*   roam.got    stats['tsbk_count'] - *_tsbk_baseline                     *)
(*   roam.cool, roam.coldCool  seconds left until *_cooldown_until         *)
(*                                                                         *)
(* quiet is a history variable: the seconds since a degraded site's cycle  *)
(* last gave up.                                                           *)
(***************************************************************************)
EXTENDS RxCtl

CONSTANTS
    Cooldown,      \* ROAM_DIRECT_COOLDOWN_SECONDS
    ColdCooldown   \* ROAM_COLD_START_COOLDOWN_SECONDS

ASSUME DirectAssumption ==
    /\ Receivers = {Primary}
    /\ Cooldown \in Nat \ {0}
    /\ ColdCooldown \in Nat \ {0}

VARIABLES radio, sig, roam, queue, quiet

vars == <<radio, sig, roam, queue, quiet>>

World == [radio |-> radio, sig |-> sig, roam |-> roam]

Init ==
    /\ radio = CheckCCAssignments(ReceiversIdle(HomeOf))
    /\ sig = InitialSignals
    /\ roam = [phase |-> "none", home |-> NoSite, target |-> NoSite,
               cands |-> {}, age |-> 0, got |-> 0, cool |-> 0, coldCool |-> 0]
    /\ queue = << >>
    /\ quiet = Cooldown

-----------------------------------------------------------------------------
(* The coordinator, on w.radio, w.sig and w.roam.                          *)

(* _direct_retarget(); the release_cc() it starts with is repeated by      *)
(* retarget().                                                             *)
DirectRetarget(d, s) == TuneCC(Retarget(d, Primary, s), s, Primary)

(* _reset_direct(), _reset_direct_cold(): the cooldowns stay. *)
Reset(r) ==
    [r EXCEPT !.phase = "none", !.home = NoSite, !.target = NoSite, !.cands = {}]

TryNextKeepsSite(w, s) ==                                      \* mutant
    [w EXCEPT !.radio = DirectRetarget(@, s),
              !.roam = [@ EXCEPT !.target = s, !.age = 0, !.got = 0]]

OpenLeg(r, s) ==
    [r EXCEPT !.target = s, !.cands = @ \ {s}, !.age = 0, !.got = 0]

TryNext(w, s) ==
    [w EXCEPT !.radio = DirectRetarget(@, s), !.roam = OpenLeg(@, s)]

(* direct_roam_candidates is the neighbours, then home. *)
NextLeg(r) == IF r.cands = {r.home} THEN {r.home} ELSE r.cands \ {r.home}

DirectRoamNext(w) == {TryNext(w, s) : s \in NextLeg(w.roam)}

StartDirectWithoutHome(w, home, cands) ==                      \* mutant
    IF cands = {} THEN {w}
    ELSE DirectRoamNext([w EXCEPT !.roam.phase = "cycle", !.roam.home = home,
                                  !.roam.cands = cands])

StartDirect(w, home, cands) ==
    IF cands = {} THEN {w}                             \* "no_candidates"
    ELSE DirectRoamNext([w EXCEPT !.roam.phase = "cycle", !.roam.home = home,
                                  !.roam.cands = cands \cup {home}])

EvaluateDirect(w) ==
    LET r == w.roam
        good == ProvenGood(w, r.target, r.got)
    IN  CASE good -> {[w EXCEPT !.roam = Reset(@)]}    \* "commit", "recovered"
          [] ~ good /\ r.target # r.home -> DirectRoamNext(w)   \* "scout_reject"
          [] ~ good /\ r.target = r.home ->                     \* "exhausted"
               {[w EXCEPT !.roam = [Reset(@) EXCEPT !.cool = Cooldown]]}

DirectColdNextStays(w) ==                                      \* mutant
    IF w.roam.cands = {}
    THEN {[w EXCEPT !.roam = [Reset(@) EXCEPT !.coldCool = ColdCooldown]]}
    ELSE {TryNext(w, s) : s \in w.roam.cands}

DirectColdNext(w) ==
    IF w.roam.cands = {}
    THEN {[w EXCEPT !.radio = DirectRetarget(@, w.roam.home),   \* "exhausted"
                    !.roam = [Reset(@) EXCEPT !.coldCool = ColdCooldown]]}
    ELSE {TryNext(w, s) : s \in w.roam.cands}

StartDirectCold(w, home) ==
    IF SameSystemCandidates(home) = {}
    THEN {[w EXCEPT !.roam.coldCool = ColdCooldown]}   \* "no_candidates"
    ELSE DirectColdNext([w EXCEPT !.roam.phase = "cold", !.roam.home = home,
                                  !.roam.cands = SameSystemCandidates(home)])

EvaluateDirectCold(w) ==
    IF ProvenGood(w, w.roam.target, w.roam.got)
    THEN {[w EXCEPT !.roam = Reset(@)]}                \* "commit"
    ELSE DirectColdNext(w)                             \* "scout_reject"

TriggerDirectHasty(w) ==                                       \* mutant
    LET home == w.radio.sys[Primary] IN
    IF IsColdStart(w, home)
    THEN IF w.roam.coldCool > 0 THEN {w} ELSE StartDirectCold(w, home)
    ELSE IF IsDegraded(w, home)
         THEN UNION {StartDirect(w, home, c) : c \in ResolvedCandidates(w, home)}
         ELSE {w}

TriggerDirect(w) ==
    LET home == w.radio.sys[Primary] IN
    CASE IsColdStart(w, home) ->
           IF w.roam.coldCool > 0 THEN {w} ELSE StartDirectCold(w, home)
      [] ~ IsColdStart(w, home) /\ w.roam.cool = 0 /\ IsDegraded(w, home) ->
           UNION {StartDirect(w, home, c) : c \in ResolvedCandidates(w, home)}
      [] ~ IsColdStart(w, home) /\ ~ (w.roam.cool = 0 /\ IsDegraded(w, home)) -> {w}

RoamTickDirect(w) ==
    CASE w.roam.phase = "none" -> TriggerDirect(w)
      [] w.roam.phase # "none" /\ w.roam.age < Window -> {w}
      [] w.roam.phase = "cold" /\ w.roam.age >= Window -> EvaluateDirectCold(w)
      [] w.roam.phase = "cycle" /\ w.roam.age >= Window -> EvaluateDirect(w)

RoamTick(w) ==
    IF ~ w.sig.due THEN {w}
    ELSE UNION { RoamTickDirect(v) : v \in CheckVoiceDegraded([w EXCEPT !.sig.due = FALSE]) }

-----------------------------------------------------------------------------
(* The steps.                                                              *)

Emit ==
    /\ Len(queue) < QueueMax
    /\ \E m \in Emissions(radio, Primary) : queue' = Append(queue, m)
    /\ UNCHANGED <<radio, sig, roam, quiet>>

Booked(w, m) ==
    IF m.kind = "signal" /\ w.radio.sys[m.rx] = w.roam.target
    THEN [w EXCEPT !.roam.got = AtMost(@ + 1, MinTsbk)]
    ELSE w

(* The message thread: rx_ctl.process_qmsg(). *)
Deliver ==
    /\ queue # << >>
    /\ queue' = Tail(queue)
    /\ LET m == Head(queue) IN
       \E w1 \in Dispatch(Booked(World, m), m) : \E w2 \in RoamTick(w1) :
            /\ radio' = w2.radio
            /\ sig' = w2.sig
            /\ roam' = w2.roam
    /\ quiet' = IF roam'.cool > roam.cool THEN 0 ELSE quiet

(* The user acts on the receiver, or a site is added (add_site() ends with *)
(* the same reassignment).                                                 *)
Command ==
    /\ radio' \in UICommand(radio, Primary)
    /\ UNCHANGED <<sig, roam, queue, quiet>>

Elapse ==
    /\ sig' = Older(sig)
    /\ roam' = [roam EXCEPT !.age = AtMost(@ + 1, Window),
                            !.cool = IF @ = 0 THEN 0 ELSE @ - 1,
                            !.coldCool = IF @ = 0 THEN 0 ELSE @ - 1]
    /\ quiet' = AtMost(quiet + 1, Cooldown)
    /\ UNCHANGED <<radio, queue>>

Next == Emit \/ Deliver \/ Command \/ Elapse

Spec == Init /\ [][Next]_vars

(* As in ScoutRoam: framing, the message thread and time keep going. *)
Fairness == WF_vars(Emit) /\ WF_vars(Deliver) /\ WF_vars(Elapse)

FairSpec == Spec /\ Fairness

-----------------------------------------------------------------------------
(* Properties.                                                             *)

Roam ==
    [ phase : {"none", "cycle", "cold"},
      home : Sites \cup {NoSite}, target : Sites \cup {NoSite},
      cands : SUBSET Sites,
      age : 0..Window, got : 0..MinTsbk,
      cool : 0..Cooldown, coldCool : 0..ColdCooldown ]

TypeOK ==
    /\ radio \in Radio /\ CCIndexInRange(radio)
    /\ sig \in Signals
    /\ roam \in Roam
    /\ queue \in Seq(Message) /\ Len(queue) <= QueueMax
    /\ quiet \in 0..Cooldown

(* The claim on a control channel is held by a receiver that listens to it *)
(* through every leg of a cycle, every call and every user command.        *)
ClaimantListens == ClaimsListen(radio)

(* The only receiver is never left idle.  An idle receiver frames nothing, *)
(* and roam_tick() runs only when a message is handled: the coordinator    *)
(* would never run again.                                                  *)
NeverDeaf == Primary \notin radio.idle

(* While a cycle runs, the receiver is bound to the leg being evaluated,   *)
(* so that what it decodes is booked on it; and home is still to come, so  *)
(* that popping the next leg never fails.                                  *)
LegIsBound ==
    roam.phase # "none" =>
        /\ roam.target = radio.sys[Primary]
        /\ roam.phase = "cycle" /\ roam.target # roam.home => roam.home \in roam.cands
        /\ roam.phase = "cold" => roam.target # roam.home

(* A cycle leaves the receiver on the site it started from or on one that  *)
(* passed its window, and nothing else ever moves the receiver.            *)
EndsOnHomeOrProven ==
    [][ radio'.sys[Primary] # radio.sys[Primary] \/ roam.phase # "none" =>
          \/ roam'.phase # "none"
          \/ radio'.sys[Primary] = roam.home
          \/ ProvenGood([sig |-> sig'], radio'.sys[Primary], roam'.got) ]_vars

(* When every neighbour and home have failed, the receiver stays on home   *)
(* for the cooldown: no trigger of either kind moves it, so the normal     *)
(* retry of home's own control channels gets its chance.                   *)
QuietAfterExhaustion ==
    [][ roam.phase = "none" /\ radio'.sys[Primary] # radio.sys[Primary] =>
          quiet >= Cooldown ]_vars

(* Every cycle ends: by commit, recovery or exhaustion. *)
CycleEnds == roam.phase # "none" ~> roam.phase = "none"

(* The two triggers exclude each other on every site (the comment of       *)
(* _is_cold_start() argues it): a bad-voice reading needs a call, and a    *)
(* call on a site needs a message of the site.                             *)
TriggersExclusive ==
    \A s \in Sites : ~ (IsColdStart(World, s) /\ IsDegraded(World, s))

=============================================================================
