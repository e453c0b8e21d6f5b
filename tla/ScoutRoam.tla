------------------------------ MODULE ScoutRoam -----------------------------
(***************************************************************************)
(* Scout-mode roaming: a second receiver, never in any receivers list,     *)
(* tries one neighbour site after the other while the primary stays where  *)
(* it is, and the primary is handed to the first site that decodes.        *)
(*                                                                         *)
(* radio and sig are described in P25Radio and RxCtl.  The coordinator's   *)
(* own state is                                                            *)
(*   roam.cur    scout_current      roam.home   scout_home_system          *)
(*   roam.cands  scout_candidates   roam.age    seconds of the window gone *)
(*   roam.got    stats['tsbk_count'] - scout_window_tsbk_baseline          *)
(* scout_home_rx is the primary whenever it is set.  Candidates are kept   *)
(* as a set: the code pops them in the order of its adjacency table or of  *)
(* sort_order, the model in any order.                                     *)
(*                                                                         *)
(* queue is the message queue between the demodulators and the one thread  *)
(* that runs rx_ctl.process_qmsg.  decoded is a history variable: how many *)
(* messages really received from roam.cur were handled in this window.     *)
(***************************************************************************)
EXTENDS RxCtl

CONSTANTS
    Scout        \* scout_msgq_id

ASSUME ScoutAssumption ==
    /\ Receivers = {Primary, Scout} /\ Primary # Scout
    /\ HomeOf[Scout] = NoSite       \* add_receiver(): in no receivers list

VARIABLES radio, sig, roam, queue, decoded

vars == <<radio, sig, roam, queue, decoded>>

World == [radio |-> radio, sig |-> sig, roam |-> roam]

NoCycle(r) ==
    [r EXCEPT !.cur = NoSite, !.home = NoSite, !.cands = {}]

Init ==
    /\ \E s \in Sites :
         radio = CheckCCAssignments(
                   ReceiversIdle([r \in Receivers |->
                                    IF r = Primary THEN HomeOf[r] ELSE s]))
    /\ sig = InitialSignals
    /\ roam = [cur |-> NoSite, home |-> NoSite, cands |-> {}, age |-> 0, got |-> 0]
    /\ queue = << >>
    /\ decoded = 0

-----------------------------------------------------------------------------
(* The coordinator, on w.radio, w.sig and w.roam.                          *)

AbortScoutIdleFirst(w) ==                                      \* mutant
    LET d == w.radio IN
    [w EXCEPT !.radio = IF w.roam.cur = NoSite THEN d
                        ELSE ReleaseCC(IdleRx(d, Scout), w.roam.cur, Scout),
              !.roam = NoCycle(@)]

AbortScout(w) ==
    LET d == w.radio IN
    [w EXCEPT !.radio = IF w.roam.cur = NoSite THEN d
                        ELSE IdleRx(ReleaseCC(d, w.roam.cur, Scout), Scout),
              !.roam = NoCycle(@)]

OpenWindowKeepsSite(r, s) ==                                   \* mutant
    [r EXCEPT !.cur = s, !.age = 0, !.got = 0]

OpenWindow(r, s) ==
    [r EXCEPT !.cur = s, !.cands = @ \ {s}, !.age = 0, !.got = 0]

ScoutSite(w, s) ==
    [w EXCEPT !.radio = TuneCC(Retarget(@, Scout, s), s, Scout),
              !.roam = OpenWindow(@, s)]

ScoutNext(w) ==
    IF w.roam.cands = {} THEN {AbortScout(w)}          \* "exhausted"
    ELSE {ScoutSite(w, s) : s \in w.roam.cands}

(* The scout lets go of the candidate first, so that the primary can claim *)
(* it; only then does the primary leave the site it is on.                 *)
CommitRoam(w) ==
    LET s  == w.roam.cur
        d1 == IdleRx(ReleaseCC(w.radio, s, Scout), Scout)
        d2 == ReleaseCC(d1, w.roam.home, Primary)
    IN  [w EXCEPT !.radio = TuneCC(Retarget(d2, Primary, s), s, Primary),
                  !.roam = NoCycle(@)]

EvaluateScout(w) ==
    IF ProvenGood(w, w.roam.cur, w.roam.got)
    THEN {CommitRoam(w)}
    ELSE ScoutNext(w)                                  \* "scout_reject"

StartScout(w, home, cands) ==
    IF cands = {} THEN {w}                             \* "no_candidates"
    ELSE ScoutNext([w EXCEPT !.roam.home = home, !.roam.cands = cands])

ContinueScoutRegardless(w) ==                                  \* mutant
    IF w.roam.age >= Window THEN EvaluateScout(w) ELSE {w}

ContinueScout(w) ==
    LET home == w.radio.sys[Primary] IN
    CASE ~ (IsDegraded(w, home) \/ IsColdStart(w, home)) -> {AbortScout(w)}  \* "recovered"
      [] (IsDegraded(w, home) \/ IsColdStart(w, home)) ->
           IF w.roam.age >= Window THEN EvaluateScout(w) ELSE {w}

TriggerScout(w) ==
    LET home == w.radio.sys[Primary] IN
    CASE IsColdStart(w, home) -> StartScout(w, home, SameSystemCandidates(home))
      [] ~ IsColdStart(w, home) /\ IsDegraded(w, home) ->
           UNION {StartScout(w, home, c) : c \in ResolvedCandidates(w, home)}
      [] ~ IsColdStart(w, home) /\ ~ IsDegraded(w, home) -> {w}

RoamTick(w) ==
    IF ~ w.sig.due THEN {w}
    ELSE UNION { IF v.roam.cur # NoSite THEN ContinueScout(v) ELSE TriggerScout(v) :
                 v \in CheckVoiceDegraded([w EXCEPT !.sig.due = FALSE]) }

-----------------------------------------------------------------------------
(* The steps.                                                              *)

(* A demodulator queues a message; when the queue is full it is lost. *)
Emit(r) ==
    /\ Len(queue) < QueueMax
    /\ \E m \in Emissions(radio, r) : queue' = Append(queue, m)
    /\ UNCHANGED <<radio, sig, roam, decoded>>

(* A message booked on roam.cur counts for it, wherever it came from. *)
Booked(w, m) ==
    IF m.kind = "signal" /\ w.radio.sys[m.rx] = w.roam.cur
    THEN [w EXCEPT !.roam.got = AtMost(@ + 1, MinTsbk)]
    ELSE w

(* The message thread: rx_ctl.process_qmsg(). *)
Deliver ==
    /\ queue # << >>
    /\ queue' = Tail(queue)
    /\ LET m == Head(queue) IN
       /\ \E w1 \in Dispatch(Booked(World, m), m) : \E w2 \in RoamTick(w1) :
            /\ radio' = w2.radio
            /\ sig' = w2.sig
            /\ roam' = w2.roam
       /\ decoded' =
            IF roam.cur = NoSite \/ roam'.cur \notin {roam.cur, NoSite}
            THEN 0                                   \* no window, or one opens
            ELSE AtMost(decoded + (IF m.kind = "signal" /\ m.src = roam.cur THEN 1 ELSE 0),
                        MinTsbk)

(* The user acts on the primary. *)
Command ==
    /\ radio' \in UICommand(radio, Primary)
    /\ UNCHANGED <<sig, roam, queue, decoded>>

Elapse ==
    /\ sig' = Older(sig)
    /\ roam' = [roam EXCEPT !.age = AtMost(@ + 1, Window)]
    /\ UNCHANGED <<radio, queue, decoded>>

Next == (\E r \in Receivers : Emit(r)) \/ Deliver \/ Command \/ Elapse

Spec == Init /\ [][Next]_vars

(* The flowgraph keeps framing (at least a timeout a second per receiver   *)
(* that is not idle), the message thread keeps draining, time passes.      *)
Fairness == WF_vars(\E r \in Receivers : Emit(r)) /\ WF_vars(Deliver) /\ WF_vars(Elapse)

FairSpec == Spec /\ Fairness

-----------------------------------------------------------------------------
(* Properties.                                                             *)

Roam ==
    [ cur   : Sites \cup {NoSite},
      home  : Sites \cup {NoSite},
      cands : SUBSET Sites,
      age   : 0..Window,
      got   : 0..MinTsbk ]

TypeOK ==
    /\ radio \in Radio /\ CCIndexInRange(radio)
    /\ sig \in Signals
    /\ roam \in Roam
    /\ queue \in Seq(Message) /\ Len(queue) <= QueueMax
    /\ decoded \in 0..MinTsbk

(* The receiver that claims a site's control channel is really the one     *)
(* that listens to it: bound to that site, tuned to the channel cc_index   *)
(* selects, enabled and in no call.  A claim left behind by a hand-off, an *)
(* aborted scout or a call would keep everyone else off that site forever. *)
ClaimantListens ==
    \A s \in Sites : radio.cc[s] # NoRx =>
        LET r == radio.cc[s] IN
        /\ radio.sys[r] = s
        /\ radio.tuned[r] = <<s, radio.idx[s]>>
        /\ r \notin radio.idle
        /\ radio.tgid[r] = NoTg

(* Between cycles the scout is parked: whatever ended the last cycle       *)
(* (commit, recovery, exhaustion) took its claim away and idled it, and a  *)
(* receiver parked like that never follows a call.                         *)
ScoutParked ==
    /\ radio.tgid[Scout] = NoTg
    /\ roam.cur = NoSite =>
         Scout \in radio.idle /\ \A s \in Sites : radio.cc[s] # Scout

(* No message is left half handled: after every step a site that has a     *)
(* control channel, but nobody on it, has no idle receiver in its list.    *)
ServedIfPossible ==
    \A s \in Sites :
        radio.cc[s] = NoRx /\ CCCount[s] > 0 =>
            \A r \in Receivers : HomeOf[r] = s => r \notin radio.idle

(* Make before break: the primary changes site only onto the candidate     *)
(* under evaluation, one that has been booked MinTsbk messages inside the  *)
(* window, and only while the site it leaves is still bad: a recovery in   *)
(* mid-cycle wins over a good candidate.                                   *)
HandOff ==
    radio'.sys[Primary] # radio.sys[Primary] =>
        /\ radio'.sys[Primary] = roam.cur
        /\ ProvenGood([sig |-> sig'], roam.cur, roam'.got)
        /\ LET w == [sig |-> sig'] home == radio.sys[Primary] IN
           IsDegraded(w, home) \/ IsColdStart(w, home)

OnlyHandOffMovesPrimary == [][HandOff]_vars

(* Every scout cycle ends, by hand-off, recovery or exhaustion: the        *)
(* candidates run out and every window is closed by a later message.       *)
CycleEnds == roam.cur # NoSite ~> roam.cur = NoSite

-----------------------------------------------------------------------------
(* What the documentation promises and the code does not do.               *)

(* The primary is handed only to a site that has proved itself decodable:  *)
(* MinTsbk messages received from it were handled in its window.           *)
OnlyDecodedSitesWin ==
    [][radio'.sys[Primary] # radio.sys[Primary] => decoded' >= MinTsbk]_vars

(* A site is usable once a receiver has been retargeted onto it: a grant   *)
(* heard on the channel the primary monitors can be followed by it.        *)
MonitoredSiteUsable ==
    \A s \in Sites, t \in Tgids :
        radio.cc[s] = Primary /\ radio.own[s][t] = NoRx =>
            CanTake(radio, Primary, s, t)
=============================================================================
