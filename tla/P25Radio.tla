------------------------------ MODULE P25Radio ------------------------------
(***************************************************************************)
(* The tuning core of tk_p25.py: who monitors which control channel (CC)   *)
(* and what every receiver is tuned to.  It stands for the part of         *)
(* p25_system and p25_receiver that every handler of rx_ctl goes through,  *)
(* written as operators on one record:                                     *)
(*                                                                         *)
(*   cc[s]      p25_system.cc_msgq_id: the receiver that claimed s's CC    *)
(*   idx[s]     p25_system.cc_index, counted from 1                        *)
(*   retries[s] p25_system.cc_retries                                      *)
(*   own[s][t]  talkgroups[t]['receiver'] in the table of site s           *)
(*   sys[r]     p25_receiver.system (rx_ctl.receivers[r]['sysname'], which *)
(*              every handler changes together with it)                    *)
(*   idle       the receivers whose tuner_idle is set                      *)
(*   tuned[r]   p25_receiver.tuned_frequency                               *)
(*   tgid[r]    p25_receiver.current_tgid                                  *)
(*   vcr[r]     p25_receiver.vc_retries                                    *)
(*                                                                         *)
(* Frequencies are pairs: <<s, i>> is the i-th control channel of site s,  *)
(* <<s, 0>> any voice channel of site s, Untuned the 0 of retarget().      *)
(* A site's p25_system object is identified with the site.                 *)
(***************************************************************************)
EXTENDS Integers

CONSTANTS
    Sites,            \* configured sites: the keys of rx_ctl.systems
    Receivers,        \* trunked receivers, named by their msgq_id
    Tgids,            \* talkgroups of the logical system
    HomeOf,           \* the site whose 'receivers' list a receiver was put in
    CCCount,          \* length of a site's cc_list (0: placeholder site)
    CCTimeoutRetries, \* CC_TIMEOUT_RETRIES
    VCTimeoutRetries, \* VC_TIMEOUT_RETRIES
    NoRx, NoSite, NoTg

ASSUME RadioAssumption ==
    /\ Receivers \subseteq Nat
    /\ NoRx \notin Receivers
    /\ NoSite \notin Sites
    /\ NoTg \notin Tgids
    /\ HomeOf \in [Receivers -> Sites \cup {NoSite}]
    /\ CCCount \in [Sites -> Nat]
    /\ CCTimeoutRetries \in Nat \ {0}
    /\ VCTimeoutRetries \in Nat \ {0}

Untuned == <<NoSite, 0>>

Channel == (Sites \cup {NoSite}) \X Nat

(* The state the tuning core keeps. *)
Radio ==
    [ cc      : [Sites -> Receivers \cup {NoRx}],
      idx     : [Sites -> Nat],
      retries : [Sites -> Nat],
      own     : [Sites -> [Tgids -> Receivers \cup {NoRx}]],
      sys     : [Receivers -> Sites],
      idle    : SUBSET Receivers,
      tuned   : [Receivers -> Channel],
      tgid    : [Receivers -> Tgids \cup {NoTg}],
      vcr     : [Receivers -> Nat] ]

(* cc_list[cc_index] exists, as get_cc() asserts. *)
CCIndexInRange(d) ==
    \A s \in Sites : CCCount[s] > 0 => d.idx[s] \in 1..CCCount[s]

-----------------------------------------------------------------------------
(* p25_system: the claim on a site's control channel.                      *)

HasCC(d, r) == d.cc[d.sys[r]] = r

(* get_cc() hands a frequency to the claimant, or to anyone when unclaimed, *)
(* and only if the site has one.                                           *)
OffersCC(d, s, r) == CCCount[s] > 0 /\ d.cc[s] \in {NoRx, r}

ReleaseCC(d, s, r) ==
    IF d.cc[s] = r THEN [d EXCEPT !.cc[s] = NoRx] ELSE d

NextCCOffByOne(d, s) ==                                        \* mutant
    [d EXCEPT !.retries[s] = 0,
              !.idx[s] = IF @ > CCCount[s] THEN 1 ELSE @ + 1]

NextCC(d, s) ==
    [d EXCEPT !.retries[s] = 0,
              !.idx[s] = IF @ >= CCCount[s] THEN 1 ELSE @ + 1]

-----------------------------------------------------------------------------
(* p25_receiver: tuning.                                                   *)

(* idle_rx() refuses to idle a receiver that monitors its system's CC. *)
IdleRx(d, r) ==
    IF HasCC(d, r) THEN d ELSE [d EXCEPT !.idle = @ \cup {r}]

(* tune_cc(site.get_cc(r)): claim and tune, or go idle when nothing is offered *)
TuneCC(d, s, r) ==
    IF OffersCC(d, s, r)
    THEN [d EXCEPT !.cc[s] = r,
                   !.idle = @ \ {r},
                   !.tuned[r] = <<s, d.idx[s]>>]
    ELSE IdleRx(d, r)

(* The channel timeout of a receiver that monitors a CC: timeout_cc(), then *)
(* tune_cc() on what it returns.                                           *)
TimeoutCC(d, r) ==
    LET s == d.sys[r] IN
    TuneCC( IF d.retries[s] + 1 >= CCTimeoutRetries
            THEN NextCC(d, s)
            ELSE [d EXCEPT !.retries[s] = @ + 1],
            s, r )

RetargetKeepsClaim(d, r, s) ==                                 \* mutant
    [d EXCEPT !.sys[r] = s, !.tgid[r] = NoTg, !.tuned[r] = Untuned]

(* Leaves the talkgroup table of the old site as it is. *)
Retarget(d, r, s) ==
    [ReleaseCC(d, d.sys[r], r) EXCEPT !.sys[r] = s,
                                      !.tgid[r] = NoTg,
                                      !.tuned[r] = Untuned]

TuneVoiceKeepsCC(d, r, tg, tunable) ==                         \* mutant
    IF tunable
    THEN [d EXCEPT !.idle = @ \ {r},
                   !.tuned[r] = <<d.sys[r], 0>>,
                   !.vcr[r] = 0,
                   !.tgid[r] = tg,
                   !.own[d.sys[r]][tg] = r]
    ELSE [d EXCEPT !.idle = @ \ {r}]

(* tunable is FALSE for a TDMA channel of a site whose wacn/sysid are not  *)
(* known yet: tune_voice() then returns after it has given up the claim.   *)
TuneVoice(d, r, tg, tunable) ==
    LET s  == d.sys[r]
        d1 == IF r \in d.idle THEN [d EXCEPT !.idle = @ \ {r}]
                              ELSE ReleaseCC(d, s, r)
    IN  IF tunable
        THEN [d1 EXCEPT !.tuned[r] = <<s, 0>>,
                        !.vcr[r] = 0,
                        !.tgid[r] = tg,
                        !.own[s][tg] = r]
        ELSE d1

DropCallKeepsTable(d, r) ==                                    \* mutant
    [d EXCEPT !.tgid[r] = NoTg]

(* The state changes expire_talkgroup() makes before it decides to idle. *)
DropCall(d, r) ==
    [d EXCEPT !.own[d.sys[r]][d.tgid[r]] = NoRx, !.tgid[r] = NoTg]

ExpireTalkgroup(d, r) ==
    IF d.tgid[r] = NoTg THEN d ELSE IdleRx(DropCall(d, r), r)

-----------------------------------------------------------------------------
(* Voice assignment: a grant for tg has just been stamped in the table of  *)
(* site s.  find_talkgroup() only returns talkgroups stamped at or after   *)
(* the start of the message being handled, so nothing else is a candidate. *)
(* Skip lists, black and white lists, holds and priorities decide whether  *)
(* a receiver wants it; here any receiver may or may not.                  *)

CanTake(d, r, s, tg) ==
    /\ HomeOf[r] = s                 \* scanned: it is in s's receivers list
    /\ d.sys[r] = s                  \* looks tg up in its own system's table
    /\ d.own[s][tg] \in {NoRx, r}
    /\ d.tgid[r] # tg                \* active call unchanged: nothing to do

Follow(d, r, tg, tunable) ==
    IF d.tgid[r] = NoTg
    THEN TuneVoice(d, r, tg, tunable)
    ELSE TuneVoice(DropCall(d, r), r, tg, tunable)      \* "preempt"

ScanForTalkgroups(d, s, tg) ==
    {d} \cup { Follow(d, p[1], tg, p[2]) :
               p \in {r \in Receivers : CanTake(d, r, s, tg)} \X BOOLEAN }

-----------------------------------------------------------------------------
(* rx_ctl.check_cc_assignments(): every unclaimed site claims for the      *)
(* first idle receiver of its list.  A receiver is in one list at most, so *)
(* the sites do not compete and the loop is one simultaneous update.       *)

FirstIdle(d, s, r) ==
    /\ HomeOf[r] = s /\ r \in d.idle
    /\ \A q \in Receivers : HomeOf[q] = s /\ q \in d.idle => r <= q

Assigns(d, s, r) ==
    d.cc[s] = NoRx /\ CCCount[s] > 0 /\ FirstIdle(d, s, r)

CheckCCAssignments(d) ==
    [d EXCEPT
      !.cc    = [s \in Sites |-> IF \E r \in Receivers : Assigns(d, s, r)
                                 THEN CHOOSE r \in Receivers : Assigns(d, s, r)
                                 ELSE d.cc[s]],
      !.idle  = {r \in @ : ~ \E s \in Sites : Assigns(d, s, r)},
      !.tuned = [r \in Receivers |->
                   IF \E s \in Sites : Assigns(d, s, r)
                   THEN <<HomeOf[r], d.idx[HomeOf[r]]>>
                   ELSE d.tuned[r]]]

(* After __init__, add_receiver() and each receiver's post_init(), and     *)
(* before rx_ctl.post_init() assigns the control channels; start[r] is the *)
(* trunking_sysname of the receiver's channel.                             *)
ReceiversIdle(start) ==
    [ cc      |-> [s \in Sites |-> NoRx],
      idx     |-> [s \in Sites |-> 1],
      retries |-> [s \in Sites |-> 0],
      own     |-> [s \in Sites |-> [t \in Tgids |-> NoRx]],
      sys     |-> start,
      idle    |-> Receivers,
      tuned   |-> [r \in Receivers |-> Untuned],
      tgid    |-> [r \in Receivers |-> NoTg],
      vcr     |-> [r \in Receivers |-> 0] ]

-----------------------------------------------------------------------------
(* What holds between any two of these operators, in either roaming mode,  *)
(* as long as no site is a placeholder.                                    *)

NoPlaceholders == \A s \in Sites : CCCount[s] > 0

(* Who claims a control channel listens to it. *)
ClaimsListen(d) ==
    \A s \in Sites, r \in Receivers : d.cc[s] = r =>
        /\ CCCount[s] > 0
        /\ d.sys[r] = s
        /\ d.tuned[r] = <<s, d.idx[s]>>
        /\ r \notin d.idle
        /\ d.tgid[r] = NoTg

(* An idle receiver is in no call; a receiver that is idle in a receivers  *)
(* list or in a call is bound to the site of that list.                    *)
BoundWhereListed(d) ==
    \A r \in Receivers :
        /\ r \in d.idle => d.tgid[r] = NoTg
        /\ r \in d.idle /\ HomeOf[r] # NoSite => d.sys[r] = HomeOf[r]
        /\ d.tgid[r] # NoTg => d.sys[r] = HomeOf[r]

RadioInv(d) ==
    /\ d \in Radio
    /\ CCIndexInRange(d)
    /\ ClaimsListen(d)
    /\ BoundWhereListed(d)

(* From d to e no receiver is rebound, and one that is idle and in no      *)
(* receivers list stays idle.                                              *)
LeavesScoutAlone(d, e) ==
    /\ e.sys = d.sys
    /\ \A r \in Receivers : HomeOf[r] = NoSite /\ r \in d.idle => r \in e.idle
=============================================================================
