------------------------------- MODULE RxCtl --------------------------------
(***************************************************************************)
(* rx_ctl's dispatch of the messages the demodulators queue, and the       *)
(* measurements its roaming coordinator decides on.  Both roaming modes    *)
(* (ScoutRoam, DirectRoam) are built from these operators, which work on a *)
(* record w with at least the fields                                       *)
(*                                                                         *)
(*   radio        the tuning core, see P25Radio                            *)
(*   sig.heard    the sites with last_tsbk > 0                             *)
(*   sig.age[s]   seconds since s.last_tsbk, saturating at MaxAge          *)
(*   sig.bad[s]   s.voice_ber_bad_count, saturating at VoiceDebounce       *)
(*   sig.boot     seconds since roam_startup_time, saturating at Grace     *)
(*   sig.due      curr_time >= roam_last_check + ROAM_CHECK_INTERVAL       *)
(*                                                                         *)
(* voice_degraded is always recomputed with voice_ber_bad_count, so it is  *)
(* a function of it.  One unit of time is ROAM_CHECK_INTERVAL.             *)
(***************************************************************************)
EXTENDS P25Radio, Sequences

CONSTANTS
    Primary,        \* primary_msgq_id
    Neighbours,     \* Neighbours[s]: the sites s broadcasts as adjacent
    Stale,          \* roaming_stale_seconds
    VoiceDebounce,  \* ROAM_VOICE_DEBOUNCE_COUNT
    Grace,          \* ROAM_COLD_START_GRACE_SECONDS
    Window,         \* ROAM_SCOUT_WINDOW_SECONDS
    MinTsbk,        \* ROAM_MIN_TSBK_COUNT
    QueueMax        \* capacity of the gr.msg_queue shared by the channels

ASSUME RxCtlAssumption ==
    /\ Primary \in Receivers
    /\ HomeOf[Primary] \in Sites
    /\ Neighbours \in [Sites -> SUBSET Sites]
    /\ Stale \in Nat \ {0}  /\ VoiceDebounce \in Nat \ {0}
    /\ Grace \in Nat \ {0}  /\ Window \in Nat \ {0}
    /\ MinTsbk \in Nat \ {0} /\ QueueMax \in Nat \ {0}

MaxAge == IF Stale > Window THEN Stale ELSE Window

Signals ==
    [ heard : SUBSET Sites,
      age   : [Sites -> Nat],
      bad   : [Sites -> Nat],
      boot  : Nat,
      due   : BOOLEAN ]

InitialSignals ==
    [ heard |-> {},
      age   |-> [s \in Sites |-> MaxAge],
      bad   |-> [s \in Sites |-> 0],
      boot  |-> 0,
      due   |-> TRUE ]

AtMost(n, limit) == IF n > limit THEN limit ELSE n

(* One unit of time goes by. *)
Older(sig) ==
    [sig EXCEPT !.age  = [s \in Sites |-> AtMost(@[s] + 1, MaxAge)],
                !.boot = AtMost(@ + 1, Grace),
                !.due  = TRUE]

-----------------------------------------------------------------------------
(* Messages.  src is the site whose signal the message was decoded from:   *)
(* the code does not know it, it books a message on the system the         *)
(* receiver is bound to when the message is handled.                       *)

Message == [ rx   : Receivers,
             kind : {"signal", "timeout", "sync", "end", "info"},
             src  : Sites \cup {NoSite},
             tg   : Tgids \cup {NoTg} ]     \* talkgroup granted, if any

(* What the framer of receiver r may queue next, given its channel; an     *)
(* idle receiver (slot mask 4) frames nothing and does not even time out.  *)
Emissions(d, r) ==
    LET src == d.tuned[r][1]
        onVoice == d.tuned[r][2] = 0
        Msg(kind, tg) == [rx |-> r, kind |-> kind, src |-> src, tg |-> tg]
    IN  IF r \in d.idle THEN {}
        ELSE {Msg("timeout", NoTg)} \cup
             ( IF src = NoSite THEN {}
               ELSE {Msg("sync", NoTg)} \cup
                    {Msg("signal", t) : t \in Tgids \cup {NoTg}} \cup
                    (IF onVoice THEN {Msg("end", NoTg), Msg("info", NoTg)}
                                ELSE {}) )

SignalUnstampedGrant(w, m) ==                                  \* mutant
    LET s == w.radio.sys[m.rx] IN
    IF m.tg = NoTg
    THEN {[w EXCEPT !.sig.heard = @ \cup {s}, !.sig.age[s] = 0]}
    ELSE { [w EXCEPT !.radio = CheckCCAssignments(d)] :
           d \in ScanForTalkgroups(w.radio, s, m.tg) }

(* duid 7, 12, 18, 19: p25_system.process_qmsg() of the receiver's system. *)
(* Every decode handler begins by stamping last_tsbk.  tg # NoTg is the    *)
(* case updated > 0: voice assignment and CC reassignment follow.          *)
Signal(w, m) ==
    LET s  == w.radio.sys[m.rx]
        w1 == [w EXCEPT !.sig.heard = @ \cup {s}, !.sig.age[s] = 0]
    IN  IF m.tg = NoTg THEN {w1}
        ELSE { [w1 EXCEPT !.radio = CheckCCAssignments(d)] :
               d \in ScanForTalkgroups(w.radio, s, m.tg) }

(* m_type -1: CC hunting, or a strike against the voice channel. *)
TimeoutMessage(d, r) ==
    LET struck == [d EXCEPT !.vcr[r] = @ + 1]
    IN  CASE d.tgid[r] = NoTg /\ HasCC(d, r)   -> TimeoutCC(d, r)
          [] d.tgid[r] = NoTg /\ ~ HasCC(d, r) -> d
          [] d.tgid[r] # NoTg ->
               IF struck.vcr[r] >= VCTimeoutRetries
               THEN ExpireTalkgroup(struck, r)
               ELSE struck

(* m_type -4; not an update, so no CC reassignment follows. *)
SyncMessage(d, r) ==
    CASE d.tgid[r] = NoTg /\ HasCC(d, r)   -> [d EXCEPT !.retries[d.sys[r]] = 0]
      [] d.tgid[r] = NoTg /\ ~ HasCC(d, r) -> d
      [] d.tgid[r] # NoTg                  -> [d EXCEPT !.vcr[r] = 0]

EndMessageNoReassign(d, m) ==                                     \* mutant
    {d, ExpireTalkgroup(d, m.rx)}

(* duid 15 and 17, ignored when the NAC is not the one of the system the   *)
(* receiver is bound to; a message of another site may carry that NAC.     *)
EndMessage(d, m) ==
    {CheckCCAssignments(ExpireTalkgroup(d, m.rx))} \cup
    (IF m.src = d.sys[m.rx] THEN {} ELSE {d})

(* m_type -3, duid 16: source address and encryption of the call; may skip *)
(* an encrypted talkgroup.                                                 *)
InfoMessage(d, r) ==
    {d, CheckCCAssignments(d)} \cup
    (IF d.tgid[r] = NoTg THEN {} ELSE {CheckCCAssignments(ExpireTalkgroup(d, r))})

(* rx_ctl.process_qmsg() up to roam_tick(). *)
Dispatch(w, m) ==
    LET d == w.radio
        Radios(D) == {[w EXCEPT !.radio = e] : e \in D}
    IN  CASE m.kind = "signal"  -> Signal(w, m)
          [] m.kind = "timeout" -> Radios({CheckCCAssignments(TimeoutMessage(d, m.rx))})
          [] m.kind = "sync"    -> Radios({SyncMessage(d, m.rx)})
          [] m.kind = "end"     -> Radios(EndMessage(d, m))
          [] m.kind = "info"    -> Radios(InfoMessage(d, m.rx))

(* rx_ctl.ui_command(): hold, skip, lockout and whitelist end the call of  *)
(* the receiver or leave it alone; reassignment follows in any case.       *)
UICommand(d, r) ==
    {CheckCCAssignments(d), CheckCCAssignments(ExpireTalkgroup(d, r))}

-----------------------------------------------------------------------------
(* What starts a roam.                                                     *)

VoiceDegraded(w, s) == w.sig.bad[s] >= VoiceDebounce

(* _check_voice_degraded(): the primary's BER is bad, good or not readable. *)
CheckVoiceDegraded(w) ==
    LET s == w.radio.sys[Primary]
        bad == w.sig.bad[s]
        counts == IF w.radio.tgid[Primary] = NoTg
                  THEN {0}
                  ELSE {AtMost(bad + 1, VoiceDebounce), 0, bad}
    IN  {[w EXCEPT !.sig.bad[s] = n] : n \in counts}

IsDegraded(w, s) ==
    VoiceDegraded(w, s) \/ (s \in w.sig.heard /\ w.sig.age[s] >= Stale)

IsColdStart(w, s) ==
    s \notin w.sig.heard /\ w.sig.boot >= Grace

(* The test a site under evaluation has to pass; got counts the messages   *)
(* booked on it since its window began.                                    *)
ProvenGood(w, s, got) ==
    s \in w.sig.heard /\ w.sig.age[s] < Window /\ got >= MinTsbk

(* _resolve_candidates(): what has been heard of the neighbours so far. *)
ResolvedCandidates(w, home) ==
    IF home \in w.sig.heard THEN SUBSET (Neighbours[home] \ {home}) ELSE {{}}

(* _resolve_same_system_candidates(); all the sites share one system here. *)
SameSystemCandidates(home) == Sites \ {home}
=============================================================================
