----------------------------- MODULE CallFollow -----------------------------
(***************************************************************************)
(* Which call a receiver follows: grants, priorities, preemption, manual   *)
(* and automatic holds, skip list, black list and white list, for the      *)
(* receivers of fixed sites (no roaming).  Unlike ScoutRoam, the message   *)
(* thread's handler is several steps here: it holds no lock from one       *)
(* receiver's scan to the next, and the UI thread's commands run between.  *)
(*                                                                         *)
(*   radio          the tuning core, see P25Radio                          *)
(*   ear[r].hold    hold_tgid          ear[r].skip[t]  skiplist, see below *)
(*   ear[r].mode    hold_mode          ear[r].black    blacklist           *)
(*   ear[r].until   hold_until - now   ear[r].white    whitelist, {}: none *)
(*   ear[r].private whitelist is None or a dictionary of r's own, not the  *)
(*                  one that all receivers of the system share             *)
(*   hand           the handler in progress: the receivers it still has to *)
(*                  scan, the talkgroups its message stamped ('time'), the *)
(*                  encrypted ones of those, and the ones with a           *)
(*                  'frequency' (the end of a call takes it away again)    *)
(*   due            curr_time > cleanup_timer + CLEANUP_TIMER              *)
(*                                                                         *)
(* skip[t] is 0 when t is not listed, 1 when its time is over but the      *)
(* entry is still there, and counts down to 1 in between.  With a database *)
(* the lists are the system's and every talkgroup is in its tag set;       *)
(* without one each channel is configured with list files of its own.      *)
(***************************************************************************)
EXTENDS P25Radio, Sequences

CONSTANTS
    Prio,          \* talkgroup priorities, 1 is the highest
    HoldTime,      \* tgid_hold_time
    SkipTime,      \* TGID_SKIP_TIME
    CryptSkips,    \* crypt_behavior > 1
    EarlyGrants,   \* TDMA grants may come before wacn and sysid are known
    Database,      \* the configuration comes from the database
    FileBlack,     \* the configured blacklist
    FileWhite,     \* the configured whitelist
    Commands       \* UI commands that may be given

Forever == HoldTime + 1      \* 86400 * 10000 seconds from now

ASSUME CallAssumption ==
    /\ HomeOf \in [Receivers -> Sites]
    /\ Prio \in [Tgids -> Nat]
    /\ HoldTime \in Nat \ {0} /\ SkipTime \in Nat \ {0}
    /\ CryptSkips \in BOOLEAN /\ EarlyGrants \in BOOLEAN /\ Database \in BOOLEAN
    /\ FileBlack \subseteq Tgids /\ FileWhite \subseteq Tgids
    /\ Commands \subseteq {"hold", "skip", "lockout", "whitelist", "reload"}

VARIABLES radio, ear, hand, due

vars == <<radio, ear, hand, due>>

World == [radio |-> radio, ear |-> ear, hand |-> hand]

Idling == [busy |-> FALSE, site |-> NoSite, todo |-> {}, stamped |-> {},
           secret |-> {}, placed |-> {}]

(* load_bl_wl(). *)
LoadLists(e) ==
    [e EXCEPT !.black = FileBlack, !.white = FileWhite,
              !.private = ~ Database \/ FileWhite = {}]

Init ==
    /\ radio = CheckCCAssignments(ReceiversIdle(HomeOf))
    /\ ear = [r \in Receivers |->
                LoadLists([hold |-> NoTg, mode |-> FALSE, until |-> 0,
                           skip |-> [t \in Tgids |-> 0],
                           black |-> {}, white |-> {}, private |-> TRUE])]
    /\ hand = Idling
    /\ due = TRUE

-----------------------------------------------------------------------------
(* Holds and lists, on w.radio, w.ear and w.hand.                          *)

Current(w, r) == w.radio.tgid[r]

SetHold(w, r, tg, until, mode) ==
    [w EXCEPT !.ear[r].hold = tg, !.ear[r].until = until, !.ear[r].mode = mode]

ClearHold(w, r) == SetHold(w, r, NoTg, 0, FALSE)

(* What expire_talkgroup() does before it goes idle: the call is taken out *)
(* of the table and, unless a manual hold is on, its talkgroup is held.    *)
EndCall(w, r, autoHold) ==
    LET tg == Current(w, r)
        w1 == [w EXCEPT !.radio = DropCall(@, r), !.hand.placed = @ \ {tg}]
    IN  CASE w.ear[r].mode                -> w1
          [] ~ w.ear[r].mode /\ autoHold   -> SetHold(w1, r, tg, HoldTime, FALSE)
          [] ~ w.ear[r].mode /\ ~ autoHold -> ClearHold(w1, r)

Release(w, r, autoHold) ==
    IF Current(w, r) = NoTg THEN w
    ELSE LET w1 == EndCall(w, r, autoHold)
         IN  [w1 EXCEPT !.radio = IdleRx(@, r)]

CheckExpiredHold(w, r) ==
    IF w.ear[r].hold # NoTg /\ w.ear[r].until = 0 THEN ClearHold(w, r) ELSE w

AddSkip(w, r, t) ==
    IF w.ear[r].skip[t] > 0 THEN w
    ELSE LET w1 == [w EXCEPT !.ear[r].skip[t] = SkipTime + 1]
         IN  IF Current(w, r) # NoTg /\ w1.ear[r].skip[Current(w, r)] > 0
             THEN ClearHold(Release(w1, r, TRUE), r)
             ELSE w1

SetBlack(w, r, tgs) ==
    [w EXCEPT !.ear = [q \in Receivers |->
        IF q = r \/ (Database /\ w.radio.sys[q] = w.radio.sys[r])
        THEN [w.ear[q] EXCEPT !.black = tgs] ELSE w.ear[q]]]

(* A list that its last entry leaves is replaced by None. *)
SetWhite(w, r, tgs) ==
    LET Shares(q) == /\ w.radio.sys[q] = w.radio.sys[r]
                     /\ ~ w.ear[q].private /\ ~ w.ear[r].private
        w1 == [w EXCEPT !.ear = [q \in Receivers |->
                 IF q = r \/ Shares(q) THEN [w.ear[q] EXCEPT !.white = tgs] ELSE w.ear[q]]]
    IN  [w1 EXCEPT !.ear[r].private = @ \/ tgs = {}]

(* Unlike the other two lists, only hold_mode is reset. *)
AddBlack(w, r, t) ==
    IF t \in w.ear[r].black THEN w
    ELSE LET w0 == IF t \in w.ear[r].white THEN SetWhite(w, r, w.ear[r].white \ {t}) ELSE w
             w1 == SetBlack(w0, r, w.ear[r].black \cup {t})
         IN  IF Current(w, r) \in w1.ear[r].black
             THEN [Release(w1, r, FALSE) EXCEPT !.ear[r].mode = FALSE]
             ELSE w1

AddWhite(w, r, t) ==
    LET w0 == SetBlack(w, r, w.ear[r].black \ {t})
        w1 == SetWhite(w0, r, w.ear[r].white \cup {t})
    IN  IF /\ t \notin w.ear[r].white
           /\ Current(w, r) # NoTg
           /\ Current(w, r) \notin w1.ear[r].white
        THEN ClearHold(Release(w1, r, TRUE), r)
        ELSE w1

HoldTalkgroup(w, r, t) ==
    LET held == SetHold(w, r, t, Forever, TRUE) IN
    IF Current(w, r) # t THEN Release(held, r, FALSE) ELSE held

(* reload_from_db() and load_bl_wl().  The database rows replace the       *)
(* talkgroup table: bookings, time stamps and frequencies are forgotten.   *)
Reload(w, r) ==
    IF Database
    THEN LET s == w.radio.sys[r] IN
         [w EXCEPT !.radio.own[s] = [t \in Tgids |-> NoRx],
                   !.ear = [q \in Receivers |->
                              IF HomeOf[q] = s THEN LoadLists(w.ear[q]) ELSE w.ear[q]],
                   !.hand.stamped = IF w.hand.site = s THEN {} ELSE @,
                   !.hand.placed  = IF w.hand.site = s THEN {} ELSE @]
    ELSE [w EXCEPT !.ear[r] = LoadLists(@)]

ToggleHold(w, r) ==
    CASE w.ear[r].mode -> Release(ClearHold(w, r), r, FALSE)
      [] ~ w.ear[r].mode /\ Current(w, r) # NoTg ->
           SetHold(w, r, Current(w, r), Forever, TRUE)
      [] ~ w.ear[r].mode /\ Current(w, r) = NoTg -> w

(* The lists let t through. *)
Listed(e, t) ==
    /\ e.skip[t] = 0
    /\ t \in e.black => t \in e.white
    /\ e.white # {} => t \in e.white

-----------------------------------------------------------------------------
(* Voice assignment.                                                       *)

StartsFromHeld(w, r) ==                                        \* mutant
    LET t == w.ear[r].hold IN
    IF t # NoTg /\ w.radio.own[w.hand.site][t] \in {NoRx, r} THEN t ELSE NoTg

(* The talkgroup find_talkgroup() starts from: the held one, or the one of *)
(* the call in progress, unless another receiver has it.                   *)
StartsFrom(w, r) ==
    LET e == w.ear[r]
        t == IF e.hold # NoTg THEN e.hold ELSE Current(w, r)
    IN  IF t # NoTg /\ w.radio.own[w.hand.site][t] \in {NoRx, r} THEN t ELSE NoTg

CompetesTaken(w, r, start) ==                                  \* mutant
    { t \in w.hand.stamped \ w.hand.secret :
        /\ ~ (w.ear[r].mode /\ w.ear[r].hold # NoTg)
        /\ Listed(w.ear[r], t)
        /\ start # NoTg => Prio[t] < Prio[start] }

CompetesBlacklisted(w, r, start) ==                            \* mutant
    { t \in w.hand.stamped \ w.hand.secret :
        /\ ~ (w.ear[r].mode /\ w.ear[r].hold # NoTg)
        /\ w.ear[r].skip[t] = 0
        /\ w.ear[r].white # {} => t \in w.ear[r].white
        /\ w.radio.own[w.hand.site][t] = NoRx
        /\ start # NoTg => Prio[t] < Prio[start] }

CompetesUnderHold(w, r, start) ==                              \* mutant
    { t \in w.hand.stamped \ w.hand.secret :
        /\ Listed(w.ear[r], t)
        /\ w.radio.own[w.hand.site][t] = NoRx
        /\ start # NoTg => Prio[t] < Prio[start] }

(* The talkgroups that may displace it. *)
Competes(w, r, start) ==
    { t \in w.hand.stamped \ w.hand.secret :
        /\ ~ (w.ear[r].mode /\ w.ear[r].hold # NoTg)  \* manual holds are not pre-emptable
        /\ Listed(w.ear[r], t)
        /\ w.radio.own[w.hand.site][t] = NoRx
        /\ start # NoTg => Prio[t] < Prio[start] }

FindTalkgroup(w, r) ==
    LET start == StartsFrom(w, r)
        found == Competes(w, r, start)
        best  == {t \in found : \A u \in found : Prio[t] <= Prio[u]}
    IN  (IF found = {} THEN {start} ELSE best) \cap w.hand.stamped

(* tune_voice(); an automatic hold ends when the receiver is tuned. *)
StartCall(w, r, t, tunable) ==
    LET w1 == [w EXCEPT !.radio = TuneVoice(@, r, t, tunable)] IN
    IF tunable /\ ~ w.ear[r].mode THEN ClearHold(w1, r) ELSE w1

FollowCall(w, r, t, tunable) ==
    IF Current(w, r) = NoTg THEN StartCall(w, r, t, tunable)
    ELSE StartCall(EndCall(w, r, TRUE), r, t, tunable)             \* "preempt"

(* scan_for_talkgroups(). *)
Purged(w, r) ==
    [w EXCEPT !.ear[r].skip = [t \in Tgids |-> IF @[t] = 1 THEN 0 ELSE @[t]]]

ScanReceiver(w, r) ==
    LET w1 == Purged(CheckExpiredHold(w, r), r)
        wanted == {t \in FindTalkgroup(w1, r) : t # Current(w, r) /\ t \in w1.hand.placed}
    IN  IF wanted = {} THEN {w1}
        ELSE { FollowCall(w1, r, t, tunable) :
               t \in wanted, tunable \in IF EarlyGrants THEN BOOLEAN ELSE {TRUE} }

-----------------------------------------------------------------------------
(* The message thread, one message at a time.                              *)

(* rx_ctl.process_qmsg() begins to scan the receivers of the site of r. *)
Updated(w, r, stamped, secret) ==
    [w EXCEPT !.hand = [busy |-> TRUE, site |-> w.radio.sys[r],
                        todo |-> {q \in Receivers : HomeOf[q] = w.radio.sys[r]},
                        stamped |-> stamped, secret |-> secret, placed |-> stamped]]

Become(w) == radio' = w.radio /\ ear' = w.ear /\ hand' = w.hand

(* duid 7, 12, 18, 19 with grants: one block stamps one or two talkgroups, *)
(* and with each the talkgroups patched to it.                             *)
Grant(r) ==
    /\ ~ hand.busy
    /\ \E stamped \in (SUBSET Tgids) \ {{}} :
       \E secret \in (IF CryptSkips THEN SUBSET stamped ELSE {{}}) :
         Become(Updated(World, r, stamped, secret))
    /\ UNCHANGED due

CallTerminatesQuietly(r) ==                                    \* mutant
    /\ ~ hand.busy
    /\ Become(Release(World, r, TRUE))
    /\ UNCHANGED due

(* duid 15 and 17, with the NAC of the site. *)
CallTerminates(r) ==
    /\ ~ hand.busy
    /\ Become(Updated(Release(World, r, TRUE), r, {}, {}))
    /\ UNCHANGED due

(* m_type -1. *)
TimesOut(w, r) ==
    LET d == w.radio
        struck == [w EXCEPT !.radio.vcr[r] = @ + 1]
    IN  CASE d.tgid[r] = NoTg /\ HasCC(d, r)   -> [w EXCEPT !.radio = TimeoutCC(@, r)]
          [] d.tgid[r] = NoTg /\ ~ HasCC(d, r) -> w
          [] d.tgid[r] # NoTg ->
               IF struck.radio.vcr[r] >= VCTimeoutRetries
               THEN Release(struck, r, TRUE)
               ELSE struck

ChannelTimeout(r) ==
    /\ ~ hand.busy
    /\ Become(Updated(TimesOut(World, r), r, {}, {}))
    /\ UNCHANGED due

(* m_type -4; it does not count as an update, so no scan follows. *)
SyncEstablished(r) ==
    /\ ~ hand.busy
    /\ radio' = CASE Current(World, r) # NoTg -> [radio EXCEPT !.vcr[r] = 0]
                  [] Current(World, r) = NoTg /\ HasCC(radio, r) ->
                       [radio EXCEPT !.retries[radio.sys[r]] = 0]
                  [] Current(World, r) = NoTg /\ ~ HasCC(radio, r) -> radio
    /\ UNCHANGED <<ear, hand, due>>

(* m_type -3, duid 16 about a call in progress: a scan follows. *)
CallInfo(r) ==
    /\ ~ hand.busy
    /\ \E t \in Tgids : radio.own[radio.sys[r]][t] # NoRx
    /\ Become(Updated(World, r, {}, {}))
    /\ UNCHANGED due

(* m_type -3, duid 16: an encrypted call is skipped; duid 16 skips the     *)
(* talkgroup it names, whichever call is in progress.                      *)
EncryptedCall(r) ==
    /\ ~ hand.busy /\ CryptSkips
    /\ \E t \in Tgids : Become(Updated(AddSkip(World, r, t), r, {}, {}))
    /\ UNCHANGED due

(* Receivers are scanned in the order of the list. *)
Scan(r) ==
    /\ hand.busy /\ r \in hand.todo
    /\ \A q \in hand.todo : r <= q
    /\ \E w \in ScanReceiver(World, r) :
         Become([w EXCEPT !.hand.todo = @ \ {r}])
    /\ UNCHANGED due

(* check_cc_assignments(), then the cleanup of expired holds. *)
Reassign ==
    /\ hand.busy /\ hand.todo = {}
    /\ radio' = CheckCCAssignments(radio)
    /\ ear' = IF due THEN [r \in Receivers |-> CheckExpiredHold(World, r).ear[r]] ELSE ear
    /\ hand' = Idling
    /\ due' = FALSE

-----------------------------------------------------------------------------
(* The UI thread: rx_ctl.ui_command(), which ends with a reassignment.     *)

Commanded(w, r) ==
    UNION { IF "hold" \in Commands
            THEN {ToggleHold(w, r)} \cup {HoldTalkgroup(w, r, t) : t \in Tgids} ELSE {},
            IF "skip" \in Commands /\ Current(w, r) # NoTg
            THEN {AddSkip(w, r, Current(w, r))} ELSE {},
            IF "lockout" \in Commands THEN {AddBlack(w, r, t) : t \in Tgids} ELSE {},
            IF "whitelist" \in Commands THEN {AddWhite(w, r, t) : t \in Tgids} ELSE {},
            IF "reload" \in Commands
            THEN {Reload(w, r)} ELSE {} }

Command(r) ==
    /\ \E w \in Commanded(World, r) :
         Become([w EXCEPT !.radio = CheckCCAssignments(@)])
    /\ UNCHANGED due

(* One unit of time goes by. *)
Elapse ==
    /\ ear' = [r \in Receivers |->
                 [ear[r] EXCEPT !.until = IF @ \in {0, Forever} THEN @ ELSE @ - 1,
                                !.skip = [t \in Tgids |-> IF @[t] > 1 THEN @[t] - 1 ELSE @[t]]]]
    /\ due' = TRUE
    /\ UNCHANGED <<radio, hand>>

Handle(r) ==
    \/ Grant(r) \/ CallTerminates(r) \/ ChannelTimeout(r)
    \/ SyncEstablished(r) \/ CallInfo(r) \/ EncryptedCall(r)

Next ==
    \/ \E r \in Receivers : Handle(r) \/ Scan(r) \/ Command(r)
    \/ Reassign
    \/ Elapse

Spec == Init /\ [][Next]_vars

(* The message thread finishes what it began; a receiver in a call keeps   *)
(* framing, and either a termination is decoded or the channel times out   *)
(* again and again without a sync in between.                              *)
Fairness ==
    /\ WF_vars(Reassign)
    /\ \A r \in Receivers : WF_vars(Scan(r)) /\ SF_vars(CallTerminates(r) /\ radio.tgid[r] # NoTg)

FairSpec == Spec /\ Fairness

-----------------------------------------------------------------------------
(* Properties.                                                             *)

Ear == [ hold  : Tgids \cup {NoTg},
         mode  : BOOLEAN,
         until : 0..Forever,
         skip  : [Tgids -> 0..SkipTime + 1],
         black : SUBSET Tgids,
         white : SUBSET Tgids,
         private : BOOLEAN ]

Handler == [ busy : BOOLEAN, site : Sites \cup {NoSite}, todo : SUBSET Receivers,
             stamped : SUBSET Tgids, secret : SUBSET Tgids, placed : SUBSET Tgids ]

TypeOK ==
    /\ radio \in Radio /\ CCIndexInRange(radio)
    /\ ear \in [Receivers -> Ear]
    /\ hand \in Handler
    /\ due \in BOOLEAN

(* The talkgroup table and the receivers agree on who is in which call:    *)
(* no two receivers share a call, and none that has left one (by its end,  *)
(* a time-out, a preemption or any command of the UI thread) is still      *)
(* booked on it, which would keep every other receiver off it.             *)
CallsMatch ==
    /\ \A s \in Sites, t \in Tgids : radio.own[s][t] # NoRx =>
         LET r == radio.own[s][t] IN radio.sys[r] = s /\ radio.tgid[r] = t
    /\ \A r \in Receivers : radio.tgid[r] # NoTg =>
         radio.own[radio.sys[r]][radio.tgid[r]] = r

(* Who claims the control channel listens to it, at every point where the  *)
(* two threads can alternate.                                              *)
ClaimantListens == ClaimsListen(radio)

(* Between two messages no control channel is left alone while a receiver  *)
(* of its list is idle.                                                    *)
ServedIfPossible ==
    ~ hand.busy =>
        \A s \in Sites : radio.cc[s] = NoRx /\ CCCount[s] > 0 =>
            \A r \in Receivers : HomeOf[r] = s => r \notin radio.idle

Starts(r, t) == radio'.tgid[r] = t /\ t \notin {NoTg, radio.tgid[r]}

(* A receiver starts a call only on a talkgroup its lists let through, or  *)
(* on the one it is holding: commands that change the lists or the hold    *)
(* between grant and scan are honoured.                                    *)
ListsRespected ==
    [][ \A r \in Receivers, t \in Tgids : Starts(r, t) =>
          \/ Listed([ear[r] EXCEPT !.skip = [u \in Tgids |-> IF @[u] = 1 THEN 0 ELSE @[u]]], t)
          \/ ear[r].hold = t ]_vars

(* While a receiver holds a talkgroup it follows nothing else; an automatic *)
(* hold yields to a higher priority, or when another receiver has the call. *)
HoldReserves ==
    [][ \A r \in Receivers, t \in Tgids :
          Starts(r, t) /\ ear[r].hold # NoTg /\ ear[r].until > 0 =>
            LET h == ear[r].hold IN
            \/ t = h
            \/ /\ ~ ear[r].mode
               /\ Prio[t] < Prio[h] \/ radio.own[radio.sys[r]][h] \notin {NoRx, r} ]_vars

(* A call in progress gives way only to a call of a higher priority, never *)
(* under a manual hold, and never to one that another receiver has.        *)
OnlyBetterPreempts ==
    [][ \A r \in Receivers, t \in Tgids :
          Starts(r, t) /\ radio.tgid[r] # NoTg =>
            /\ Prio[t] < Prio[radio.tgid[r]]
            /\ ~ ear[r].mode
            /\ radio.own[radio.sys[r]][t] = NoRx ]_vars

(* A control channel left for a call gets a receiver back.                 *)
ControlChannelReturns ==
    \A s \in Sites : radio.cc[s] = NoRx ~> radio.cc[s] # NoRx
=============================================================================
