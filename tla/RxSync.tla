------------------------------- MODULE RxSync -------------------------------
(***************************************************************************)
(* The frame synchroniser of one channel, rx_sync (lib/rx_sync.cc), with   *)
(* the two timers whose expiry it reports and the P25 phase 1 framer that  *)
(* sizes its frames.  The flowgraph thread calls rx_sym() once per symbol; *)
(* the message thread calls control() with no lock between them.           *)
(*                                                                         *)
(* One unit of time is one symbol.  A frame is its symbols: fragment_len   *)
(* is what is still to be collected, rx_count what has been.  The contents *)
(* of a frame are reduced to what the synchroniser learns from them.       *)
(***************************************************************************)
EXTENDS Integers, Sequences

CONSTANTS
    Mode,           \* MODE_DATA: type -> half, offset, frag, life
    BodyLen,        \* BodyLen[k]: symbols of a k frame after its NID
    FrameBits,      \* P25_VOICE_FRAME_SIZE, capacity of frame_body
    Masks,          \* slot masks the trunking code sets (Idle disables)
    Second,         \* symbols in the 1 s of the two op25_timers
    CounterMod,     \* 2^32: d_symbol_count is an unsigned int
    OnAir,          \* the types whose sync patterns the channel can carry
    Busy,           \* the slots of a DMR channel that carry traffic
    Patience        \* bound on the symbols counted while waiting

Types == {"NONE", "P25P1", "P25P2", "DMR", "DSTAR", "YSF"}
Kinds == DOMAIN BodyLen
Idle  == 4

(* Where a sync pattern ends in its frame: sync_offset + sync_len / 2. *)
SyncEnd(t) == Mode[t].offset + Mode[t].half

ASSUME RxSyncAssumption ==
    /\ Mode \in [Types -> [half : Nat, offset : Nat, frag : Nat, life : Nat]]
    /\ Mode["NONE"] = [half |-> 0, offset |-> 0, frag |-> 0, life |-> 0]
    /\ \A t \in Types \ {"NONE"} : /\ SyncEnd(t) \in 1 .. Mode[t].frag
                                   /\ Mode[t].life > Mode[t].frag
                                   /\ CounterMod > 3 * Mode[t].life
    /\ SyncEnd("P25P1") < Mode["P25P1"].frag
    /\ Kinds # {} /\ "refused" \notin Kinds
    /\ \A k \in Kinds : /\ BodyLen[k] \in Nat \ {0, Mode["P25P1"].frag}
                        /\ 2 * (Mode["P25P1"].frag + BodyLen[k]) <= FrameBits
                        /\ Mode["P25P1"].frag + BodyLen[k] <= Mode["P25P1"].life
    /\ {3, Idle} \subseteq Masks /\ Masks \subseteq 0 .. Idle
    /\ Second \in Nat \ {0} /\ CounterMod \in Nat \ {0}
    /\ FrameBits \in Nat /\ OnAir \subseteq Types \ {"NONE"}
    /\ OnAir # {}
    /\ Busy \subseteq {0, 1} /\ Patience \in Nat

VARIABLES
    rx,        \* rx_sync's registers
    framer,    \* p25_framer: duid of the last accepted NID, next_bit, and
               \* (ghost) whether the rest of that frame is due or loaded
    age,       \* symbols since sync_timer and since the p25fdma's qtimer reset
    out,       \* what the last step handed on: a report and a decoded frame
    air        \* the channel: how it is received, the frame on it, the
               \* position in it and the symbols since it was last answered

vars == <<rx, framer, age, out, air>>

Nothing == [report |-> "none", frame |-> "none", body |-> "whole"]
-----------------------------------------------------------------------------
(* Registers *)

Muted == [c \in {0, 1} |-> 0]

Registers ==
    [ mask : Masks, type : Types, frag : Int, count : Nat, thr : 0 .. 2,
      sc : 0 .. CounterMod - 1, exp : 0 .. CounterMod - 1,
      until : [{0, 1} -> 0 .. CounterMod - 1] ]

(* What sync_reset() leaves: no lock, no audio unmuted. *)
ResetKeepsAudio(r) ==     \* mutant
    [ mask |-> r.mask, type |-> "NONE", frag |-> 0, count |-> 0, thr |-> 0,
      sc |-> 0, exp |-> 0, until |-> IF "until" \in DOMAIN r THEN r.until ELSE Muted ]

Reset(r) ==
    [ mask |-> r.mask, type |-> "NONE", frag |-> 0, count |-> 0, thr |-> 0,
      sc |-> 0, exp |-> 0, until |-> Muted ]

Fresh == [sync |-> 0, q |-> 0]

Later(a) == [t \in DOMAIN a |-> IF a[t] < Second THEN a[t] + 1 ELSE Second]

(* Every counter that is compared with d_symbol_count wraps with it. *)
After(r, t) == (r.sc + Mode[t].life) % CounterMod

-----------------------------------------------------------------------------
(* A sync pattern of type t at Hamming distance dist is recognised.  Only  *)
(* the type already locked on may differ from its pattern, by d_threshold. *)

Seen(r, t, dist) == dist <= (IF t = r.type THEN r.thr ELSE 0)

(* A sync of another type than the current one starts a frame of its type. *)
Adopt(r, t) ==
    IF r.type = t THEN r
    ELSE [r EXCEPT !.type = t, !.exp = After(r, t),
                   !.count = SyncEnd(t), !.frag = Mode[t].frag]

(* Early: in the variable part of a frame the next sync ends it.           *)
Early(r) == r.frag # Mode[r.type].frag /\ r.count < r.frag

(* A sync anywhere else but where the frame should have it drops the lock. *)
Slipped(r) == ~Early(r) /\ r.count # SyncEnd(r.type)

AlignUncapped(r) ==     \* mutant
    LET s == CASE Early(r)   -> [r EXCEPT !.frag = r.count - SyncEnd(r.type)]
               [] Slipped(r) -> Reset(r)
               [] OTHER      -> [r EXCEPT !.thr = @ + 1]
    IN  [s EXCEPT !.exp = After(s, s.type)]

Align(r) ==
    LET s == CASE Early(r)   -> [r EXCEPT !.frag = r.count - SyncEnd(r.type)]
               [] Slipped(r) -> Reset(r)
               [] OTHER      -> [r EXCEPT !.thr = IF @ = 2 THEN 2 ELSE @ + 1]
    IN  [s EXCEPT !.exp = After(s, s.type)]

ExpiredNever(r) == FALSE     \* mutant

Expired(r) == r.type # "NONE" /\ r.sc >= r.exp

-----------------------------------------------------------------------------
(* A complete fragment.  x = [rx, framer, age, out] is the whole state of  *)
(* the receiver; each operator returns the set of states it can lead to.   *)

State == [rx |-> rx, framer |-> framer, age |-> age, out |-> Nothing]

LoseLock(x) == [x EXCEPT !.rx = Reset(x.rx), !.age = Fresh]

(* p25p1_fdma::check_timeout(), run after every NID and body *)
CheckTimeout(x) ==
    IF x.age.q < Second THEN x
    ELSE [x EXCEPT !.age.q = 0, !.out.report = "timeout"]

(* load_nid(): nid is the frame type it announces, "refused" when the BCH, *)
(* NAC or parity check fails.                                              *)
LoadNidKeepsBits(x, nid) ==     \* mutant
    LET y == CheckTimeout([x EXCEPT !.framer.bits = @ + 2 * Mode["P25P1"].frag,
                                    !.out.frame = "nid"])
    IN  IF nid = "refused" THEN LoseLock(y)
        ELSE [y EXCEPT !.rx.frag = BodyLen[nid],
                       !.framer.duid = nid, !.framer.rest = "due"]

LoadNid(x, nid) ==
    LET y == CheckTimeout([x EXCEPT !.framer.bits = 2 * Mode["P25P1"].frag,
                                    !.out.frame = "nid"])
    IN  IF nid = "refused" THEN LoseLock(y)
        ELSE [y EXCEPT !.rx.frag = BodyLen[nid],
                       !.framer.duid = nid, !.framer.rest = "due"]

(* load_body() appends the fragment, if it has any symbols, and processes  *)
(* the frame.  Frames in ok are decodable: those reset qtimer.             *)
LoadBodyAwaitsBody(x, ok) ==     \* mutant
    LET n == IF x.rx.frag > 0 THEN x.rx.frag ELSE 0
        y == [x EXCEPT !.framer.bits = @ + 2 * n,
                       !.framer.rest = "loaded",
                       !.out.frame = x.framer.duid,
                       !.out.body = CASE x.framer.rest = "loaded" -> "again"
                                      [] n < BodyLen[x.framer.duid] -> "cut"
                                      [] OTHER -> "whole",
                       !.age.q = IF ok THEN 0 ELSE @]
    IN  CheckTimeout(y)

LoadBody(x, ok) ==
    LET n == IF x.rx.frag > 0 THEN x.rx.frag ELSE 0
        y == [x EXCEPT !.framer.bits = @ + 2 * n,
                       !.framer.rest = "loaded",
                       !.out.frame = x.framer.duid,
                       !.out.body = CASE x.framer.rest = "loaded" -> "again"
                                      [] n < BodyLen[x.framer.duid] -> "cut"
                                      [] OTHER -> "whole",
                       !.age.q = IF ok THEN 0 ELSE @,
                       !.rx.frag = Mode["P25P1"].frag]
    IN  CheckTimeout(y)

(* dmr.load_frame() found an explicit sync or not, the frame is voice of   *)
(* slot c or not; a slot outside the mask, or silent too long, is drained. *)
DmrFrame(x, sync, voice, c) ==
    LET r == IF sync THEN [x.rx EXCEPT !.exp = After(x.rx, "DMR")] ELSE x.rx
        mine == \/ c = 0 /\ r.mask \in {1, 3}
                \/ c = 1 /\ r.mask \in {2, 3}
        u == IF voice /\ mine THEN [r EXCEPT !.until[c] = After(r, "DMR")] ELSE r
        mute == ~voice \/ u.sc >= u.until[c]
    IN  [x EXCEPT !.rx = IF mute THEN [u EXCEPT !.until[c] = 0] ELSE u,
                  !.out.frame = IF mute THEN "none" ELSE "codeword"]

Dispatch(x, nids, decoded) ==
    CASE x.rx.type = "NONE" -> {x}
      [] x.rx.type = "P25P1" /\ x.rx.frag = Mode["P25P1"].frag ->
            {LoadNid(x, nid) : nid \in nids}
      [] x.rx.type = "P25P1" /\ x.rx.frag # Mode["P25P1"].frag ->
            {LoadBody(x, ok) : ok \in IF x.framer.duid = "HDU" THEN {FALSE}
                                      ELSE IF x.framer.duid \in {"TSBK", "PDU"} THEN decoded
                                      ELSE {TRUE}}
      [] x.rx.type = "P25P2" ->
            {[x EXCEPT !.age.q = 0, !.out.frame = "packet"]}
      [] x.rx.type = "DMR" ->
            {DmrFrame(x, sync, voice, c) :
                sync \in decoded, voice \in BOOLEAN, c \in Busy}
      [] x.rx.type = "DSTAR" -> {[x EXCEPT !.out.frame = "codeword"]}
      [] x.rx.type = "YSF" ->
            {[x EXCEPT !.out.frame = f] : f \in {"codeword", "none"}}

-----------------------------------------------------------------------------
(* rx_sym(): one symbol.  t is the type whose sync pattern it completes at *)
(* distance dist, "NONE" if none; nids and decoded are what a completed    *)
(* NID and body can turn out to be.                                        *)

Synced(x, t) ==
    LET a == Adopt([x.rx EXCEPT !.count = @ + 1], t)
        y == [x EXCEPT !.rx = Align(a),
                       !.age = IF Slipped(a) THEN Fresh ELSE @,
                       !.out.report = IF x.rx.type # t /\ t \in {"P25P1", "P25P2"}
                                      THEN "sync" ELSE @]
    IN  [x |-> y, excess |-> IF Early(a) THEN SyncEnd(t) ELSE 0]

Unsynced(x) == [x |-> [x EXCEPT !.rx.count = @ + 1], excess |-> 0]

(* No lock and no sync: the 1 s timer may run out. *)
Search(x) ==
    IF x.age.sync < Second THEN x
    ELSE [x EXCEPT !.age = Fresh, !.out.report = "timeout"]

Collected(f, nids, decoded) ==
    CASE Expired(f.x.rx)              -> {LoseLock(f.x)}
      [] ~Expired(f.x.rx) /\ f.x.rx.count < f.x.rx.frag -> {f.x}
      [] OTHER -> Dispatch([f.x EXCEPT !.rx.count = f.excess], nids, decoded)

RxSym(x, t, dist, nids, decoded) ==
    LET y == [x EXCEPT !.rx.sc = (@ + 1) % CounterMod, !.age = Later(@)]
        seen == t # "NONE" /\ Seen(x.rx, t, dist)
    IN  IF x.rx.mask = Idle THEN {[x EXCEPT !.age = Later(@)]}
        ELSE IF seen THEN Collected(Synced(y, t), nids, decoded)
        ELSE IF x.rx.type = "NONE" THEN {Search(y)}
        ELSE Collected(Unsynced(y), nids, decoded)

-----------------------------------------------------------------------------
(* The channel.  While it is "rough" anything may be heard: sync patterns  *)
(* in noise, slipped symbols, cut frames, another site's NAC.  From some   *)
(* point on it may be "good", whole P25 phase 1 frames of the right NAC    *)
(* one after the other, or "silent".                                       *)

Conditions == {"rough", "good", "silent"}

FrameLen(k) == Mode["P25P1"].frag + BodyLen[k]

(* The sync patterns the next symbol can complete, with their distance. *)
Heard ==
    CASE air.how = "rough" ->
            {<<"NONE", 0>>} \cup (OnAir \X (0 .. 2))
      [] air.how = "silent" -> {<<"NONE", 0>>}
      [] OTHER -> IF air.pos + 1 = SyncEnd("P25P1")
                  THEN {<<"P25P1", 0>>} ELSE {<<"NONE", 0>>}

(* What a NID completed by that symbol turns out to be. *)
Nids ==
    CASE air.how = "rough" -> Kinds \cup {"refused"}
      [] air.how = "good" /\ air.pos + 1 = Mode["P25P1"].frag -> {air.kind}
      [] OTHER -> {"refused"}

Decodable == IF air.how = "rough" THEN BOOLEAN ELSE {air.how = "good"}

NextOnAir ==
    CASE air.how \in {"rough", "silent"} -> {<<air.kind, air.pos>>}
      [] OTHER -> IF air.pos + 1 < FrameLen(air.kind)
                  THEN {<<air.kind, air.pos + 1>>} ELSE Kinds \X {0}

(* What a settled channel should lead to, and how long it has not. *)
Answered ==
    IF air.how = "good" THEN out'.frame \in Kinds /\ out'.body = "whole"
    ELSE out'.report = "timeout"

AirMoves ==
    \E n \in NextOnAir :
        air' = [air EXCEPT !.kind = n[1], !.pos = n[2],
                           !.wait = IF air.how = "rough" \/ Answered THEN 0
                                    ELSE IF @ < Patience THEN @ + 1 ELSE @]

Becomes(x) == /\ rx' = x.rx /\ framer' = x.framer
              /\ age' = x.age /\ out' = x.out

-----------------------------------------------------------------------------
Init ==
    /\ rx = Reset([mask |-> 3])
    /\ framer = [duid |-> "none", rest |-> "loaded", bits |-> 0]
    /\ age = Fresh
    /\ out = Nothing
    /\ air = [how |-> "rough", kind |-> CHOOSE k \in Kinds : TRUE,
              pos |-> 0, wait |-> 0]

Symbol ==
    /\ \E h \in Heard : \E x \in RxSym(State, h[1], h[2], Nids, Decodable) : Becomes(x)
    /\ AirMoves

(* Leaving idle starts afresh; any other change of mask keeps the lock. *)
SetSlotMask(mask) ==
    /\ mask # rx.mask
    /\ LET x == IF rx.mask = Idle THEN LoseLock(State) ELSE State
       IN  Becomes([x EXCEPT !.rx.mask = mask])

(* The stores of sync_reset() in their order, up to the n-th; the value of *)
(* fragment_len is that of the type read back.                             *)
Stores == <<"sc", "count", "thr", "exp", "type", "frag", "until">>

Store(r, from, to) ==
    LET some == {Stores[i] : i \in from .. to}
        s == [f \in DOMAIN r |-> IF f \in some THEN Reset(r)[f] ELSE r[f]]
    IN  [s EXCEPT !.frag = IF "frag" \in some THEN Mode[s.type].frag ELSE @]

(* set_freq() has the message thread reset the synchroniser while a symbol *)
(* may be in progress: each store lands before it or after it.             *)
SyncReset(n) ==
    \E h \in Heard :
      \E x \in RxSym([State EXCEPT !.rx = Store(rx, 1, n)], h[1], h[2], Nids, Decodable) :
        Becomes([x EXCEPT !.rx = Store(x.rx, n + 1, Len(Stores)), !.age = Fresh])

Control ==
    /\ air.how = "rough"
    /\ \/ \E mask \in Masks : SetSlotMask(mask)
       \/ \E n \in 0 .. Len(Stores) : SyncReset(n)
    /\ UNCHANGED air

(* The channel settles, in the middle of a frame if it is a good one, with *)
(* the receiver enabled and left to itself.                                *)
Places == UNION {{k} \X (0 .. FrameLen(k) - 1) : k \in Kinds}

Settle(how) ==
    /\ air.how = "rough" /\ rx.mask # Idle
    /\ \E n \in IF how = "good" THEN Places ELSE {<<air.kind, air.pos>>} :
          air' = [air EXCEPT !.how = how, !.kind = n[1], !.pos = n[2]]
    /\ UNCHANGED <<rx, framer, age, out>>

Next == Symbol \/ Control \/ \E how \in Conditions \ {"rough"} : Settle(how)

Spec == Init /\ [][Next]_vars

-----------------------------------------------------------------------------
(* Every register keeps its range: the Hamming threshold is used unchecked *)
(* to accept syncs, and the counters are compared modulo their wrap.       *)
TypeOK ==
    /\ rx \in Registers
    /\ framer \in [duid : Kinds \cup {"none"}, rest : {"due", "loaded"}, bits : Nat]
    /\ age \in [sync : 0 .. Second, q : 0 .. Second]
    /\ out \in [report : {"none", "timeout", "sync"},
                frame : Kinds \cup {"none", "nid", "packet", "codeword"},
                body : {"whole", "cut", "again"}]
    /\ air \in [how : Conditions, kind : Kinds,
                pos : Nat, wait : 0 .. Patience]

(* p25_framer appends a body to frame_body, whose size is fixed, with no   *)
(* check of its own: the bits appended since the last NID always fit,      *)
(* whatever syncs cut the frame and whenever the lock is reset.            *)
FrameFits == framer.bits <= FrameBits

(* sync_reset() of the message thread may land in the middle of a symbol:  *)
(* still no frame is processed twice for one NID.                          *)
BodyOnce == out.body # "again"

(* A slot that was unmuted is drained by the time the lock is gone. *)
DrainedOnLoss == rx.type = "NONE" => rx.until = Muted

Longest(S) == CHOOSE n \in S : \A m \in S : m <= n

(* Whatever state noise, slipped symbols and resets left behind, a channel *)
(* without sync patterns is reported to the trunking code at least every   *)
(* second, once the lock is given up: the control channel hunt and the end *)
(* of a call by framing timeouts depend on it.                             *)
QuietChannelReports ==
    air.how = "silent" =>
        air.wait <= Second + Longest({Mode[t].life : t \in OnAir})

(* On a channel that carries good frames a whole one is decoded before     *)
(* three of the longest have passed, from whatever state the receiver was  *)
(* left in and from wherever in a frame it begins, and so on for ever.     *)
GoodSignalDecodes ==
    air.how = "good" => air.wait < 3 * Longest({FrameLen(k) : k \in Kinds})
=============================================================================
