------------------------------ MODULE P25Tdma -------------------------------
(***************************************************************************)
(* Voice of P25 phase 2 (lib/p25p2_tdma.cc, p25p2_sync.cc): the position   *)
(* in the 12 slots of the ultraframe, the position of a burst in the call's*)
(* superframe, and the ESS.  A decoder d has the fields of P25Fdma and     *)
(*                                                                         *)
(*   slotid   d_slotid, the logical channel (0, 1) to listen to            *)
(*   sid      sync.tdma_slotid(), the slot the packet is taken for         *)
(*   rc       sync.last_rc(): the ISCH gave the "slot", a "sync", "error"  *)
(*   first    d_tdma_slot_first_4v, -1 if unknown                          *)
(*   burst    burst_id, -1 to 4                                            *)
(*                                                                         *)
(* next_algid, next_keyid and next_mi are written and used within one 2V   *)
(* burst and are not state here; which of a call's ESS_B parts were heard  *)
(* only decides whether the Reed-Solomon word of the 2V decodes.           *)
(***************************************************************************)
EXTENDS P25Ess

Slots    == 0 .. 11
ISlots   == {0, 1, 4, 5, 8, 9}      \* slots with an informational ISCH

WhichSlot(n) == CASE n = 10 -> 1 [] n = 11 -> 0 [] OTHER -> n % 2

Tdma == [ess : Ess, stream : [on : {"yes", "no"}, ess : Ess],
         sound : {"none", "speech", "cipher"},
         slotid : {0, 1}, sid : Slots, rc : {"slot", "sync", "error"},
         first : -1 .. 4, burst : -1 .. 4]

TdmaReset == [ess |-> NoEss, stream |-> NoStream, sound |-> "none",
              slotid |-> 0, sid |-> 0, rc |-> "error", first |-> -1, burst |-> -1]

(* p25p2_sync::check_confidence(): real is the slot sent, clean if its     *)
(* ISCH decodes.                                                           *)
CheckConfidence(d, real, clean) ==
    IF clean /\ real \in ISlots THEN [d EXCEPT !.sid = real, !.rc = "slot"]
    ELSE [d EXCEPT !.sid = (@ + 1) % 12,
                   !.rc = IF clean THEN "sync" ELSE "error"]

Active(d) == WhichSlot(d.sid) = d.slotid

Position(d) == d.sid \div 2         \* 0 .. 4 in the voice slots of a channel

-----------------------------------------------------------------------------
(* MAC PDUs.  The offset says how many voice slots ahead the first 4V is.  *)

MacPtt(d, cfg, sent, offset) ==
    [d EXCEPT !.ess = sent, !.burst = -1,
              !.stream = IF Encrypted(sent) THEN Prepare(cfg.keys, sent) ELSE @,
              !.first = (Position(d) + offset + 1) % 5]

MacEndPtt(d) == [d EXCEPT !.ess = ResetEss(@)]

MacActiveUnread(d, offset) == d     \* mutant

MacActive(d, offset) == [d EXCEPT !.first = IF offset > 4 THEN 0 ELSE offset]

-----------------------------------------------------------------------------
(* Voice bursts.  track_vb() counts; where the slot is certain the count   *)
(* is moved forward to the burst expected there.                           *)

Expects(d) ==
    (IF Position(d) < d.first THEN Position(d) + 5 ELSE Position(d)) - d.first

TrackBurstNoWrap(d, type) ==     \* mutant
    LET c == [d EXCEPT !.burst = IF type = "4V" THEN @ + 1 ELSE 4]
        f == IF type = "2V" /\ c.rc = "slot"
             THEN [c EXCEPT !.first = (Position(c) + 1) % 5] ELSE c
        known == f.first >= 0 /\ f.rc = "slot"
    IN  IF known /\ Expects(f) > f.burst THEN [f EXCEPT !.burst = Expects(f)] ELSE f

TrackBurst(d, type) ==
    LET c == [d EXCEPT !.burst = IF type = "4V" THEN (@ + 1) % 5 ELSE 4]
        f == IF type = "2V" /\ c.rc = "slot"
             THEN [c EXCEPT !.first = (Position(c) + 1) % 5] ELSE c
        known == f.first >= 0 /\ f.rc = "slot"
    IN  IF known /\ Expects(f) > f.burst THEN [f EXCEPT !.burst = Expects(f)] ELSE f

(* The 2V completes the ESS of the next superframe; when it does not       *)
(* decode, that of this superframe is cycled.                              *)
NextEssUncycled(d, sent, got) ==     \* mutant
    IF got = "ok" THEN CycleMi(sent) ELSE d.ess

NextEss(d, sent, got) == IF got = "ok" THEN CycleMi(sent) ELSE CycleMi(d.ess)

SkipEarlyNever(d, cfg, type, sent, got) == d     \* mutant

SkipEarly(d, cfg, type, sent, got) ==
    IF cfg.behavior >= 2 /\ type = "2V" /\ got = "ok" /\ Encrypted(sent)
    THEN [d EXCEPT !.ess.alg = sent.alg] ELSE d

(* b is the burst really sent, -1 if it is not one of the call's; a packet *)
(* taken for another slot than its own is descrambled to noise.            *)
VoiceBurst(d, cfg, type, sent, b, real, got) ==
    LET t == TrackBurst(d, type)
        g == IF d.sid = real THEN got ELSE "bad"
        e == SkipEarly(t, cfg, type, sent, g)
        placed == d.sid = real /\ (Encrypted(sent) => t.burst = b)
        v == [e EXCEPT !.sound = Sounds(cfg.behavior, e.ess, e.stream, sent, placed)]
        n == NextEss(t, sent, g)
    IN  IF type = "4V" THEN v
        ELSE [v EXCEPT !.ess = n,
                       !.stream = IF Encrypted(n) THEN Prepare(cfg.keys, n) ELSE @]

(* call_end() from the trunking code *)
TdmaCallEnd(d) ==
    [d EXCEPT !.ess = ResetEss(@), !.burst = -1, !.first = -1, !.sound = "none"]
=============================================================================
