------------------------------ MODULE VoiceRx -------------------------------
(***************************************************************************)
(* A receiver on a voice channel: calls begin and end on the air, frames   *)
(* are lost or damaged, and the trunking code ends calls from its own      *)
(* thread.  The decoders are those of P25Fdma and P25Tdma; which of them   *)
(* the channel uses, its keys and its crypt_behavior are chosen at start.  *)
(* A receiver owns one decoder of either kind, and they share nothing.     *)
(***************************************************************************)
EXTENDS P25Fdma, P25Tdma

CONSTANTS
    KeySets,        \* sets of <<alg, key>> that may be loaded
    Behaviors,      \* values of crypt_behavior
    MaxCalls,       \* calls on the channel
    MaxSuper,       \* last superframe of a call
    MaxFaults       \* phase 2: packets lost or damaged and calls dropped

ASSUME VoiceRxAssumption ==
    /\ \A ks \in KeySets : ks \subseteq Algs \X KeyIds
    /\ Behaviors \subseteq -1 .. 2
    /\ MaxCalls \in Nat /\ MaxSuper \in Nat /\ MaxFaults \in Nat

VARIABLES
    cfg,       \* [phase, keys, behavior]
    air,       \* the call on the channel and what is sent next
    dec,       \* the decoder in use
    known,     \* ghost: an ESS of this call was decoded and not reset since
    gap,       \* ghost: what is uncertain for lost or mistaken packets: the
               \* "count" of bursts, behind till the next certain slot, "ess" or
               \* count till the next ESS, the position of the call's "first" 4V
    fine       \* ghost: packets of one call received as sent, in a row

vars == <<cfg, air, dec, known, gap, fine>>

(* Up to 2 slots without an I-ISCH; then the SACCH of the next ultraframe, *)
(* 12 slots on, tells where the first 4V is; a burst count that was wrong  *)
(* before it stays wrong up to the 4V 5 slots later.                       *)
Settled == 2 + 12 + 5

Phase(p) == cfg.phase = p

OwnVoice(real) == real \in {0, 2, 4, 6, 8}

(* The ESS in force on the air. *)
Sent == [alg |-> air.alg, key |-> air.key,
         mi |-> IF air.alg = Clear THEN NoMi ELSE <<air.call, air.super>>]

OnAirCalls ==
    {<<Clear, NoKey>>} \cup (Algs \X KeyIds)

(* due: what is sent next; slot: the TDMA slot it is sent in; first: the   *)
(* position of the first 4V; faults: those so far.                         *)
Silent == [call |-> 0, alg |-> Clear, key |-> NoKey, super |-> 0, due |-> "none",
           slot |-> 0, first |-> 0, faults |-> 0]

Init ==
    /\ \E p \in {1, 2}, k \in KeySets, b \in Behaviors :
          cfg = [phase |-> p, keys |-> k, behavior |-> b]
    /\ air = Silent
    /\ dec = IF cfg.phase = 1 THEN FdmaReset ELSE TdmaReset
    /\ known = FALSE /\ gap = {} /\ fine = 0

-----------------------------------------------------------------------------
(* Phase 1: HDU, then LDU1 and LDU2 in turn, then TDU.  Any of them may be *)
(* lost, so a call may be entered late and may end without its terminator. *)

Begin ==
    /\ air.due = "none" /\ air.call < MaxCalls /\ OwnVoice(air.slot)
    /\ \E c \in OnAirCalls :
          air' = [air EXCEPT !.call = @ + 1, !.alg = c[1], !.key = c[2], !.super = 0,
                             !.due = IF Phase(1) THEN "HDU" ELSE "PTT1"]
    /\ known' = FALSE /\ fine' = 0
    /\ gap' = IF Phase(1) THEN {} ELSE {"first"}
    /\ UNCHANGED <<cfg, dec>>

AfterLDU2 == IF air.super < MaxSuper THEN {"LDU1", "TDU"} ELSE {"TDU"}

NextDue ==
    CASE air.due = "HDU"  -> {"LDU1"}
      [] air.due = "LDU1" -> {"LDU2"}
      [] air.due = "LDU2" -> AfterLDU2
      [] air.due = "TDU"  -> {"none"}

Advance1 ==
    \E d \in NextDue :
        air' = [air EXCEPT !.due = d,
                           !.super = IF air.due = "LDU2" /\ d = "LDU1" THEN @ + 1 ELSE @]

(* got: "lost", "bad" (received, its ESS not decodable) or "ok". *)
Frame1(got) ==
    /\ Phase(1) /\ air.due # "none"
    /\ dec' = CASE got = "lost"      -> [dec EXCEPT !.sound = "none"]
                [] air.due = "HDU"  /\ got # "lost" -> HDU(dec, Sent, got)
                [] air.due = "LDU1" /\ got # "lost" -> LDU1(dec, cfg, Sent)
                [] air.due = "LDU2" /\ got # "lost" -> LDU2(dec, cfg, Sent, got)
                [] air.due = "TDU"  /\ got # "lost" -> TDU(dec)
    /\ known' = CASE air.due \in {"HDU", "LDU2"} /\ got = "ok" -> TRUE
                  [] air.due = "TDU" /\ got # "lost" -> FALSE
                  [] OTHER -> known
    /\ gap' = CASE air.due \in {"HDU", "LDU2"} /\ got = "ok" -> {}
                [] air.due = "LDU2" /\ got = "lost" -> {"ess"}
                [] OTHER -> gap
    /\ Advance1
    /\ UNCHANGED <<cfg, fine>>

-----------------------------------------------------------------------------
(* Phase 2, on logical channel 0: its voice slots are the even ones up to  *)
(* 8 and its SACCH is slot 11; the other slots carry another call.  PTT is *)
(* sent twice, then 4V bursts 0 to 3 and a 2V (burst 4) per superframe.    *)

Bursts == <<"V0", "V1", "V2", "V3", "V4">>
Burst(due) == CHOOSE b \in 0 .. 4 : Bursts[b + 1] = due
InVoice == air.due \in {"V0", "V1", "V2", "V3", "V4"}

NextDue2 ==
    CASE air.due = "PTT1" -> {"PTT0"}
      [] air.due = "PTT0" -> {"V0"}
      [] air.due = "V4"   -> IF air.super < MaxSuper THEN {"V0", "END"} ELSE {"END"}
      [] air.due = "END"  -> {"none"}
      [] air.due = "none" -> {"none"}
      [] OTHER            -> {Bursts[Burst(air.due) + 2]}

Advance2(n) ==
    /\ air.faults + n <= MaxFaults
    /\ \E d \in IF OwnVoice(air.slot) THEN NextDue2 ELSE {air.due} :
          air' = [air EXCEPT
                    !.slot = (@ + 1) % 12, !.due = d, !.faults = @ + n,
                    !.first = IF air.due = "PTT1" /\ OwnVoice(air.slot)
                              THEN (air.slot \div 2 + 2) % 5 ELSE @,
                    !.super = IF air.due = "V4" /\ d = "V0" THEN @ + 1 ELSE @]

Over == air.due = "none" /\ air.call = MaxCalls

(* What the decoder makes of the packet in slot air.slot, d being its      *)
(* state after the ISCH.  The other call's packets are of any type.        *)
Handled(d, got, type) ==
    LET mine == d.sid = air.slot /\ got = "ok" IN
    CASE ~Active(d) -> d
      [] Active(d) /\ OwnVoice(air.slot) /\ air.due \in {"PTT1", "PTT0"} ->
            IF mine THEN MacPtt(d, cfg, Sent, IF air.due = "PTT1" THEN 1 ELSE 0) ELSE d
      [] Active(d) /\ OwnVoice(air.slot) /\ air.due = "END" ->
            IF mine THEN MacEndPtt(d) ELSE d
      [] Active(d) /\ OwnVoice(air.slot) /\ InVoice ->
            VoiceBurst(d, cfg, IF air.due = "V4" THEN "2V" ELSE "4V", Sent,
                       Burst(air.due), air.slot, got)
      [] Active(d) /\ air.slot = 11 ->
            IF mine /\ InVoice THEN MacActive(d, air.first) ELSE d
      [] Active(d) /\ air.slot \notin {0, 2, 4, 6, 8, 11} ->
            VoiceBurst(d, cfg, type, Sent, -1, air.slot, "bad")
      [] OTHER -> d

(* The uncertainty a packet leaves: heard as ours or not, foreign if it is *)
(* another call's taken for ours.  The count is corrected forward only, by *)
(* the position of the first 4V if there is any; if that is wrong the      *)
(* count is put ahead, which nothing but an ESS burst undoes.              *)
Doubts(d, got) ==
    LET ours    == OwnVoice(air.slot) /\ d.sid = air.slot
        esssent == air.due \in {"PTT1", "PTT0", "V4"}
        corrects == ours /\ InVoice /\ ~esssent /\ d.rc = "slot" /\ d.first >= 0
    IN  CASE ~OwnVoice(air.slot) /\ air.slot # 11 /\ Active(d) -> gap \cup {"ess"}
          [] air.slot = 11 /\ d.sid = 11 /\ got = "ok" /\ InVoice -> gap \ {"first"}
          [] ours /\ got = "ok" /\ esssent ->
                IF air.due # "V4" \/ d.rc = "slot" THEN {} ELSE gap \ {"ess", "count"}
          [] corrects -> IF "first" \in gap THEN gap \cup {"ess"} ELSE gap \ {"count"}
          [] ~ours /\ OwnVoice(air.slot) /\ InVoice ->
                gap \cup (IF air.due = "V4" THEN {"ess"} ELSE {"count"})
                    \cup (IF Active(d) THEN {"ess"} ELSE {})
          [] OTHER -> gap

Packet(clean, got) ==
    \E type \in IF OwnVoice(air.slot) \/ air.slot = 11 THEN {"4V"} ELSE {"4V", "2V"} :
        LET d == CheckConfidence([dec EXCEPT !.sound = "none"], air.slot, clean)
            ours == OwnVoice(air.slot) /\ d.sid = air.slot
        IN  /\ Phase(2) /\ ~Over
            /\ dec' = Handled(d, got, type)
            /\ known' = CASE ours /\ got = "ok" /\ air.due \in {"PTT1", "PTT0", "V4"} -> TRUE
                          [] ours /\ got = "ok" /\ air.due = "END" -> FALSE
                          [] OTHER -> known
            /\ gap' = Doubts(d, got)
            /\ fine' = IF air.due \in {"none", "END"} \/ ~clean \/ got = "bad" THEN 0
                       ELSE IF fine <= Settled THEN fine + 1 ELSE fine
            /\ Advance2((IF clean THEN 0 ELSE 1) + (IF got = "ok" THEN 0 ELSE 1))
            /\ UNCHANGED cfg

LosePacket ==
    /\ Phase(2) /\ ~Over
    /\ dec' = [dec EXCEPT !.sound = "none"]
    /\ gap' = IF OwnVoice(air.slot) /\ InVoice
              THEN gap \cup (IF air.due = "V4" THEN {"ess"} ELSE {"count"})
              ELSE gap
    /\ fine' = 0
    /\ Advance2(1)
    /\ UNCHANGED <<cfg, known>>

(* expire_talkgroup() and retuning drop the call, whatever is on the air. *)
CallEnd ==
    /\ \/ Phase(1) /\ dec' = FdmaCallEnd(dec) /\ UNCHANGED air
       \/ Phase(2) /\ ~Over /\ dec' = TdmaCallEnd(dec) /\ air.faults < MaxFaults
          /\ air' = [air EXCEPT !.faults = @ + 1]
    /\ known' = FALSE /\ gap' = gap \cup {"count"} /\ fine' = 0
    /\ UNCHANGED cfg

Next ==
    \/ Begin \/ CallEnd
    \/ \E got \in {"lost", "bad", "ok"} : Frame1(got)
    \/ \E clean \in BOOLEAN, got \in {"bad", "ok"} : Packet(clean, got)
    \/ LosePacket

Spec == Init /\ [][Next]_vars

(* Every field of the decoder keeps its range; burst_id and the position   *)
(* of the first 4V index arrays and frame types unchecked.                 *)
TypeOK ==
    /\ cfg \in [phase : {1, 2}, keys : KeySets, behavior : Behaviors]
    /\ dec \in IF Phase(1) THEN Fdma ELSE Tdma
    /\ known \in BOOLEAN /\ gap \subseteq {"ess", "count", "first"}
    /\ fine \in 0 .. Settled + 1

Wanted == Intended(cfg.behavior, cfg.keys, Sent)

(* Without its key a call does not depend on the count or on the MI. *)
Certain == gap = {} \/ <<air.alg, air.key>> \notin cfg.keys

(* A voice frame of a call whose ESS is known goes to the listener as the  *)
(* call and the configuration want it: clear voice in the clear, encrypted *)
(* voice decrypted under the MI of its superframe or not at all.           *)
HeardRight ==
    [][ /\ known /\ Certain
        /\ \/ air.due \in {"LDU1", "LDU2"} /\ \E got \in {"bad", "ok"} : Frame1(got)
           \/ OwnVoice(air.slot) /\ InVoice /\ dec'.sid = air.slot
              /\ \E clean \in BOOLEAN, got \in {"bad", "ok"} : Packet(clean, got)
        => dec'.sound = Wanted ]_vars

(* Settled packets received as they were sent put the decoder right again, *)
(* whatever losses, mistaken slots and ended calls went before.            *)
Recovers ==
    [][ fine' > Settled /\ OwnVoice(air.slot) /\ InVoice
        => dec'.sound = Wanted ]_vars

(* With no keys and crypt_behavior 2 not even the first LDU2 or 2V of an   *)
(* encrypted call that is entered late is heard as noise.                  *)
SkipsSilently ==
    [][ air.due \in {"LDU2", "V4"} /\ cfg.behavior >= 2 /\ cfg.keys = {} /\ Encrypted(Sent)
          /\ known'
        => dec'.sound = "none" ]_vars
=============================================================================
