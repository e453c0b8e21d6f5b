------------------------------ MODULE P25Fdma -------------------------------
(***************************************************************************)
(* Voice of P25 phase 1 (lib/p25p1_fdma.cc): what each frame does to the   *)
(* ESS of the call, and what it sends to the audio sink.  A decoder d has  *)
(*                                                                         *)
(*   ess      ess_algid, ess_keyid, ess_mi                                 *)
(*   stream   the keystream op25_crypt_algs has prepared                   *)
(*   sound    what the last frame sent to the sink, "none" if nothing      *)
(*                                                                         *)
(* cfg is the channel's configuration, sent the ESS in force on the air.   *)
(* A frame is "ok", or "bad" when its Reed-Solomon words do not decode.    *)
(***************************************************************************)
EXTENDS P25Ess

Fdma == [ess : Ess, stream : [on : {"yes", "no"}, ess : Ess],
         sound : {"none", "speech", "cipher"}]

FdmaReset == [ess |-> NoEss, stream |-> NoStream, sound |-> "none"]

(* The MI of the HDU is that of the first superframe. *)
HDU(d, sent, got) ==
    [d EXCEPT !.ess = IF got = "ok" THEN sent ELSE @, !.sound = "none"]

ProcessVoice(d, cfg, sent) ==
    LET s == IF Encrypted(d.ess) THEN Prepare(cfg.keys, d.ess) ELSE d.stream
    IN  [d EXCEPT !.stream = s,
                  !.sound = Sounds(cfg.behavior, d.ess, s, sent, TRUE)]

LDU1(d, cfg, sent) == ProcessVoice(d, cfg, sent)

(* LDU2 carries the ESS of the next superframe.  It takes effect after the *)
(* voice, but for an algorithm when encrypted calls are to be skipped.     *)
Early2(d, cfg, sent, got) ==
    IF cfg.behavior >= 2 /\ got = "ok" /\ Encrypted(sent)
    THEN [d EXCEPT !.ess.alg = sent.alg] ELSE d

LDU2(d, cfg, sent, got) ==
    [ProcessVoice(Early2(d, cfg, sent, got), cfg, sent) EXCEPT
        !.ess = IF got = "ok" THEN CycleMi(sent) ELSE CycleMi(@)]

TDU(d) == [d EXCEPT !.ess = ResetEss(@), !.sound = "none"]

FdmaCallEnd(d) == [d EXCEPT !.ess = ResetEss(@), !.sound = "none"]
=============================================================================
