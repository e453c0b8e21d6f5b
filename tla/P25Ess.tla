------------------------------- MODULE P25Ess -------------------------------
(***************************************************************************)
(* Encryption synchronisation (ESS) of a P25 voice call and the decryption *)
(* algorithms of a channel (lib/op25_crypt_algs.cc), as both decoders of a *)
(* channel use them.  A cipher is an algorithm identifier with a key       *)
(* identifier; a message indicator (MI) is the superframe it starts, so    *)
(* that cycling one gives that of the next superframe.                     *)
(***************************************************************************)
EXTENDS Integers, Sequences

CONSTANTS
    Algs, KeyIds,   \* algorithm and key identifiers of encrypted calls
    Clear,          \* algid 0x80
    NoKey           \* keyid 0

ASSUME EssAssumption == Clear \notin Algs /\ NoKey \notin KeyIds

NoMi == <<0, 0>>    \* the MI after a reset: all zero, and so is the next

Mis == Nat \X Nat   \* <<call, superframe of the call>>

Ess == [alg : Algs \cup {Clear}, key : KeyIds \cup {NoKey}, mi : Mis]

NoEss == [alg |-> Clear, key |-> NoKey, mi |-> NoMi]

(* reset_ess() forgets the algorithm and the MI; the key identifier stays. *)
ResetEss(e) == [e EXCEPT !.alg = Clear, !.mi = NoMi]

Encrypted(e) == e.alg # Clear

CycleMi(e) == IF e.mi = NoMi THEN e ELSE [e EXCEPT !.mi[2] = @ + 1]

(* prepare() selects the algorithm's module and in it the key; process()   *)
(* refuses to decrypt when the one or the other was not found.             *)
NoStream == [on |-> "no", ess |-> NoEss]

Prepare(keys, e) ==
    [on |-> IF <<e.alg, e.key>> \in keys THEN "yes" ELSE "no", ess |-> e]

(* What goes to the audio sink for one voice codeword of a call whose own  *)
(* ESS is sent, with the decoder's ess and prepared keystream; the call is *)
(* decrypted when cipher and MI are the call's and the codeword is taken   *)
(* for what it is.                                                         *)
Sounds(behavior, e, stream, sent, placed) ==
    CASE ~Encrypted(e) /\ behavior = -1 -> "none"
      [] ~Encrypted(e) /\ behavior # -1 ->
            IF Encrypted(sent) \/ ~placed THEN "cipher" ELSE "speech"
      [] Encrypted(e) /\ stream.on = "no" -> "none"
      [] Encrypted(e) /\ stream.on = "yes" ->
            IF stream.ess = sent /\ Encrypted(sent) /\ placed THEN "speech" ELSE "cipher"

(* What a listener should get of that call. *)
Intended(behavior, keys, sent) ==
    CASE ~Encrypted(sent) -> IF behavior = -1 THEN "none" ELSE "speech"
      [] Encrypted(sent)  -> IF <<sent.alg, sent.key>> \in keys THEN "speech" ELSE "none"
=============================================================================
