----------------------------- MODULE MCVoiceRx ------------------------------
(* VoiceRx for TLC: one algorithm, two keys of which one may be loaded. *)
EXTENDS VoiceRx

CONSTANTS A, k1, k2      \* model values

MCKeySets   == {{}, {<<A, k1>>}}
MCBehaviors == {2}
=============================================================================
