--------------------------- MODULE VoiceRx_proofs ---------------------------
(***************************************************************************)
(* Theorems about VoiceRx, for any keys, crypt_behavior, number and length *)
(* of calls and number of faults.  The inductive invariant relates the     *)
(* decoder's registers to the call on the air, as far as gap does not say  *)
(* they are in doubt (Trusted), and as far as a row of packets received as *)
(* sent has put them right (Recovered).                                    *)
(***************************************************************************)
EXTENDS VoiceRx, TLAPS

Voice == {"V0", "V1", "V2", "V3", "V4"}

Due1 == {"none", "HDU", "LDU1", "LDU2", "TDU"}
Due2 == {"none", "PTT1", "PTT0", "END"} \cup Voice

(* The burst the decoder is to count next, and the position of the next    *)
(* voice slot of our channel.                                              *)
Number(due) == CASE due = "V1" -> 1 [] due = "V2" -> 2 [] due = "V3" -> 3
                 [] due = "V4" -> 4 [] OTHER -> 0

NextPosition(slot) == IF slot > 8 THEN 0 ELSE (slot + 1) \div 2

AirOK ==
    /\ air \in [call : Nat, alg : Algs \cup {Clear}, key : KeyIds \cup {NoKey},
                super : Nat, due : Due1 \cup Due2, slot : Slots, first : 0 .. 4,
                faults : Nat]
    /\ air.due # "none" => air.call >= 1
    /\ air.alg = Clear => air.key = NoKey
    /\ Phase(1) => air.due \in Due1 /\ air.slot = 0 /\ fine = 0
    /\ Phase(2) => air.due \in Due2

(* The bursts of a call follow one another from voice slot to voice slot.  *)
Aligned ==
    /\ air.due \in Voice =>
          NextPosition(air.slot) = (air.first + Number(air.due)) % 5
    /\ air.due = "PTT0" => NextPosition(air.slot) = (air.first + 4) % 5

(* What the decoder holds is the call's: its cipher; its ESS, with the     *)
(* keystream of phase 2 prepared from it.                                  *)
Loaded == IF <<air.alg, air.key>> \in cfg.keys THEN "yes" ELSE "no"

CipherRight ==
    /\ dec.ess.alg = air.alg /\ dec.ess.key = air.key
    /\ Phase(2) /\ air.alg # Clear => dec.stream.on = Loaded

EssRight ==
    air.alg # Clear =>
        /\ dec.ess = Sent
        /\ Phase(2) => dec.stream = Prepare(cfg.keys, Sent)

(* The burst counted next: not ahead of the call's, or exactly that.       *)
Behind == (dec.burst + 1) % 5 <= Number(air.due)
Exact  == (dec.burst + 1) % 5 = Number(air.due)

Running == air.due \in Voice \cup {"PTT0"}

(* What holds unless the ghosts say it is in doubt.                        *)
KnownRight == known => air.due \notin {"HDU", "PTT1"} /\ CipherRight

NeverKeyed == cfg.keys = {} => dec.stream.on = "no"

LduRight ==
    Phase(1) /\ known /\ gap = {} /\ air.due \in {"LDU1", "LDU2"} => EssRight

FirstRight ==
    /\ air.due = "PTT1" => "first" \in gap
    /\ Running /\ "first" \notin gap => dec.first \in {-1, air.first}

CallRight ==
    Running /\ known /\ "ess" \notin gap =>
        EssRight /\ Behind /\ ("count" \notin gap => Exact)

Trusted == KnownRight /\ NeverKeyed /\ LduRight /\ FirstRight /\ CallRight

(* Packets since slot s was sent. *)
Since(s) == ((air.slot - s + 11) % 12) + 1

(* The slot of the call's ESS bursts, the PTTs and the 2V.                 *)
EssSlot == 2 * ((air.first + 4) % 5)

Synced == (dec.sid + 1) % 12 = air.slot

(* What a row of packets received as sent has put right: the slot, at the  *)
(* first I-ISCH; the position of the first 4V, at the SACCH or at a 2V     *)
(* with an I-ISCH; the ESS, at an ESS burst; and the count, at an ESS      *)
(* burst before which the position was right.                              *)
SlotFound ==
    /\ fine = 1 => Synced \/ air.slot \in {0, 3, 4, 7, 8, 11}
    /\ fine = 2 => Synced \/ air.slot \in {0, 4, 8}
    /\ fine >= 3 => Synced

FirstFound ==
    InVoice /\ (\/ fine >= Since(11) + 2
                \/ EssSlot \in ISlots /\ fine >= Since(EssSlot) + 2)
        => dec.first = air.first

EssFound ==
    InVoice /\ fine >= Since(EssSlot) + 2 => dec.ess.alg = air.alg /\ EssRight

Enough == CASE EssSlot = 2 -> 6 [] EssSlot = 6 -> 10 [] OTHER -> 3

CountFound ==
    InVoice /\ air.due # "V4" /\ fine + 1 >= Since(EssSlot) + Enough => Exact

Recovered == SlotFound /\ FirstFound /\ EssFound /\ CountFound

IInv == TypeOK /\ AirOK /\ (Phase(2) => dec.slotid = 0) /\ Aligned /\ Trusted /\ Recovered

-----------------------------------------------------------------------------
(* Operators of the decoders.                                              *)

Streams == [on : {"yes", "no"}, ess : Ess]

LEMMA EssTypes ==
    /\ NoEss \in Ess /\ NoStream \in Streams
    /\ \A keys, e : e \in Ess =>
          /\ Prepare(keys, e) \in Streams
          /\ ResetEss(e) \in Ess
          /\ CycleMi(e) \in Ess /\ CycleMi(e).alg = e.alg /\ CycleMi(e).key = e.key
  <1>1. NoMi \in Mis  BY DEF NoMi, Mis
  <1>2. NoEss \in Ess /\ NoStream \in Streams
    BY <1>1 DEF NoEss, Ess, NoStream, Streams
  <1>3. ASSUME NEW keys, NEW e \in Ess
        PROVE  /\ Prepare(keys, e) \in Streams
               /\ ResetEss(e) \in Ess
               /\ CycleMi(e) \in Ess /\ CycleMi(e).alg = e.alg /\ CycleMi(e).key = e.key
    <2>1. Prepare(keys, e) \in Streams  BY DEF Prepare, Streams
    <2>2. ResetEss(e) \in Ess  BY <1>1 DEF ResetEss, Ess
    <2>3. CycleMi(e) \in Ess /\ CycleMi(e).alg = e.alg /\ CycleMi(e).key = e.key
      <3> DEFINE m == [e.mi EXCEPT ![2] = @ + 1]
      <3>1. m \in Mis  BY DEF Ess, Mis
      <3>2. CycleMi(e) = e \/ CycleMi(e) = [e EXCEPT !.mi = m]
        BY DEF CycleMi, Ess
      <3> HIDE DEF m
      <3> QED  BY <3>1, <3>2 DEF Ess
    <2> QED  BY <2>1, <2>2, <2>3
  <1> QED  BY <1>2, <1>3

(* check_confidence() finds the slot or counts on; nothing else changes.   *)
Listens(x, d, real, clean) ==
    /\ d \in Tdma /\ d.sound = "none"
    /\ d.ess = x.ess /\ d.stream = x.stream /\ d.slotid = x.slotid
    /\ d.first = x.first /\ d.burst = x.burst
    /\ d.rc = "slot" <=> clean = TRUE /\ real \in ISlots
    /\ d.sid = IF d.rc = "slot" THEN real ELSE (x.sid + 1) % 12

LEMMA CheckConfidenceListens ==
    ASSUME NEW x \in Tdma, NEW real \in Slots, NEW clean \in BOOLEAN
    PROVE  Listens(x, CheckConfidence([x EXCEPT !.sound = "none"], real, clean), real, clean)
  <1> DEFINE y == [x EXCEPT !.sound = "none"]
             d == CheckConfidence(y, real, clean)
             n == (y.sid + 1) % 12
             rc == IF clean THEN "sync" ELSE "error"
  <1>1. /\ y \in Tdma /\ y.sound = "none"
        /\ y.ess = x.ess /\ y.stream = x.stream /\ y.slotid = x.slotid
        /\ y.first = x.first /\ y.burst = x.burst /\ y.sid = x.sid
    BY DEF Tdma
  <1>2. n \in Slots  BY <1>1 DEF Tdma, Slots
  <1>3. CASE clean = TRUE /\ real \in ISlots
    <2>1. d = [y EXCEPT !.sid = real, !.rc = "slot"]
      BY <1>3 DEF CheckConfidence
    <2> HIDE DEF y, d
    <2> QED  BY <1>1, <1>3, <2>1 DEF Listens, Tdma, y, d
  <1>4. CASE ~ (clean = TRUE /\ real \in ISlots)
    <2>1. d = [y EXCEPT !.sid = n, !.rc = rc]
      BY <1>4 DEF CheckConfidence
    <2>2. rc \in {"sync", "error"}  OBVIOUS
    <2>3. n = (x.sid + 1) % 12  BY <1>1
    <2> HIDE DEF y, d, n, rc
    <2> QED  BY <1>1, <1>2, <1>4, <2>1, <2>2, <2>3 DEF Listens, Tdma, y, d
  <1> QED  BY <1>3, <1>4

(* track_vb() and the correction after it. *)
Counts(d, t, type) ==
    /\ type = "2V" =>
          /\ t.burst = 4
          /\ t.first = IF d.rc = "slot" THEN (Position(d) + 1) % 5 ELSE d.first
    /\ type = "4V" =>
          /\ t.first = d.first
          /\ LET c == (d.burst + 1) % 5
             IN  t.burst = IF d.rc = "slot" /\ d.first >= 0 /\ Expects(d) > c
                           THEN Expects(d) ELSE c

Tracks(d, t, type) ==
    /\ t \in Tdma
    /\ t.ess = d.ess /\ t.stream = d.stream /\ t.slotid = d.slotid
    /\ t.sid = d.sid /\ t.rc = d.rc /\ t.sound = d.sound
    /\ Counts(d, t, type)

LEMMA TrackBurstTracks ==
    ASSUME NEW d \in Tdma, NEW type \in {"2V", "4V"}, d.rc = "slot" => d.sid < 10
    PROVE  Tracks(d, TrackBurst(d, type), type)
  <1> DEFINE b == IF type = "4V" THEN (d.burst + 1) % 5 ELSE 4
             c == [d EXCEPT !.burst = b]
             p == (Position(d) + 1) % 5
             f == IF type = "2V" /\ d.rc = "slot" THEN [c EXCEPT !.first = p] ELSE c
             sure == f.first >= 0 /\ d.rc = "slot"
             t == IF sure /\ Expects(f) > f.burst THEN [f EXCEPT !.burst = Expects(f)] ELSE f
  <1>1. b \in 0 .. 4 /\ Position(d) \in 0 .. 5 /\ p \in 0 .. 4
        /\ (d.rc = "slot" => Position(d) \in 0 .. 4)
    BY DEF Tdma, Slots, Position
  <1>2. /\ c \in Tdma /\ c.burst = b
        /\ c.ess = d.ess /\ c.stream = d.stream /\ c.slotid = d.slotid
        /\ c.sid = d.sid /\ c.rc = d.rc /\ c.sound = d.sound /\ c.first = d.first
    <2> HIDE DEF b
    <2> QED  BY <1>1 DEF Tdma
  <1>3. TrackBurst(d, type) = t
    BY <1>2 DEF TrackBurst, Position, Tdma
  <1> HIDE DEF c, p
  <1>4. /\ f \in Tdma /\ f.burst = b
        /\ f.ess = d.ess /\ f.stream = d.stream /\ f.slotid = d.slotid
        /\ f.sid = d.sid /\ f.rc = d.rc /\ f.sound = d.sound
        /\ f.first = IF type = "2V" /\ d.rc = "slot" THEN p ELSE d.first
    BY <1>1, <1>2 DEF Tdma
  <1> HIDE DEF f
  <1>5. sure => Expects(f) \in 0 .. 4
    BY <1>1, <1>4 DEF Expects, Position, Tdma
  <1>6. type = "2V" => ~ (sure /\ Expects(f) > 4)
    BY <1>5
  <1>7. type = "4V" => Expects(f) = Expects(d)
    BY <1>4 DEF Expects, Position
  <1>8. /\ t \in Tdma
        /\ t.ess = d.ess /\ t.stream = d.stream /\ t.slotid = d.slotid
        /\ t.sid = d.sid /\ t.rc = d.rc /\ t.sound = d.sound /\ t.first = f.first
        /\ t.burst = IF sure /\ Expects(f) > b THEN Expects(f) ELSE b
    <2> DEFINE e == Expects(f)
    <2>1. sure => e \in -1 .. 4  BY <1>5
    <2> HIDE DEF e
    <2> QED  BY <1>4, <2>1 DEF Tdma, e
  <1> HIDE DEF t
  <1> QED  BY <1>1, <1>3, <1>4, <1>6, <1>7, <1>8 DEF Tracks, Counts, p

(* What a voice burst sends to the listener and leaves behind. *)
Sound == {"none", "speech", "cipher"}

LEMMA SoundsType ==
    ASSUME NEW behavior, NEW e, NEW stream \in Streams, NEW sent, NEW placed
    PROVE  Sounds(behavior, e, stream, sent, placed) \in Sound
  <1>1. stream.on \in {"yes", "no"}  BY DEF Streams
  <1>2. CASE ~ Encrypted(e)  BY <1>2 DEF Sounds, Sound
  <1>3. CASE Encrypted(e)  BY <1>1, <1>3 DEF Sounds, Sound
  <1> QED  BY <1>2, <1>3

Plays(d, v, c, type, sent, b, real, g) ==
    /\ v \in Tdma
    /\ v.sid = d.sid /\ v.rc = d.rc /\ v.slotid = d.slotid
    /\ type = "4V" => v.ess = d.ess /\ v.stream = d.stream
    /\ type = "2V" =>
          LET n == IF g = "ok" THEN CycleMi(sent) ELSE CycleMi(d.ess)
          IN  /\ v.ess = n
              /\ v.stream = IF Encrypted(n) THEN Prepare(c.keys, n) ELSE d.stream
    /\ Counts(d, v, type)
    /\ LET e == IF c.behavior >= 2 /\ type = "2V" /\ g = "ok" /\ Encrypted(sent)
                THEN [d.ess EXCEPT !.alg = sent.alg] ELSE d.ess
       IN  v.sound = Sounds(c.behavior, e, d.stream, sent,
                            d.sid = real /\ (Encrypted(sent) => v.burst = b))

LEMMA VoiceBurstPlays ==
    ASSUME NEW d \in Tdma, NEW c, NEW type \in {"2V", "4V"}, NEW sent \in Ess,
           NEW b, NEW real, NEW got, d.rc = "slot" => d.sid < 10
    PROVE  Plays(d, VoiceBurst(d, c, type, sent, b, real, got), c, type, sent, b, real,
                 IF d.sid = real THEN got ELSE "bad")
  <1> DEFINE t == TrackBurst(d, type)
             g == IF d.sid = real THEN got ELSE "bad"
             early == c.behavior >= 2 /\ type = "2V" /\ g = "ok" /\ Encrypted(sent)
             e == IF early THEN [t EXCEPT !.ess.alg = sent.alg] ELSE t
             x == IF early THEN [d.ess EXCEPT !.alg = sent.alg] ELSE d.ess
             placed == d.sid = real /\ (Encrypted(sent) => t.burst = b)
             sound == Sounds(c.behavior, x, d.stream, sent, placed)
             v == [e EXCEPT !.sound = sound]
             n == IF g = "ok" THEN CycleMi(sent) ELSE CycleMi(d.ess)
             s == IF Encrypted(n) THEN Prepare(c.keys, n) ELSE d.stream
             r == IF type = "4V" THEN v ELSE [v EXCEPT !.ess = n, !.stream = s]
  <1>1. Tracks(d, t, type)  BY TrackBurstTracks
  <1>2. t \in Tdma /\ t.ess = d.ess /\ t.stream = d.stream /\ t.slotid = d.slotid
        /\ t.sid = d.sid /\ t.rc = d.rc
    BY <1>1 DEF Tracks
  <1>3. d.ess \in Ess /\ d.stream \in Streams  BY DEF Tdma, Streams
  <1> HIDE DEF t
  <1>4. /\ e \in Tdma /\ e.ess = x /\ e.stream = d.stream /\ e.slotid = d.slotid
        /\ e.sid = d.sid /\ e.rc = d.rc /\ e.burst = t.burst /\ e.first = t.first
    BY <1>2, <1>3 DEF Tdma, Ess
  <1>5. sound \in Sound  BY <1>3, SoundsType
  <1>6. n \in Ess /\ s \in Streams  BY <1>3, EssTypes
  <1>7. VoiceBurst(d, c, type, sent, b, real, got) = r
    <2>1. SkipEarly(t, c, type, sent, g) = e  BY DEF SkipEarly
    <2>2. NextEss(t, sent, g) = n  BY <1>2 DEF NextEss
    <2> HIDE DEF e, x, n
    <2> QED  BY <1>2, <1>4, <2>1, <2>2 DEF VoiceBurst, t
  <1> HIDE DEF e, sound, n, s
  <1>8. /\ v \in Tdma /\ v.ess = e.ess /\ v.stream = d.stream /\ v.slotid = d.slotid
        /\ v.sid = d.sid /\ v.rc = d.rc /\ v.burst = t.burst /\ v.first = t.first
        /\ v.sound = sound
    BY <1>4, <1>5 DEF Tdma, Sound
  <1> HIDE DEF v
  <1>9. /\ r \in Tdma /\ r.slotid = d.slotid
        /\ r.sid = d.sid /\ r.rc = d.rc /\ r.burst = t.burst /\ r.first = t.first
        /\ r.sound = sound
        /\ type = "4V" => r.ess = e.ess /\ r.stream = d.stream
        /\ type = "2V" => r.ess = n /\ r.stream = s
    BY <1>6, <1>8 DEF Tdma, Streams
  <1> HIDE DEF r
  <1>10. type = "4V" => e.ess = d.ess  BY <1>4
  <1>11. Counts(d, r, type)  BY <1>1, <1>9 DEF Tracks, Counts
  <1>12. r.sound = Sounds(c.behavior, x, d.stream, sent,
                          d.sid = real /\ (Encrypted(sent) => r.burst = b))
    BY <1>9 DEF sound
  <1>13. type = "2V" => r.ess = n /\ r.stream = IF Encrypted(n) THEN Prepare(c.keys, n)
                                                ELSE d.stream
    BY <1>9 DEF s
  <1>14. Plays(d, r, c, type, sent, b, real, g)
    <2> HIDE DEF x
    <2> QED  BY <1>9, <1>10, <1>11, <1>12, <1>13 DEF Plays, x, n
  <1> QED  BY <1>7, <1>14

-----------------------------------------------------------------------------
(* The call on the air.                                                    *)

LEMMA BurstIs ==
    ASSUME NEW due \in Voice
    PROVE  Burst(due) = Number(due) /\ Number(due) \in 0 .. 4
  <1>1. /\ Bursts[1] = "V0" /\ Bursts[2] = "V1" /\ Bursts[3] = "V2"
        /\ Bursts[4] = "V3" /\ Bursts[5] = "V4"
    BY DEF Bursts
  <1>2. PICK n \in 0 .. 4 : n = Number(due)  BY DEF Number, Voice
  <1>3. \A b \in 0 .. 4 : Bursts[b + 1] = due <=> b = n
    BY <1>1, <1>2, SMT DEF Number, Voice
  <1>4. (CHOOSE b \in 0 .. 4 : Bursts[b + 1] = due) = n  BY <1>3
  <1> QED  BY <1>2, <1>4 DEF Burst

LEMMA SentType ==
    ASSUME AirOK
    PROVE  Sent \in Ess /\ Sent.alg = air.alg /\ Sent.key = air.key
  BY DEF AirOK, Sent, Ess, Mis, NoMi

(* One packet on. *)
Moves ==
    /\ air'.call = air.call /\ air'.alg = air.alg /\ air'.key = air.key
    /\ air'.slot = (air.slot + 1) % 12
    /\ air'.due \in IF OwnVoice(air.slot) THEN NextDue2 ELSE {air.due}
    /\ air'.super = IF air.due = "V4" /\ air'.due = "V0" THEN air.super + 1 ELSE air.super
    /\ air'.first = IF air.due = "PTT1" /\ OwnVoice(air.slot)
                    THEN (air.slot \div 2 + 2) % 5 ELSE air.first

LEMMA NextDueIs ==
    ASSUME AirOK, Phase(2), NEW d \in NextDue2
    PROVE  /\ d \in Due2 /\ (d # "none" => air.due # "none") /\ d # "PTT1"
           /\ d = "PTT0" <=> air.due = "PTT1"
           /\ d \in Voice <=>
                \/ air.due \in {"PTT0", "V4"} /\ d = "V0"
                \/ air.due \in Voice /\ air.due # "V4" /\ Number(d) = Number(air.due) + 1
           /\ air.due \in Voice => d \in Voice \cup {"END"} /\ (air.due # "V4" => d \in Voice)
  <1>1. air.due \in Due2  BY DEF AirOK
  <1>2. CASE air.due \in {"V0", "V1", "V2", "V3"}
    <2>1. d = Bursts[Number(air.due) + 2]
      BY <1>2, BurstIs DEF NextDue2, Voice
    <2> QED  BY <1>2, <2>1 DEF Number, Bursts, Voice, Due2
  <1>3. CASE air.due \in {"none", "PTT1", "PTT0", "END", "V4"}
    <2>1. \/ air.due = "PTT1" /\ d = "PTT0"
          \/ air.due = "PTT0" /\ d = "V0"
          \/ air.due = "V4" /\ d \in {"V0", "END"}
          \/ air.due \in {"END", "none"} /\ d = "none"
      BY <1>3 DEF NextDue2
    <2> QED  BY <1>3, <2>1 DEF Number, Voice, Due2
  <1> QED  BY <1>1, <1>2, <1>3 DEF Due2, Voice

LEMMA AdvanceMoves ==
    ASSUME AirOK, Phase(2), NEW n \in Nat, Advance2(n), cfg' = cfg
    PROVE  Moves /\ AirOK'
  <1>1. PICK d \in IF OwnVoice(air.slot) THEN NextDue2 ELSE {air.due} :
            air' = [air EXCEPT
                    !.slot = (@ + 1) % 12, !.due = d, !.faults = @ + n,
                    !.first = IF air.due = "PTT1" /\ OwnVoice(air.slot)
                              THEN (air.slot \div 2 + 2) % 5 ELSE @,
                    !.super = IF air.due = "V4" /\ d = "V0" THEN @ + 1 ELSE @]
    BY DEF Advance2
  <1> DEFINE s == (air.slot + 1) % 12
             k == air.faults + n
             f == IF air.due = "PTT1" /\ OwnVoice(air.slot)
                  THEN (air.slot \div 2 + 2) % 5 ELSE air.first
             u == IF air.due = "V4" /\ d = "V0" THEN air.super + 1 ELSE air.super
  <1>2. s \in Slots /\ k \in Nat /\ f \in 0 .. 4 /\ u \in Nat
    BY DEF AirOK, Slots
  <1>3. d \in Due2 /\ (d # "none" => air.due # "none")
    BY NextDueIs DEF AirOK
  <1>4. air' = [air EXCEPT !.slot = s, !.due = d, !.faults = k, !.first = f, !.super = u]
    BY <1>1
  <1> HIDE DEF s, k, f, u
  <1>5. /\ air' \in [call : Nat, alg : Algs \cup {Clear}, key : KeyIds \cup {NoKey},
                super : Nat, due : Due1 \cup Due2, slot : Slots, first : 0 .. 4,
                faults : Nat]
        /\ air'.call = air.call /\ air'.alg = air.alg /\ air'.key = air.key
        /\ air'.slot = s /\ air'.due = d /\ air'.first = f /\ air'.super = u
    BY <1>2, <1>3, <1>4 DEF AirOK
  <1>6. Moves  BY <1>1, <1>5 DEF Moves, s, f, u
  <1>7. ~ Phase(1)' /\ Phase(2)'  BY DEF Phase
  <1>8. AirOK'  BY <1>3, <1>5, <1>7 DEF AirOK
  <1> QED  BY <1>6, <1>8

(* The bursts keep their slots. *)
LEMMA MovesAligned ==
    ASSUME AirOK, Phase(2), Moves, Aligned
    PROVE  Aligned'
  <1>1. air.slot \in Slots /\ air.first \in 0 .. 4  BY DEF AirOK
  <1>2. CASE ~ OwnVoice(air.slot)
    <2>1. NextPosition(air'.slot) = NextPosition(air.slot)
      BY <1>1, <1>2 DEF Moves, NextPosition, OwnVoice, Slots
    <2> QED  BY <1>2, <2>1 DEF Moves, Aligned
  <1>3. CASE OwnVoice(air.slot)
    <2>1. air'.due \in NextDue2  BY <1>3 DEF Moves
    <2>2. NextPosition(air.slot) \in 0 .. 4
          /\ NextPosition(air'.slot) = (NextPosition(air.slot) + 1) % 5
          /\ NextPosition(air.slot) = air.slot \div 2
      BY <1>1, <1>3 DEF Moves, NextPosition, OwnVoice, Slots
    <2>3. CASE air'.due = "PTT0"
      <3>1. air.due = "PTT1" /\ air'.first = (air.slot \div 2 + 2) % 5
        BY <1>3, <2>1, <2>3, NextDueIs DEF Moves
      <3> QED  BY <2>2, <2>3, <3>1 DEF Aligned, Voice
    <2>4. CASE air'.due \in Voice
      <3>1. air'.first = air.first
        BY <2>1, <2>4, NextDueIs DEF Moves, Voice
      <3>2. CASE air.due = "PTT0" /\ air'.due = "V0"
        BY <1>1, <2>2, <3>1, <3>2 DEF Aligned, Number, Voice
      <3>3. CASE air.due = "V4" /\ air'.due = "V0"
        BY <1>1, <2>2, <3>1, <3>3 DEF Aligned, Number, Voice
      <3>4. CASE air.due \in Voice /\ air.due # "V4" /\ Number(air'.due) = Number(air.due) + 1
        <4>1. Number(air.due) \in 0 .. 4  BY <3>4, BurstIs
        <4>2. air'.due # "PTT0"  BY <2>4 DEF Voice
        <4> QED  BY <1>1, <2>2, <2>4, <3>1, <3>4, <4>1, <4>2 DEF Aligned
      <3> QED  BY <2>1, <2>4, <3>2, <3>3, <3>4, NextDueIs
    <2>5. CASE air'.due \notin Voice \cup {"PTT0"}  BY <2>5 DEF Aligned
    <2> QED  BY <2>3, <2>4, <2>5
  <1> QED  BY <1>2, <1>3

-----------------------------------------------------------------------------
(* What a packet does, by the slot it is sent in and what it is taken for. *)

LEMMA ActiveIs ==
    ASSUME NEW d \in Tdma, d.slotid = 0
    PROVE  Active(d) <=> OwnVoice(d.sid) \/ d.sid = 11
  BY DEF Tdma, Slots, Active, WhichSlot, OwnVoice

(* Only the slot and the sound of d may differ from those of x. *)
SameCall(x, d) ==
    /\ d.ess = x.ess /\ d.stream = x.stream /\ d.slotid = x.slotid
    /\ d.first = x.first /\ d.burst = x.burst

Keeps(d, e) == e \in Tdma /\ e.slotid = d.slotid /\ e.sid = d.sid

(* MAC_PTT *)
Starts(d, e) ==
    /\ e.ess = Sent /\ e.burst = -1
    /\ e.stream = IF Encrypted(Sent) THEN Prepare(cfg.keys, Sent) ELSE d.stream
    /\ e.first = IF air.due = "PTT1" THEN (Position(d) + 2) % 5 ELSE (Position(d) + 1) % 5

(* MAC_ACTIVE *)
Corrects(d, e) ==
    /\ e.ess = d.ess /\ e.stream = d.stream /\ e.burst = d.burst
    /\ e.first = air.first /\ e.sound = d.sound

(* MAC_END_PTT *)
Ends(d, e) ==
    /\ e.stream = d.stream /\ e.burst = d.burst /\ e.first = d.first

Rewrites(d, e, x, b, s, f) ==
    /\ Keeps(d, e)
    /\ e.ess = x /\ e.burst = b /\ e.stream = s /\ e.first = f

LEMMA TdmaFields ==
    ASSUME NEW d \in Tdma, NEW x \in Ess, NEW b \in -1 .. 4, NEW s \in Streams,
           NEW f \in 0 .. 4
    PROVE  Rewrites(d, [d EXCEPT !.ess = x, !.burst = b, !.stream = s, !.first = f], x, b, s, f)
  <1> DEFINE c == [d EXCEPT !.ess = x, !.burst = b]
  <1>1. /\ c \in Tdma /\ c.slotid = d.slotid /\ c.sid = d.sid /\ c.ess = x /\ c.burst = b
    BY DEF Tdma
  <1>2. [d EXCEPT !.ess = x, !.burst = b, !.stream = s, !.first = f]
            = [c EXCEPT !.stream = s, !.first = f]
    BY DEF Tdma
  <1> HIDE DEF c
  <1>3. f \in -1 .. 4 /\ s \in [on : {"yes", "no"}, ess : Ess]  BY DEF Streams
  <1> QED  BY <1>1, <1>2, <1>3 DEF Tdma, Rewrites, Keeps

LEMMA PttStarts ==
    ASSUME NEW d \in Tdma, AirOK, OwnVoice(air.slot), d.sid = air.slot,
           air.due \in {"PTT1", "PTT0"}
    PROVE  LET e == MacPtt(d, cfg, Sent, IF air.due = "PTT1" THEN 1 ELSE 0)
           IN  Keeps(d, e) /\ Starts(d, e)
  <1> DEFINE offset == IF air.due = "PTT1" THEN 1 ELSE 0
             s == IF Encrypted(Sent) THEN Prepare(cfg.keys, Sent) ELSE d.stream
             f == (Position(d) + offset + 1) % 5
             e == [d EXCEPT !.ess = Sent, !.burst = -1, !.stream = s, !.first = f]
  <1>1. Sent \in Ess  BY SentType
  <1>2. s \in Streams  BY <1>1, EssTypes DEF Tdma, Streams
  <1>3. f \in 0 .. 4
    BY DEF Tdma, Slots, Position
  <1>6. f = IF air.due = "PTT1" THEN (Position(d) + 2) % 5 ELSE (Position(d) + 1) % 5
    BY DEF Tdma, Slots, Position
  <1>4. MacPtt(d, cfg, Sent, offset) = e  BY DEF MacPtt
  <1> HIDE DEF f, s
  <1>5. /\ e \in Tdma /\ e.slotid = d.slotid /\ e.sid = d.sid
        /\ e.ess = Sent /\ e.burst = -1 /\ e.stream = s /\ e.first = f
    <2> DEFINE none == -1
               x == Sent
    <2>1. none \in -1 .. 4  OBVIOUS
    <2>2. x \in Ess  BY <1>1
    <2>3. e = [d EXCEPT !.ess = x, !.burst = none, !.stream = s, !.first = f]
      OBVIOUS
    <2> HIDE DEF e, none, x
    <2>4. Rewrites(d, [d EXCEPT !.ess = x, !.burst = none, !.stream = s, !.first = f],
              x, none, s, f)
      BY <1>2, <1>3, <2>1, <2>2, TdmaFields
    <2> QED  BY <2>3, <2>4 DEF none, x, Rewrites, Keeps
  <1> HIDE DEF e
  <1> QED  BY <1>4, <1>5, <1>6 DEF Keeps, Starts, s

LEMMA EndPttEnds ==
    ASSUME NEW d \in Tdma
    PROVE  Keeps(d, MacEndPtt(d)) /\ Ends(d, MacEndPtt(d))
  <1>1. ResetEss(d.ess) \in Ess  BY EssTypes DEF Tdma
  <1>2. MacEndPtt(d) = [d EXCEPT !.ess = ResetEss(d.ess)]  BY DEF MacEndPtt, Tdma
  <1> QED  BY <1>1, <1>2 DEF Tdma, Keeps, Ends

LEMMA SacchCorrects ==
    ASSUME NEW d \in Tdma, AirOK
    PROVE  Keeps(d, MacActive(d, air.first)) /\ Corrects(d, MacActive(d, air.first))
  <1>1. air.first \in 0 .. 4  BY DEF AirOK
  <1>2. MacActive(d, air.first) = [d EXCEPT !.first = air.first]  BY <1>1 DEF MacActive
  <1> QED  BY <1>1, <1>2 DEF Tdma, Keeps, Corrects

(* The cases of Handled, each with what it leaves. *)
Nothing(d, e, got) ==
    /\ e = d
    /\ \/ ~ Active(d)
       \/ OwnVoice(air.slot) /\ ~ InVoice
            /\ ~ (d.sid = air.slot /\ got = "ok" /\ air.due \in {"PTT1", "PTT0", "END"})
       \/ air.slot = 11 /\ ~ (d.sid = 11 /\ got = "ok" /\ InVoice)

Begins(d, e, got) ==
    /\ OwnVoice(air.slot) /\ d.sid = air.slot /\ got = "ok" /\ air.due \in {"PTT1", "PTT0"}
    /\ Starts(d, e)

Finishes(d, e, got) ==
    /\ OwnVoice(air.slot) /\ d.sid = air.slot /\ got = "ok" /\ air.due = "END"
    /\ Ends(d, e)

Informs(d, e, got) ==
    /\ air.slot = 11 /\ d.sid = 11 /\ got = "ok" /\ InVoice
    /\ Corrects(d, e)

Speaks(d, e, got) ==
    /\ OwnVoice(air.slot) /\ InVoice /\ Active(d)
    /\ Plays(d, e, cfg, IF air.due = "V4" THEN "2V" ELSE "4V", Sent, Number(air.due),
             air.slot, IF d.sid = air.slot THEN got ELSE "bad")

Intrudes(d, e) ==
    /\ ~ OwnVoice(air.slot) /\ air.slot # 11 /\ Active(d)
    /\ \E type \in {"4V", "2V"} : Plays(d, e, cfg, type, Sent, -1, air.slot, "bad")

Effect(d, e, got) ==
    /\ Keeps(d, e)
    /\ \/ Nothing(d, e, got) \/ Begins(d, e, got) \/ Finishes(d, e, got)
       \/ Informs(d, e, got) \/ Speaks(d, e, got) \/ Intrudes(d, e)

LEMMA HandledEffect ==
    ASSUME AirOK, Phase(2), NEW d \in Tdma, d.slotid = 0,
           d.rc = "slot" => d.sid < 10, NEW got \in {"bad", "ok"},
           NEW type \in {"4V", "2V"}
    PROVE  Effect(d, Handled(d, got, type), got)
  <1> DEFINE e == Handled(d, got, type)
             mine == d.sid = air.slot /\ got = "ok"
             own == OwnVoice(air.slot)
  <1>1. air.slot \in Slots /\ air.due \in Due2  BY DEF AirOK
  <1>2. Sent \in Ess  BY SentType
  <1>3. Keeps(d, d)  BY DEF Keeps
  <1>4. CASE ~ Active(d)
    BY <1>3, <1>4 DEF Handled, Effect, Nothing
  <1>5. CASE Active(d) /\ own /\ air.due \in {"PTT1", "PTT0"}
    <2>1. e = IF mine THEN MacPtt(d, cfg, Sent, IF air.due = "PTT1" THEN 1 ELSE 0) ELSE d
      BY <1>5 DEF Handled, OwnVoice, InVoice
    <2>2. CASE mine  BY <1>5, <2>1, <2>2, PttStarts DEF Effect, Begins
    <2>3. CASE ~ mine  BY <1>3, <1>5, <2>1, <2>3 DEF Effect, Nothing, InVoice
    <2> QED  BY <2>2, <2>3
  <1>6. CASE Active(d) /\ own /\ air.due = "END"
    <2>1. e = IF mine THEN MacEndPtt(d) ELSE d
      BY <1>6 DEF Handled, OwnVoice, InVoice
    <2>2. CASE mine  BY <1>6, <2>1, <2>2, EndPttEnds DEF Effect, Finishes
    <2>3. CASE ~ mine  BY <1>3, <1>6, <2>1, <2>3 DEF Effect, Nothing, InVoice
    <2> QED  BY <2>2, <2>3
  <1>7. CASE Active(d) /\ own /\ InVoice
    <2> DEFINE kind == IF air.due = "V4" THEN "2V" ELSE "4V"
    <2>1. e = VoiceBurst(d, cfg, kind, Sent, Burst(air.due), air.slot, got)
      BY <1>7 DEF Handled, OwnVoice, InVoice
    <2>2. Burst(air.due) = Number(air.due)  BY <1>7, BurstIs DEF InVoice, Voice
    <2>3. kind \in {"2V", "4V"}  OBVIOUS
    <2> HIDE DEF kind, e
    <2>4. Plays(d, e, cfg, kind, Sent, Number(air.due), air.slot,
                IF d.sid = air.slot THEN got ELSE "bad")
      BY <1>2, <2>1, <2>2, <2>3, VoiceBurstPlays
    <2>5. Keeps(d, e)  BY <2>4 DEF Plays, Keeps
    <2> QED  BY <1>7, <2>4, <2>5 DEF Effect, Speaks, kind, e
  <1>8. CASE Active(d) /\ air.slot = 11
    <2>1. e = IF mine /\ InVoice THEN MacActive(d, air.first) ELSE d
      BY <1>8 DEF Handled, OwnVoice
    <2>2. CASE mine /\ InVoice  BY <1>8, <2>1, <2>2, SacchCorrects DEF Effect, Informs
    <2>3. CASE ~ (mine /\ InVoice)  BY <1>3, <1>8, <2>1, <2>3 DEF Effect, Nothing
    <2> QED  BY <2>2, <2>3
  <1>9. CASE Active(d) /\ ~ own /\ air.slot # 11
    <2>1. e = VoiceBurst(d, cfg, type, Sent, -1, air.slot, "bad")
      BY <1>9 DEF Handled, OwnVoice
    <2> HIDE DEF e
    <2>2. Plays(d, e, cfg, type, Sent, -1, air.slot,
                IF d.sid = air.slot THEN "bad" ELSE "bad")
      BY <1>2, <2>1, VoiceBurstPlays
    <2>3. Keeps(d, e)  BY <2>2 DEF Plays, Keeps
    <2> QED  BY <1>9, <2>2, <2>3 DEF Effect, Intrudes, e
  <1>10. CASE Active(d) /\ own /\ air.due = "none"
    <2>1. e = d  BY <1>10 DEF Handled, OwnVoice, InVoice
    <2> QED  BY <1>3, <1>10, <2>1 DEF Effect, Nothing, InVoice
  <1> QED  BY <1>1, <1>4, <1>5, <1>6, <1>7, <1>8, <1>9, <1>10
           DEF Due2, Voice, InVoice, OwnVoice

-----------------------------------------------------------------------------
(* One packet of phase 2, in the terms of the decoder before and after it: *)
(* received as "ok" or "bad", or "lost".                                   *)

Sure(clean) == clean = TRUE /\ air.slot \in ISlots

Heard(got) == dec'.sid = air.slot /\ got = "ok"

SameEss == dec'.ess = dec.ess /\ dec'.stream = dec.stream

NextEssIs(n) ==
    /\ dec'.ess = n
    /\ dec'.stream = IF Encrypted(n) THEN Prepare(cfg.keys, n) ELSE dec.stream

(* Not a voice packet taken for one, or one that is missed. *)
Passes(got) ==
    /\ SameEss /\ dec'.first = dec.first /\ dec'.burst = dec.burst /\ dec'.sound = "none"
    /\ known' = known /\ gap \subseteq gap' /\ ("first" \in gap' => "first" \in gap)
    /\ \/ ~ OwnVoice(air.slot) /\ ~ (Heard(got) /\ air.slot = 11 /\ InVoice)
       \/ OwnVoice(air.slot) /\ ~ InVoice
             /\ ~ (Heard(got) /\ air.due \in {"PTT1", "PTT0", "END"})
       \/ /\ OwnVoice(air.slot) /\ InVoice /\ (dec'.sid # air.slot \/ got = "lost")
          /\ IF air.due = "V4" THEN "ess" \in gap' ELSE "count" \in gap'

HearsPtt(got) ==
    /\ OwnVoice(air.slot) /\ Heard(got) /\ air.due \in {"PTT1", "PTT0"}
    /\ NextEssIs(Sent) /\ dec'.burst = -1
    /\ dec'.first = IF air.due = "PTT1" THEN (air.slot \div 2 + 2) % 5
                    ELSE (air.slot \div 2 + 1) % 5
    /\ known' = TRUE /\ gap' = {}

HearsEnd(got) ==
    /\ OwnVoice(air.slot) /\ Heard(got) /\ air.due = "END"
    /\ dec'.stream = dec.stream /\ dec'.first = dec.first /\ known' = FALSE

HearsSacch(got) ==
    /\ air.slot = 11 /\ Heard(got) /\ InVoice
    /\ SameEss /\ dec'.burst = dec.burst /\ dec'.first = air.first /\ dec'.sound = "none"
    /\ known' = known /\ gap' = gap \ {"first"}

Expected == (IF air.slot \div 2 < dec.first THEN air.slot \div 2 + 5
             ELSE air.slot \div 2) - dec.first

Speech(e) ==
    dec'.sound = Sounds(cfg.behavior, e, dec.stream, Sent,
                        Encrypted(Sent) => dec'.burst = Number(air.due))

Hears4V(clean) ==
    /\ OwnVoice(air.slot) /\ InVoice /\ air.due # "V4" /\ dec'.sid = air.slot
    /\ SameEss /\ dec'.first = dec.first /\ Speech(dec.ess)
    /\ LET c == (dec.burst + 1) % 5
       IN  dec'.burst = IF Sure(clean) /\ dec.first >= 0 /\ Expected > c THEN Expected ELSE c
    /\ known' = known
    /\ gap' = IF Sure(clean) /\ dec.first >= 0
              THEN IF "first" \in gap THEN gap \cup {"ess"} ELSE gap \ {"count"}
              ELSE gap

Hears2V(clean, got) ==
    /\ OwnVoice(air.slot) /\ air.due = "V4" /\ dec'.sid = air.slot
    /\ NextEssIs(IF got = "ok" THEN CycleMi(Sent) ELSE CycleMi(dec.ess))
    /\ dec'.burst = 4
    /\ dec'.first = IF Sure(clean) THEN (air.slot \div 2 + 1) % 5 ELSE dec.first
    /\ Speech(IF cfg.behavior >= 2 /\ got = "ok" /\ Encrypted(Sent)
              THEN [dec.ess EXCEPT !.alg = Sent.alg] ELSE dec.ess)
    /\ known' = IF got = "ok" THEN TRUE ELSE known
    /\ gap' = IF got # "ok" THEN gap ELSE IF Sure(clean) THEN {} ELSE gap \ {"ess", "count"}

(* A voice packet, ours or not, that is taken for another slot of ours.    *)
Mistakes ==
    /\ dec'.sid # air.slot /\ (OwnVoice(air.slot) => InVoice)
    /\ air.slot # 11
    /\ dec'.first = dec.first
    /\ SameEss \/ NextEssIs(CycleMi(dec.ess))
    /\ \E placed : dec'.sound = Sounds(cfg.behavior, dec.ess, dec.stream, Sent, placed)
    /\ known' = known /\ gap \subseteq gap' /\ "ess" \in gap'
    /\ "first" \in gap' => "first" \in gap

PacketCase(clean, got) ==
    \/ Passes(got) \/ HearsPtt(got) \/ HearsEnd(got) \/ HearsSacch(got)
    \/ Hears4V(clean) \/ Hears2V(clean, got) \/ Mistakes

Received(clean, got) ==
    /\ dec' \in Tdma /\ dec'.slotid = 0
    /\ got # "lost" => dec'.sid = IF Sure(clean) THEN air.slot ELSE (dec.sid + 1) % 12
    /\ cfg' = cfg /\ Moves /\ AirOK'
    /\ gap' \subseteq gap \cup {"ess", "count"}
    /\ fine' = IF air.due \in {"none", "END"} \/ clean # TRUE \/ got # "ok" THEN 0
               ELSE IF fine <= Settled THEN fine + 1 ELSE fine
    /\ PacketCase(clean, got)

LEMMA PacketReceived ==
    ASSUME TypeOK, AirOK, Phase(2), dec.slotid = 0,
           NEW clean \in BOOLEAN, NEW got \in {"bad", "ok"}, Packet(clean, got)
    PROVE  Received(clean, got)
  <1> DEFINE d == CheckConfidence([dec EXCEPT !.sound = "none"], air.slot, clean)
             ours == OwnVoice(air.slot) /\ d.sid = air.slot
             esssent == air.due \in {"PTT1", "PTT0", "V4"}
             own == OwnVoice(air.slot)
             n == (IF clean THEN 0 ELSE 1) + (IF got = "ok" THEN 0 ELSE 1)
  <1>1. PICK type \in {"4V", "2V"} :
            /\ dec' = Handled(d, got, type)
            /\ known' = CASE ours /\ got = "ok" /\ air.due \in {"PTT1", "PTT0", "V4"} -> TRUE
                          [] ours /\ got = "ok" /\ air.due = "END" -> FALSE
                          [] OTHER -> known
            /\ gap' = Doubts(d, got)
            /\ fine' = IF air.due \in {"none", "END"} \/ ~clean \/ got = "bad" THEN 0
                       ELSE IF fine <= Settled THEN fine + 1 ELSE fine
            /\ Advance2(n)
            /\ cfg' = cfg
    BY DEF Packet
  <1>2. dec \in Tdma /\ air.slot \in Slots
    BY DEF TypeOK, AirOK, Phase
  <1>3. Listens(dec, d, air.slot, clean)  BY <1>2, CheckConfidenceListens
  <1> HIDE DEF d
  <1>4. d \in Tdma /\ d.slotid = 0 /\ d.sound = "none" /\ SameCall(dec, d)
        /\ (d.rc = "slot" <=> Sure(clean))
        /\ (d.rc = "slot" => d.sid = air.slot /\ air.slot \in ISlots)
        /\ d.sid = IF Sure(clean) THEN air.slot ELSE (dec.sid + 1) % 12
    BY <1>3 DEF Listens, SameCall, Sure
  <1>5. Effect(d, dec', got)
    <2>1. d.rc = "slot" => d.sid < 10  BY <1>4 DEF ISlots
    <2> QED  BY <1>1, <1>4, <2>1, HandledEffect
  <1>6. dec' \in Tdma /\ dec'.slotid = 0 /\ dec'.sid = d.sid
    BY <1>4, <1>5 DEF Effect, Keeps
  <1>7. n \in Nat /\ n = n  OBVIOUS
  <1>8. Moves /\ AirOK'
    <2> HIDE DEF n
    <2> QED  BY <1>1, <1>7, AdvanceMoves
  <1>9. fine' = IF air.due \in {"none", "END"} \/ clean # TRUE \/ got # "ok" THEN 0
               ELSE IF fine <= Settled THEN fine + 1 ELSE fine
    BY <1>1
  <1>10. Active(d) <=> OwnVoice(d.sid) \/ d.sid = 11  BY <1>4, ActiveIs
  <1>11. PacketCase(clean, got)
    <2> DEFINE corrects == ours /\ InVoice /\ ~esssent /\ d.rc = "slot" /\ d.first >= 0
    <2>0. d.ess = dec.ess /\ d.stream = dec.stream /\ d.first = dec.first /\ d.burst = dec.burst
      BY <1>4 DEF SameCall
    <2>1. ours => own /\ Active(d) /\ air.slot # 11
      BY <1>10 DEF OwnVoice
    <2>2. gap' = CASE ~own /\ air.slot # 11 /\ Active(d) -> gap \cup {"ess"}
          [] air.slot = 11 /\ d.sid = 11 /\ got = "ok" /\ InVoice -> gap \ {"first"}
          [] ours /\ got = "ok" /\ esssent ->
                IF air.due # "V4" \/ d.rc = "slot" THEN {} ELSE gap \ {"ess", "count"}
          [] corrects -> IF "first" \in gap THEN gap \cup {"ess"} ELSE gap \ {"count"}
          [] ~ours /\ own /\ InVoice ->
                gap \cup (IF air.due = "V4" THEN {"ess"} ELSE {"count"})
                    \cup (IF Active(d) THEN {"ess"} ELSE {})
          [] OTHER -> gap
      BY <1>1 DEF Doubts
    <2>3. own => air.slot # 11  BY DEF OwnVoice
    <2>4. CASE Nothing(d, dec', got)
      <3>1. /\ SameEss /\ dec'.first = dec.first /\ dec'.burst = dec.burst
            /\ dec'.sound = "none"
        BY <1>4, <2>0, <2>4 DEF Nothing, SameEss
      <3>2. CASE ~ Active(d)
        <4>1. ~ ours /\ d.sid # 11  BY <1>10, <2>1, <3>2
        <4>2. known' = known  BY <1>1, <4>1
        <4>3. gap' = IF own /\ InVoice
                     THEN gap \cup (IF air.due = "V4" THEN {"ess"} ELSE {"count"})
                     ELSE gap
          BY <2>2, <3>2, <4>1
        <4> QED  BY <1>6, <2>3, <3>1, <4>1, <4>2, <4>3
                 DEF PacketCase, Passes, Heard, InVoice
      <3>3. CASE /\ own /\ ~ InVoice
                 /\ ~ (d.sid = air.slot /\ got = "ok" /\ air.due \in {"PTT1", "PTT0", "END"})
        <4>1. known' = known  BY <1>1, <3>3 DEF InVoice
        <4>2. gap' = gap
          BY <2>2, <2>3, <3>3 DEF InVoice
        <4> QED  BY <1>6, <3>1, <3>3, <4>1, <4>2 DEF PacketCase, Passes, Heard
      <3>4. CASE air.slot = 11 /\ ~ (d.sid = 11 /\ got = "ok" /\ InVoice)
        <4>1. ~ own /\ ~ ours  BY <2>3, <3>4
        <4>2. known' = known  BY <1>1, <4>1
        <4>3. gap' = gap  BY <2>2, <3>4, <4>1
        <4> QED  BY <1>6, <3>1, <3>4, <4>1, <4>2, <4>3 DEF PacketCase, Passes, Heard
      <3> QED  BY <2>4, <3>2, <3>3, <3>4 DEF Nothing
    <2>5. CASE Begins(d, dec', got)
      <3>1. ours /\ got = "ok" /\ air.due \in {"PTT1", "PTT0"}  BY <2>5 DEF Begins
      <3>2. known' = TRUE  BY <1>1, <3>1
      <3>3. gap' = {}  BY <2>1, <2>2, <3>1
      <3> QED  BY <1>6, <2>0, <2>5, <3>1, <3>2, <3>3
               DEF PacketCase, HearsPtt, Heard, Begins, Starts, NextEssIs, Position
    <2>6. CASE Finishes(d, dec', got)
      <3>1. ours /\ got = "ok" /\ air.due = "END"  BY <2>6 DEF Finishes
      <3>2. known' = FALSE  BY <1>1, <3>1
      <3> QED  BY <1>6, <2>0, <2>6, <3>1, <3>2 DEF PacketCase, HearsEnd, Heard, Finishes, Ends
    <2>7. CASE Informs(d, dec', got)
      <3>1. ~ own /\ ~ ours /\ air.slot = 11 /\ d.sid = 11 /\ got = "ok" /\ InVoice
        BY <2>3, <2>7 DEF Informs
      <3>2. known' = known  BY <1>1, <3>1
      <3>3. gap' = gap \ {"first"}  BY <2>2, <3>1
      <3> QED  BY <1>4, <1>6, <2>0, <2>7, <3>1, <3>2, <3>3
               DEF PacketCase, HearsSacch, Heard, Informs, Corrects, SameEss
    <2>8. CASE Speaks(d, dec', got)
      <3> DEFINE kind == IF air.due = "V4" THEN "2V" ELSE "4V"
                 g == IF d.sid = air.slot THEN got ELSE "bad"
                 skips == cfg.behavior >= 2 /\ kind = "2V" /\ g = "ok" /\ Encrypted(Sent)
                 e == IF skips THEN [d.ess EXCEPT !.alg = Sent.alg] ELSE d.ess
                 placed == d.sid = air.slot /\ (Encrypted(Sent) => dec'.burst = Number(air.due))
                 next == IF g = "ok" THEN CycleMi(Sent) ELSE CycleMi(d.ess)
      <3>1. own /\ InVoice /\ Active(d) /\ air.slot # 11  BY <2>3, <2>8 DEF Speaks
      <3>2. Plays(d, dec', cfg, kind, Sent, Number(air.due), air.slot, g)
        BY <2>8 DEF Speaks
      <3>3. /\ kind = "4V" => dec'.ess = d.ess /\ dec'.stream = d.stream
            /\ kind = "2V" =>
                  /\ dec'.ess = next
                  /\ dec'.stream = IF Encrypted(next) THEN Prepare(cfg.keys, next)
                                   ELSE d.stream
            /\ dec'.sound = Sounds(cfg.behavior, e, d.stream, Sent, placed)
            /\ Counts(d, dec', kind)
        BY <3>2 DEF Plays
      <3> HIDE DEF next, e, placed
      <3>4. CASE d.sid # air.slot
        <4>1. ~ ours /\ d.rc # "slot"  BY <1>4, <3>4
        <4>2. known' = known  BY <1>1, <4>1
        <4>3. gap' = gap \cup (IF air.due = "V4" THEN {"ess"} ELSE {"count"}) \cup {"ess"}
          BY <2>2, <3>1, <4>1
        <4>4. g = "bad" /\ e = d.ess /\ next = CycleMi(d.ess)
          BY <3>4 DEF e, next
        <4>5. dec'.first = dec.first
          BY <2>0, <3>3, <4>1 DEF Counts
        <4>6. SameEss \/ NextEssIs(CycleMi(dec.ess))
          BY <2>0, <3>3, <4>4 DEF SameEss, NextEssIs
        <4>7. dec'.sound = Sounds(cfg.behavior, dec.ess, dec.stream, Sent, placed)
          BY <2>0, <3>3, <4>4
        <4> QED  BY <1>6, <3>1, <3>4, <4>2, <4>3, <4>5, <4>6, <4>7
                 DEF PacketCase, Mistakes
      <3>5. CASE d.sid = air.slot /\ air.due # "V4"
        <4>1. ours /\ ~ esssent /\ kind = "4V"  BY <3>1, <3>5 DEF InVoice
        <4>2. known' = known  BY <1>1, <3>1, <4>1 DEF InVoice
        <4>3. gap' = IF d.rc = "slot" /\ d.first >= 0
                     THEN IF "first" \in gap THEN gap \cup {"ess"} ELSE gap \ {"count"}
                     ELSE gap
          BY <2>2, <3>1, <4>1
        <4>4. e = d.ess  BY <4>1 DEF e
        <4>5. SameEss /\ dec'.first = dec.first
          BY <2>0, <3>3, <4>1 DEF SameEss, Counts
        <4>6. Expects(d) = Expected  BY <2>0, <3>5 DEF Expects, Expected, Position
        <4>7. LET c == (dec.burst + 1) % 5
              IN  dec'.burst = IF Sure(clean) /\ dec.first >= 0 /\ Expected > c
                               THEN Expected ELSE c
          BY <1>4, <2>0, <3>3, <4>1, <4>6 DEF Counts
        <4>8. placed = (Encrypted(Sent) => dec'.burst = Number(air.due))
          BY <3>5 DEF placed
        <4>9. Speech(dec.ess)  BY <2>0, <3>3, <4>4, <4>8 DEF Speech
        <4>10. gap' = IF Sure(clean) /\ dec.first >= 0
                      THEN IF "first" \in gap THEN gap \cup {"ess"} ELSE gap \ {"count"}
                      ELSE gap
          BY <1>4, <2>0, <4>3
        <4> QED  BY <1>6, <3>1, <3>5, <4>2, <4>5, <4>7, <4>9, <4>10
                 DEF PacketCase, Hears4V
      <3>6. CASE d.sid = air.slot /\ air.due = "V4"
        <4>1. ours /\ esssent /\ kind = "2V" /\ g = got  BY <3>1, <3>6
        <4>2. known' = IF got = "ok" THEN TRUE ELSE known  BY <1>1, <3>6, <4>1
        <4>3. gap' = IF got # "ok" THEN gap
                     ELSE IF d.rc = "slot" THEN {} ELSE gap \ {"ess", "count"}
          BY <2>2, <3>1, <3>6, <4>1
        <4>4. next = IF got = "ok" THEN CycleMi(Sent) ELSE CycleMi(dec.ess)
          BY <2>0, <4>1 DEF next
        <4>5. NextEssIs(IF got = "ok" THEN CycleMi(Sent) ELSE CycleMi(dec.ess))
          BY <2>0, <3>3, <4>1, <4>4 DEF NextEssIs
        <4>6. /\ dec'.burst = 4
              /\ dec'.first = IF d.rc = "slot" THEN (air.slot \div 2 + 1) % 5 ELSE dec.first
          BY <2>0, <3>3, <3>6, <4>1 DEF Counts, Position
        <4>7. e = IF cfg.behavior >= 2 /\ got = "ok" /\ Encrypted(Sent)
                  THEN [dec.ess EXCEPT !.alg = Sent.alg] ELSE dec.ess
          BY <2>0, <4>1 DEF e
        <4>8. placed = (Encrypted(Sent) => dec'.burst = Number(air.due))
          BY <3>6 DEF placed
        <4>9. dec'.sound = Sounds(cfg.behavior, e, dec.stream, Sent,
                              Encrypted(Sent) => dec'.burst = Number(air.due))
          BY <2>0, <3>3, <4>8
        <4>10. Speech(IF cfg.behavior >= 2 /\ got = "ok" /\ Encrypted(Sent)
                      THEN [dec.ess EXCEPT !.alg = Sent.alg] ELSE dec.ess)
          BY <4>7, <4>9 DEF Speech
        <4> QED  BY <1>4, <1>6, <3>1, <3>6, <4>2, <4>3, <4>5, <4>6, <4>10
                 DEF PacketCase, Hears2V
      <3> QED  BY <3>4, <3>5, <3>6
    <2>9. CASE Intrudes(d, dec')
      <3>1. ~ own /\ ~ ours /\ air.slot # 11 /\ Active(d)
        BY <2>9 DEF Intrudes
      <3>2. PICK kind \in {"4V", "2V"} :
                Plays(d, dec', cfg, kind, Sent, -1, air.slot, "bad")
        BY <2>9 DEF Intrudes
      <3>3. d.sid # air.slot /\ d.rc # "slot"  BY <1>4, <1>10, <3>1
      <3>4. known' = known  BY <1>1, <3>1
      <3>5. gap' = gap \cup {"ess"}  BY <2>2, <3>1
      <3> DEFINE none == -1
      <3>6. Plays(d, dec', cfg, kind, Sent, none, air.slot, "bad")  BY <3>2
      <3> HIDE DEF none
      <3>7. /\ kind = "4V" => dec'.ess = d.ess /\ dec'.stream = d.stream
            /\ kind = "2V" =>
                  /\ dec'.ess = CycleMi(d.ess)
                  /\ dec'.stream = IF Encrypted(CycleMi(d.ess))
                                   THEN Prepare(cfg.keys, CycleMi(d.ess)) ELSE d.stream
            /\ Counts(d, dec', kind)
            /\ \E placed : dec'.sound = Sounds(cfg.behavior, d.ess, d.stream, Sent, placed)
        BY <3>6 DEF Plays
      <3>8. dec'.first = dec.first  BY <2>0, <3>3, <3>7 DEF Counts
      <3>9. SameEss \/ NextEssIs(CycleMi(dec.ess))
        BY <2>0, <3>7 DEF SameEss, NextEssIs
      <3>10. \E placed : dec'.sound = Sounds(cfg.behavior, dec.ess, dec.stream, Sent, placed)
        BY <2>0, <3>7
      <3> QED  BY <1>6, <3>1, <3>3, <3>4, <3>5, <3>8, <3>9, <3>10
               DEF PacketCase, Mistakes
    <2> QED  BY <1>5, <2>4, <2>5, <2>6, <2>7, <2>8, <2>9 DEF Effect
  <1>12. gap' \subseteq gap \cup {"ess", "count"}
    BY <1>1 DEF Doubts
  <1> QED  BY <1>1, <1>4, <1>6, <1>8, <1>9, <1>11, <1>12 DEF Received

LEMMA LostReceived ==
    ASSUME TypeOK, AirOK, Phase(2), dec.slotid = 0, LosePacket
    PROVE  Received(FALSE, "lost")
  <1>1. dec \in Tdma  BY DEF TypeOK, Phase
  <1>2. dec' = [dec EXCEPT !.sound = "none"] /\ cfg' = cfg /\ known' = known /\ fine' = 0
    BY DEF LosePacket
  <1>3. /\ dec' \in Tdma /\ dec'.slotid = 0 /\ dec'.sound = "none"
        /\ SameEss /\ dec'.first = dec.first /\ dec'.burst = dec.burst
    BY <1>1, <1>2 DEF Tdma, SameEss
  <1> DEFINE one == 1
  <1>4. one \in Nat /\ Advance2(one)  BY DEF LosePacket
  <1> HIDE DEF one
  <1>5. Moves /\ AirOK'  BY <1>2, <1>4, AdvanceMoves
  <1>6. gap' = IF OwnVoice(air.slot) /\ InVoice
               THEN gap \cup (IF air.due = "V4" THEN {"ess"} ELSE {"count"}) ELSE gap
    BY DEF LosePacket
  <1>7. Passes("lost")  BY <1>2, <1>3, <1>6 DEF Passes, Heard
  <1> QED  BY <1>2, <1>3, <1>5, <1>6, <1>7 DEF Received, PacketCase

-----------------------------------------------------------------------------
(* A packet, received or lost, leaves what it does not put in doubt.       *)

LEMMA PacketTyped ==
    ASSUME TypeOK, Phase(2), NEW clean, NEW got, Received(clean, got)
    PROVE  TypeOK' /\ (Phase(2) => dec.slotid = 0)'
  <1>1. cfg' = cfg /\ Phase(2)' /\ ~ Phase(1)' /\ dec' \in Tdma
    BY DEF Received, Phase
  <1>2. known' \in BOOLEAN
    BY DEF TypeOK, Received, PacketCase, Passes, HearsPtt, HearsEnd, HearsSacch, Hears4V,
           Hears2V, Mistakes
  <1>3. fine' \in 0 .. Settled + 1
    <2>1. fine' \in {0, fine} \/ (fine <= Settled /\ fine' = fine + 1)
      <3> DEFINE none == air.due \in {"none", "END"} \/ clean # TRUE \/ got # "ok"
      <3>1. fine' = IF none THEN 0 ELSE IF fine <= Settled THEN fine + 1 ELSE fine
        BY DEF Received
      <3> HIDE DEF none
      <3> QED  BY <3>1
    <2>2. fine \in 0 .. 20 /\ Settled = 19  BY DEF TypeOK, Settled
    <2> QED  BY <2>1, <2>2
  <1> QED  BY <1>1, <1>2, <1>3 DEF TypeOK, Received

(* The next packet is of the running call.                                 *)
LEMMA RunsOn ==
    ASSUME AirOK, Phase(2), Moves, Running'
    PROVE  /\ air.due # "PTT1" => Running /\ air'.first = air.first
           /\ air.due # "END" /\ air.due # "none"
           /\ air'.due # "PTT1"
           /\ ~ OwnVoice(air.slot) => air'.due = air.due
           /\ OwnVoice(air.slot) /\ air.due # "PTT1" => air'.due \in Voice
           /\ OwnVoice(air.slot) /\ air.due = "PTT1" => air'.due = "PTT0"
           /\ OwnVoice(air.slot) /\ air.due \in {"PTT0", "V4"} => air'.due = "V0"
           /\ OwnVoice(air.slot) /\ air.due \in Voice /\ air.due # "V4" =>
                  Number(air'.due) = Number(air.due) + 1
  <1>1. CASE ~ OwnVoice(air.slot)
    BY <1>1 DEF Moves, Running, Voice
  <1>2. CASE OwnVoice(air.slot)
    <2>1. air'.due \in NextDue2  BY <1>2 DEF Moves
    <2>2. air'.due # "PTT1" /\ (air'.due = "PTT0" <=> air.due = "PTT1")
      BY <2>1, NextDueIs
    <2>3. air'.due \in Voice =>
                \/ air.due \in {"PTT0", "V4"} /\ air'.due = "V0"
                \/ /\ air.due \in Voice /\ air.due # "V4"
                   /\ Number(air'.due) = Number(air.due) + 1
      BY <2>1, NextDueIs
    <2> QED  BY <1>2, <2>2, <2>3 DEF Moves, Running, Voice
  <1> QED  BY <1>1, <1>2

(* Our slots have the positions 0 to 4.                                    *)
LEMMA PositionIs ==
    ASSUME AirOK, Aligned, OwnVoice(air.slot)
    PROVE  /\ air.slot \div 2 \in 0 .. 4 /\ air.slot = 2 * (air.slot \div 2)
           /\ air.due \in Voice => air.slot \div 2 = (air.first + Number(air.due)) % 5
           /\ air.due = "PTT0" => air.slot \div 2 = (air.first + 4) % 5
  BY DEF AirOK, Slots, OwnVoice, Aligned, NextPosition

(* An ESS burst is sent where the call's first 4V tells.                   *)
LEMMA EssBursts ==
    ASSUME AirOK, Aligned, OwnVoice(air.slot), Running
    PROVE  /\ air.due \in {"PTT0", "V4"} <=> air.slot = EssSlot
           /\ air.due \in {"PTT0", "V4"} => (air.slot \div 2 + 1) % 5 = air.first
  <1>1. air.first \in 0 .. 4 /\ air.slot \in Slots  BY DEF AirOK
  <1>2. CASE air.due = "PTT0"
    BY <1>1, <1>2, PositionIs DEF EssSlot, Voice
  <1>3. CASE air.due = "V4"
    <2>1. air.slot \div 2 = (air.first + 4) % 5
      BY <1>3, PositionIs DEF Voice, Number
    <2> QED  BY <1>1, <1>3, <2>1, PositionIs DEF EssSlot
  <1>4. CASE air.due \in Voice /\ air.due # "V4"
    <2>1. Number(air.due) \in 0 .. 3  BY <1>4 DEF Number, Voice
    <2> QED  BY <1>1, <1>4, <2>1, PositionIs DEF EssSlot, Voice
  <1> QED  BY <1>2, <1>3, <1>4 DEF Running

LEMMA PacketKeepsKeys ==
    ASSUME NeverKeyed, NEW clean, NEW got, Received(clean, got)
    PROVE  NeverKeyed'
  <1>1. SUFFICES ASSUME cfg.keys = {}
                 PROVE  dec'.stream.on = "no"
    BY DEF NeverKeyed, Received
  <1>2. dec.stream.on = "no"  BY <1>1 DEF NeverKeyed
  <1>3. \A n : Prepare(cfg.keys, n).on = "no"  BY <1>1 DEF Prepare
  <1>4. dec'.stream = dec.stream \/ \E n : dec'.stream = Prepare(cfg.keys, n)
    BY DEF Received, PacketCase, Passes, HearsPtt, HearsEnd, HearsSacch, Hears4V, Hears2V,
           Mistakes, SameEss, NextEssIs
  <1> QED  BY <1>2, <1>3, <1>4

(* An ESS of the call's cipher, with the keystream that goes with it.      *)
LEMMA NextCipher ==
    ASSUME AirOK, Phase(2), cfg' = cfg, Moves, NEW n, NextEssIs(n),
           n.alg = air.alg, n.key = air.key
    PROVE  CipherRight'
  <1>1. dec'.ess.alg = air'.alg /\ dec'.ess.key = air'.key  BY DEF NextEssIs, Moves
  <1>2. ASSUME air'.alg # Clear
        PROVE  dec'.stream.on = Loaded'
    <2>1. dec'.stream = Prepare(cfg.keys, n)
      BY <1>2 DEF NextEssIs, Encrypted, Moves
    <2> QED  BY <2>1 DEF Prepare, Loaded, Moves
  <1> QED  BY <1>1, <1>2 DEF CipherRight

LEMMA PacketKnows ==
    ASSUME AirOK, TypeOK, Phase(2), KnownRight, NEW clean, NEW got, Received(clean, got)
    PROVE  KnownRight'
  <1> SUFFICES ASSUME known'
               PROVE  air'.due \notin {"HDU", "PTT1"} /\ CipherRight'
    BY DEF KnownRight
  <1>1. cfg' = cfg /\ Moves /\ AirOK' /\ PacketCase(clean, got)  BY DEF Received
  <1>2. Phase(2)' /\ air'.due # "HDU"
    BY <1>1 DEF Phase, AirOK, Due2, Voice
  <1>3. Sent.alg = air.alg /\ Sent.key = air.key /\ Sent \in Ess  BY SentType
  <1>4. dec.ess \in Ess  BY DEF TypeOK, Phase, Tdma
  <1>5. OwnVoice(air.slot) => air'.due # "PTT1"
    <2> SUFFICES ASSUME OwnVoice(air.slot) PROVE air'.due # "PTT1"  OBVIOUS
    <2>1. air'.due \in NextDue2  BY <1>1 DEF Moves
    <2> QED  BY <2>1, NextDueIs
  <1>6. ~ OwnVoice(air.slot) => air'.due = air.due  BY <1>1 DEF Moves
  <1>7. ASSUME known
        PROVE  /\ air'.due # "PTT1"
               /\ SameEss => CipherRight'
               /\ NextEssIs(CycleMi(dec.ess)) => CipherRight'
    <2>1. CipherRight /\ air.due # "PTT1"  BY <1>7 DEF KnownRight
    <2>2. SameEss => CipherRight'
      BY <1>1, <2>1 DEF CipherRight, Moves, SameEss, Loaded, Phase
    <2>3. CycleMi(dec.ess).alg = air.alg /\ CycleMi(dec.ess).key = air.key
      BY <1>4, <2>1, EssTypes DEF CipherRight
    <2>4. NextEssIs(CycleMi(dec.ess)) => CipherRight'
      BY <1>1, <2>3, NextCipher
    <2> QED  BY <1>5, <1>6, <2>1, <2>2, <2>4
  <1>8. CASE Passes(got) \/ HearsSacch(got) \/ Hears4V(clean) \/ Mistakes
    BY <1>2, <1>7, <1>8 DEF Passes, HearsSacch, Hears4V, Mistakes
  <1>9. CASE HearsPtt(got)
    BY <1>1, <1>2, <1>3, <1>5, <1>9, NextCipher DEF HearsPtt
  <1>10. CASE HearsEnd(got)
    BY <1>10 DEF HearsEnd
  <1>11. CASE Hears2V(clean, got)
    <2>1. CASE got = "ok"
      <3>1. CycleMi(Sent).alg = air.alg /\ CycleMi(Sent).key = air.key
        BY <1>3, EssTypes
      <3>2. NextEssIs(CycleMi(Sent))  BY <1>11, <2>1 DEF Hears2V
      <3> QED  BY <1>1, <1>2, <1>5, <1>11, <3>1, <3>2, NextCipher DEF Hears2V
    <2>2. CASE got # "ok"
      BY <1>2, <1>7, <1>11, <2>2 DEF Hears2V
    <2> QED  BY <2>1, <2>2
  <1> QED  BY <1>1, <1>8, <1>9, <1>10, <1>11 DEF PacketCase

LEMMA PacketPlaces ==
    ASSUME AirOK, Phase(2), Aligned, FirstRight, NEW clean, NEW got, Received(clean, got)
    PROVE  FirstRight'
  <1>1. Moves /\ PacketCase(clean, got)  BY DEF Received
  <1>2. ASSUME air'.due = "PTT1"
        PROVE  "first" \in gap'
    <2>1. ~ OwnVoice(air.slot)
      <3> SUFFICES ASSUME OwnVoice(air.slot) PROVE FALSE  OBVIOUS
      <3>1. air'.due \in NextDue2  BY <1>1 DEF Moves
      <3> QED  BY <1>2, <3>1, NextDueIs
    <2>2. air.due = "PTT1" /\ ~ InVoice  BY <1>1, <1>2, <2>1 DEF Moves, InVoice
    <2>3. "first" \in gap  BY <2>2 DEF FirstRight
    <2> QED  BY <1>1, <2>1, <2>2, <2>3
             DEF PacketCase, Passes, HearsPtt, HearsEnd, HearsSacch, Hears4V, Hears2V, Mistakes
  <1>3. ASSUME Running', "first" \notin gap'
        PROVE  dec'.first \in {-1, air'.first}
    <2>1. /\ air.due # "PTT1" => Running /\ air'.first = air.first
          /\ air.due # "END"
      BY <1>1, <1>3, RunsOn
    <2>2. ASSUME "first" \notin gap, dec'.first = dec.first
          PROVE  dec'.first \in {-1, air'.first}
      BY <2>1, <2>2 DEF FirstRight
    <2>3. CASE Passes(got) \/ Hears4V(clean) \/ Mistakes
      BY <1>3, <2>2, <2>3 DEF Passes, Hears4V, Mistakes
    <2>4. CASE HearsPtt(got)
      <3>1. CASE air.due = "PTT1"
        BY <1>1, <2>4, <3>1 DEF HearsPtt, Moves
      <3>2. CASE air.due # "PTT1"
        <4>1. air.due = "PTT0" /\ dec'.first = (air.slot \div 2 + 1) % 5
          BY <2>4, <3>2 DEF HearsPtt
        <4> QED  BY <2>1, <2>4, <4>1, EssBursts DEF HearsPtt
      <3> QED  BY <3>1, <3>2
    <2>5. CASE HearsEnd(got)  BY <2>1, <2>5 DEF HearsEnd
    <2>6. CASE HearsSacch(got)  BY <2>1, <2>6 DEF HearsSacch, InVoice
    <2>7. CASE Hears2V(clean, got)
      <3>1. CASE Sure(clean)
        BY <2>1, <2>7, <3>1, EssBursts DEF Hears2V
      <3>2. CASE ~ Sure(clean)
        <4>1. "first" \notin gap /\ dec'.first = dec.first
          BY <1>3, <2>7, <3>2 DEF Hears2V
        <4> QED  BY <2>2, <4>1
      <3> QED  BY <3>1, <3>2
    <2> QED  BY <1>1, <2>3, <2>4, <2>5, <2>6, <2>7 DEF PacketCase
  <1> QED  BY <1>2, <1>3 DEF FirstRight

(* A 4V of the call, its first 4V where the decoder has it, is counted.    *)
LEMMA CountsRight ==
    ASSUME AirOK, Aligned, TypeOK, Phase(2), NEW clean, Hears4V(clean), Behind,
           ~ Sure(clean) \/ dec.first \in {-1, air.first}
    PROVE  /\ (dec'.burst + 1) % 5 <= Number(air.due) + 1
           /\ Exact \/ (Sure(clean) /\ dec.first >= 0) =>
                 dec'.burst = Number(air.due) /\ (dec'.burst + 1) % 5 = Number(air.due) + 1
  <1> DEFINE c == (dec.burst + 1) % 5
             k == Number(air.due)
             p == air.slot \div 2
  <1>1. k \in 0 .. 3 /\ OwnVoice(air.slot) /\ air.due \in Voice
    BY DEF Hears4V, InVoice, Number, Voice
  <1>2. c \in 0 .. 4 /\ c <= k /\ (Exact <=> c = k)
    BY DEF TypeOK, Phase, Tdma, Behind, Exact
  <1>3. p \in 0 .. 4 /\ p = (air.first + k) % 5 /\ air.first \in 0 .. 4
    BY <1>1, PositionIs DEF AirOK
  <1>4. Sure(clean) /\ dec.first >= 0 => Expected = k
    BY <1>1, <1>3 DEF Expected
  <1>5. dec'.burst = IF Sure(clean) /\ dec.first >= 0 /\ Expected > c THEN Expected ELSE c
    BY DEF Hears4V
  <1> HIDE DEF c, k
  <1>6. dec'.burst \in 0 .. 3 /\ dec'.burst <= k
        /\ (Exact \/ (Sure(clean) /\ dec.first >= 0) => dec'.burst = k)
    BY <1>1, <1>2, <1>4, <1>5
  <1> QED  BY <1>1, <1>6 DEF k

(* The MI the 2V gives, or that of this superframe cycled, is the next.    *)
LEMMA SentCycles ==
    ASSUME AirOK, air.due # "none", air'.call = air.call, air'.alg = air.alg,
           air'.key = air.key, air.alg # Clear
    PROVE  /\ air'.super = air.super => Sent' = Sent
           /\ air'.super = air.super + 1 => Sent' = CycleMi(Sent)
  <1>1. /\ Sent = [alg |-> air.alg, key |-> air.key, mi |-> <<air.call, air.super>>]
        /\ Sent' = [alg |-> air.alg, key |-> air.key, mi |-> <<air.call, air'.super>>]
    BY DEF Sent
  <1>2. air'.super = air.super => Sent' = Sent  BY <1>1
  <1>3. ASSUME air'.super = air.super + 1
        PROVE  Sent' = CycleMi(Sent)
    <2>1. Sent.mi # NoMi  BY <1>1 DEF AirOK, NoMi
    <2>2. CycleMi(Sent) = [Sent EXCEPT !.mi[2] = @ + 1]
      BY <2>1 DEF CycleMi
    <2>3. [Sent EXCEPT !.mi[2] = @ + 1]
            = [alg |-> air.alg, key |-> air.key, mi |-> <<air.call, air.super + 1>>]
      BY <1>1 DEF AirOK
    <2> QED  BY <1>1, <1>3, <2>2, <2>3
  <1> QED  BY <1>2, <1>3

(* The call's ESS and the keystream prepared from it.                      *)
LEMMA NextRight ==
    ASSUME AirOK, Phase(2), cfg' = cfg, Moves, air.due # "none", NEW n,
           NextEssIs(n), air.alg # Clear => n = Sent'
    PROVE  EssRight'
  <1> SUFFICES ASSUME air'.alg # Clear
               PROVE  dec'.ess = Sent' /\ dec'.stream = Prepare(cfg.keys, Sent')
    BY DEF EssRight
  <1>1. air.alg # Clear /\ n = Sent'  BY DEF Moves
  <1>2. Encrypted(n)  BY <1>1 DEF Encrypted, Sent
  <1> QED  BY <1>1, <1>2 DEF NextEssIs

LEMMA SameRight ==
    ASSUME AirOK, Phase(2), cfg' = cfg, Moves, air.due # "none", SameEss, EssRight,
           air'.super = air.super
    PROVE  EssRight'
  <1> SUFFICES ASSUME air'.alg # Clear
               PROVE  dec'.ess = Sent' /\ dec'.stream = Prepare(cfg.keys, Sent')
    BY DEF EssRight
  <1>1. air.alg # Clear  BY DEF Moves
  <1>2. Sent' = Sent  BY <1>1, SentCycles DEF Moves
  <1> QED  BY <1>1, <1>2 DEF EssRight, SameEss

LEMMA PacketFollows ==
    ASSUME AirOK, TypeOK, Phase(2), Aligned, KnownRight, FirstRight, CallRight,
           NEW clean, NEW got, Received(clean, got)
    PROVE  CallRight'
  <1> SUFFICES ASSUME Running', known', "ess" \notin gap'
               PROVE  EssRight' /\ Behind' /\ ("count" \notin gap' => Exact')
    BY DEF CallRight
  <1>1. cfg' = cfg /\ Moves /\ PacketCase(clean, got)  BY DEF Received
  <1>2. /\ air.due # "PTT1" => Running /\ air'.first = air.first
        /\ air.due # "END" /\ air.due # "none"
        /\ ~ OwnVoice(air.slot) => air'.due = air.due
        /\ OwnVoice(air.slot) /\ air.due # "PTT1" => air'.due \in Voice
        /\ OwnVoice(air.slot) /\ air.due = "PTT1" => air'.due = "PTT0"
        /\ OwnVoice(air.slot) /\ air.due \in {"PTT0", "V4"} => air'.due = "V0"
        /\ OwnVoice(air.slot) /\ air.due \in Voice /\ air.due # "V4" =>
                  Number(air'.due) = Number(air.due) + 1
    BY <1>1, RunsOn
  <1>3. known => air.due # "PTT1"  BY DEF KnownRight
  <1>4. dec.burst \in -1 .. 4 /\ dec.ess \in Ess  BY DEF TypeOK, Phase, Tdma
  <1>5. ASSUME known, "ess" \notin gap
        PROVE  Running /\ EssRight /\ Behind /\ ("count" \notin gap => Exact)
               /\ air'.first = air.first
    BY <1>2, <1>3, <1>5 DEF CallRight
  <1>6. CASE Passes(got)
    <2>1. known /\ "ess" \notin gap /\ gap \subseteq gap' /\ SameEss /\ dec'.burst = dec.burst
      BY <1>6 DEF Passes
    <2>2. Running /\ EssRight /\ Behind /\ ("count" \notin gap => Exact)  BY <1>5, <2>1
    <2>3. CASE ~ OwnVoice(air.slot)
      <3>1. air'.due = air.due /\ air'.super = air.super
        BY <1>1, <1>2, <2>3 DEF Moves
      <3>2. EssRight'  BY <1>1, <1>2, <2>1, <2>2, <3>1, SameRight
      <3> QED  BY <2>1, <2>2, <3>1, <3>2 DEF Behind, Exact
    <2>4. CASE OwnVoice(air.slot) /\ ~ InVoice
      <3>1. air.due = "PTT0" /\ air'.due = "V0"
        BY <1>2, <2>2, <2>4 DEF Running, InVoice, Voice
      <3>2. EssRight'  BY <1>1, <1>2, <2>1, <2>2, <3>1, SameRight DEF Moves
      <3>3. Number(air'.due) = Number(air.due)  BY <3>1 DEF Number
      <3> QED  BY <2>1, <2>2, <3>2, <3>3 DEF Behind, Exact
    <2>5. CASE OwnVoice(air.slot) /\ InVoice
      <3>1. air.due # "V4" /\ "count" \in gap'
        BY <1>6, <2>5 DEF Passes
      <3>2. Number(air'.due) = Number(air.due) + 1 /\ Number(air.due) \in 0 .. 4
        BY <1>2, <2>5, <3>1, BurstIs DEF InVoice, Voice
      <3>3. EssRight'  BY <1>1, <1>2, <2>1, <2>2, <3>1, SameRight DEF Moves
      <3> QED  BY <1>4, <2>1, <2>2, <3>1, <3>2, <3>3 DEF Behind
    <2> QED  BY <2>3, <2>4, <2>5
  <1>7. CASE HearsPtt(got)
    <2>1. /\ air.due \in {"PTT1", "PTT0"} /\ OwnVoice(air.slot) /\ NextEssIs(Sent)
          /\ dec'.burst = -1
      BY <1>7 DEF HearsPtt
    <2>2. air'.super = air.super  BY <1>1, <2>1 DEF Moves
    <2>3. air.alg # Clear => Sent = Sent'
      BY <1>1, <1>2, <2>2, SentCycles DEF Moves
    <2>4. EssRight'  BY <1>1, <1>2, <2>1, <2>3, NextRight
    <2>5. Number(air'.due) = 0  BY <1>2, <2>1 DEF Number
    <2> QED  BY <2>1, <2>4, <2>5 DEF Behind, Exact
  <1>8. CASE HearsEnd(got)  BY <1>2, <1>8 DEF HearsEnd
  <1>9. CASE HearsSacch(got)
    <2>1. /\ known /\ "ess" \notin gap /\ SameEss /\ dec'.burst = dec.burst
          /\ ~ OwnVoice(air.slot) /\ gap' = gap \ {"first"}
      BY <1>9 DEF HearsSacch, OwnVoice
    <2>2. Running /\ EssRight /\ Behind /\ ("count" \notin gap => Exact)  BY <1>5, <2>1
    <2>3. air'.due = air.due /\ air'.super = air.super
      BY <1>1, <1>2, <2>1 DEF Moves
    <2>4. EssRight'  BY <1>1, <1>2, <2>1, <2>2, <2>3, SameRight
    <2> QED  BY <2>1, <2>2, <2>3, <2>4 DEF Behind, Exact
  <1>10. CASE Hears4V(clean)
    <2>1. /\ known /\ SameEss /\ OwnVoice(air.slot) /\ air.due \in Voice /\ air.due # "V4"
      BY <1>10 DEF Hears4V, InVoice, Voice
    <2>2. gap' = IF Sure(clean) /\ dec.first >= 0
                 THEN IF "first" \in gap THEN gap \cup {"ess"} ELSE gap \ {"count"}
                 ELSE gap
      BY <1>10 DEF Hears4V
    <2>3. "ess" \notin gap /\ ("first" \in gap => ~ (Sure(clean) /\ dec.first >= 0))
      BY <2>2
    <2>4. Running /\ EssRight /\ Behind /\ ("count" \notin gap => Exact)
      BY <1>5, <2>1, <2>3
    <2>5. ~ Sure(clean) \/ dec.first \in {-1, air.first}
      <3>1. dec.first \in -1 .. 4  BY DEF TypeOK, Phase, Tdma
      <3>2. "first" \notin gap => dec.first \in {-1, air.first}
        BY <2>4 DEF FirstRight
      <3>3. CASE "first" \in gap  BY <2>3, <3>1, <3>3
      <3> QED  BY <3>2, <3>3
    <2>6. /\ (dec'.burst + 1) % 5 <= Number(air.due) + 1
          /\ Exact \/ (Sure(clean) /\ dec.first >= 0) =>
                 (dec'.burst + 1) % 5 = Number(air.due) + 1
      BY <1>10, <2>4, <2>5, CountsRight
    <2>7. Number(air'.due) = Number(air.due) + 1  BY <1>2, <2>1
    <2>8. air'.super = air.super  BY <1>1, <2>1 DEF Moves
    <2>9. EssRight'  BY <1>1, <1>2, <2>1, <2>4, <2>8, SameRight
    <2>10. "count" \notin gap' => Exact \/ (Sure(clean) /\ dec.first >= 0)
      BY <2>2, <2>4
    <2> QED  BY <2>6, <2>7, <2>9, <2>10 DEF Behind, Exact
  <1>11. CASE Hears2V(clean, got)
    <2>1. /\ OwnVoice(air.slot) /\ air.due = "V4" /\ dec'.burst = 4
          /\ NextEssIs(IF got = "ok" THEN CycleMi(Sent) ELSE CycleMi(dec.ess))
      BY <1>11 DEF Hears2V
    <2>2. air'.due = "V0"  BY <1>2, <2>1
    <2>3. air'.super = air.super + 1  BY <1>1, <2>1, <2>2 DEF Moves
    <2>4. air.alg # Clear => CycleMi(Sent) = Sent'
      BY <1>1, <1>2, <2>3, SentCycles DEF Moves
    <2>5. EssRight'
      <3>1. CASE got = "ok"
        BY <1>1, <1>2, <2>1, <2>4, <3>1, NextRight
      <3>2. CASE got # "ok"
        <4>1. known /\ "ess" \notin gap  BY <1>11, <3>2 DEF Hears2V
        <4>2. EssRight  BY <1>5, <4>1
        <4>3. air.alg # Clear => CycleMi(dec.ess) = Sent'
          BY <2>4, <4>2 DEF EssRight
        <4>4. NextEssIs(CycleMi(dec.ess))  BY <2>1, <3>2
        <4> QED  BY <1>1, <1>2, <4>3, <4>4, NextRight
      <3> QED  BY <3>1, <3>2
    <2>6. Number(air'.due) = 0  BY <2>2 DEF Number
    <2> QED  BY <2>1, <2>5, <2>6 DEF Behind, Exact
  <1>12. CASE Mistakes  BY <1>12 DEF Mistakes
  <1> QED  BY <1>1, <1>6, <1>7, <1>8, <1>9, <1>10, <1>11, <1>12 DEF PacketCase

-----------------------------------------------------------------------------
(* What a row of packets received as sent puts right.                      *)

Ago(slot, s) == ((slot - s + 11) % 12) + 1

LEMMA SinceIs ==
    ASSUME AirOK, Moves
    PROVE  \A s \in Slots :
               /\ Since(s) = Ago(air.slot, s) /\ Ago(air.slot, s) \in 1 .. 12
               /\ Ago(air'.slot, s) = IF air.slot = s THEN 1 ELSE Ago(air.slot, s) + 1
  BY DEF AirOK, Moves, Slots, Since, Ago

LEMMA EssSlotIs ==
    ASSUME AirOK
    PROVE  EssSlot \in {0, 2, 4, 6, 8} /\ EssSlot \in Slots /\ 11 \in Slots
           /\ Enough \in {3, 6, 10}
  BY DEF AirOK, EssSlot, Slots, Enough

(* Nothing is asked of a row that has not begun.                           *)
LEMMA NoRow ==
    ASSUME AirOK', fine' = 0
    PROVE  Recovered'
  <1>1. air'.slot \in Slots /\ air'.first \in 0 .. 4  BY DEF AirOK
  <1>2. \A s \in Slots : Ago(air'.slot, s) >= 1  BY <1>1 DEF Slots, Ago
  <1>3. EssSlot' \in Slots /\ 11 \in Slots /\ Enough' >= 3
    BY <1>1 DEF EssSlot, Slots, Enough
  <1>4. Since(EssSlot)' = Ago(air'.slot, EssSlot') /\ Since(11)' = Ago(air'.slot, 11)
    BY DEF Since, Ago
  <1>5. Since(EssSlot)' >= 1 /\ Since(11)' >= 1  BY <1>2, <1>3, <1>4
  <1>6. SlotFound'  BY DEF SlotFound
  <1>7. ~ (fine' >= Since(EssSlot)' + 2) /\ ~ (fine' >= Since(11)' + 2)
        /\ ~ (fine' + 1 >= Since(EssSlot)' + Enough')
    <2> DEFINE a == Since(EssSlot)'
               b == Since(11)'
               e == Enough'
    <2>1. a \in Int /\ b \in Int /\ e \in Int
      BY <1>1, <1>3, <1>4 DEF Ago, Slots, Enough, EssSlot
    <2>2. a >= 1 /\ b >= 1 /\ e >= 3  BY <1>3, <1>5
    <2> HIDE DEF a, b, e
    <2>3. ~ (0 >= a + 2) /\ ~ (0 >= b + 2) /\ ~ (0 + 1 >= a + e)  BY <2>1, <2>2
    <2> QED  BY <2>3 DEF a, b, e
  <1>8. FirstFound' /\ EssFound' /\ CountFound'
    BY <1>7 DEF FirstFound, EssFound, CountFound
  <1> QED  BY <1>6, <1>8 DEF Recovered

(* A packet of the row; the slot is found by the third.                    *)
Row(clean, got) ==
    /\ clean = TRUE /\ got = "ok" /\ air.due \notin {"none", "END"}
    /\ fine' = IF fine <= Settled THEN fine + 1 ELSE fine

LEMMA RowIs ==
    ASSUME TypeOK, NEW clean \in BOOLEAN, NEW got \in {"lost", "bad", "ok"},
           Received(clean, got), fine' # 0
    PROVE  Row(clean, got) /\ fine' <= fine + 1 /\ fine' \in Nat
  <1>1. fine \in 0 .. 20 /\ Settled = 19  BY DEF TypeOK, Settled
  <1> DEFINE none == air.due \in {"none", "END"} \/ clean # TRUE \/ got # "ok"
  <1>2. fine' = IF none THEN 0 ELSE IF fine <= Settled THEN fine + 1 ELSE fine
    BY DEF Received
  <1>3. ~ none  BY <1>2
  <1>4. fine' = IF fine <= Settled THEN fine + 1 ELSE fine  BY <1>2, <1>3
  <1>5. Row(clean, got)  BY <1>3, <1>4 DEF Row
  <1> QED  BY <1>1, <1>4, <1>5

LEMMA RowFindsSlot ==
    ASSUME TypeOK, AirOK, Phase(2), SlotFound,
           NEW clean \in BOOLEAN, NEW got \in {"lost", "bad", "ok"},
           Received(clean, got), fine' # 0
    PROVE  (fine >= 2 => dec'.sid = air.slot) /\ SlotFound'
  <1>1. Row(clean, got) /\ fine' = IF fine <= Settled THEN fine + 1 ELSE fine
    BY RowIs DEF Row
  <1>2. /\ fine \in 0 .. 20 /\ Settled = 19 /\ air.slot \in Slots /\ dec.sid \in Slots
    BY DEF TypeOK, Settled, AirOK, Phase, Tdma
  <1>3. /\ Sure(clean) <=> air.slot \in ISlots
        /\ dec'.sid = IF Sure(clean) THEN air.slot ELSE (dec.sid + 1) % 12
        /\ air'.slot = (air.slot + 1) % 12
    BY <1>1 DEF Row, Sure, Received, Moves
  <1>4. Synced \/ air.slot \in ISlots => dec'.sid = air.slot
    BY <1>3 DEF Synced
  <1>5. dec'.sid = air.slot => Synced'  BY <1>3 DEF Synced
  <1>6. fine >= 2 => dec'.sid = air.slot
    BY <1>2, <1>4 DEF SlotFound, ISlots
  <1>7. CASE fine >= 2
    <2>2. Synced'  BY <1>5, <1>6, <1>7
    <2> QED  BY <1>6, <2>2 DEF SlotFound
  <1>8. CASE fine < 2
    <2>1. fine' = fine + 1  BY <1>1, <1>2, <1>8
    <2>2. fine = 0 => Synced' \/ air'.slot \in {0, 3, 4, 7, 8, 11}
      BY <1>2, <1>3, <1>4, <1>5 DEF ISlots, Slots
    <2>3. fine = 1 => Synced' \/ air'.slot \in {0, 4, 8}
      BY <1>2, <1>3, <1>4, <1>5 DEF ISlots, Slots, SlotFound
    <2> QED  BY <1>2, <1>6, <1>8, <2>1, <2>2, <2>3 DEF SlotFound
  <1> QED  BY <1>2, <1>7, <1>8

(* A packet of the row after the slot is found, a voice burst to follow.   *)
Waits ==
    /\ ~ OwnVoice(air.slot) /\ air.slot # 11 /\ InVoice /\ air'.due = air.due
    /\ SameEss /\ dec'.first = dec.first /\ dec'.burst = dec.burst

LEMMA RowGoesOn ==
    ASSUME AirOK, Phase(2), NEW clean \in BOOLEAN, NEW got \in {"lost", "bad", "ok"},
           Received(clean, got), Row(clean, got), dec'.sid = air.slot, InVoice'
    PROVE  /\ Running /\ air'.first = air.first /\ EssSlot' = EssSlot /\ Enough' = Enough
           /\ Waits \/ HearsSacch(got) \/ (HearsPtt(got) /\ air.due = "PTT0")
                \/ Hears4V(clean) \/ Hears2V(clean, got)
  <1>1. cfg' = cfg /\ Moves /\ PacketCase(clean, got) /\ got = "ok" /\ Heard(got)
    BY DEF Received, Row, Heard
  <1>2. Running' /\ air'.due \in Voice  BY DEF Running, InVoice, Voice
  <1>3. /\ air.due # "PTT1" => Running /\ air'.first = air.first
        /\ air.due # "END" /\ air.due # "none"
        /\ ~ OwnVoice(air.slot) => air'.due = air.due
        /\ OwnVoice(air.slot) /\ air.due = "PTT1" => air'.due = "PTT0"
    BY <1>1, <1>2, RunsOn
  <1>4. air.due # "PTT1"  BY <1>2, <1>3 DEF Voice
  <1>5. Running /\ air'.first = air.first  BY <1>3, <1>4
  <1>6. EssSlot' = EssSlot /\ Enough' = Enough  BY <1>5 DEF EssSlot, Enough
  <1>7. CASE Passes(got)
    <2>1. \/ ~ OwnVoice(air.slot) /\ ~ (air.slot = 11 /\ InVoice)
          \/ OwnVoice(air.slot) /\ ~ InVoice /\ air.due \notin {"PTT1", "PTT0", "END"}
      BY <1>1, <1>7 DEF Passes, Heard
    <2>2. ~ OwnVoice(air.slot) /\ ~ (air.slot = 11 /\ InVoice)
      BY <1>5, <2>1 DEF Running, InVoice, Voice
    <2>3. Waits  BY <1>2, <1>3, <1>7, <2>2 DEF Waits, Passes, InVoice, Voice
    <2> QED  BY <1>5, <1>6, <2>3
  <1>8. CASE HearsPtt(got)  BY <1>4, <1>5, <1>6, <1>8 DEF HearsPtt
  <1>9. CASE HearsEnd(got)  BY <1>3, <1>9 DEF HearsEnd
  <1>10. CASE Mistakes  BY <1>10 DEF Mistakes
  <1> QED  BY <1>1, <1>5, <1>6, <1>7, <1>8, <1>9, <1>10 DEF PacketCase

RowHypothesis(clean, got) ==
    /\ TypeOK /\ AirOK /\ Phase(2) /\ Aligned /\ Recovered
    /\ clean \in BOOLEAN /\ got \in {"lost", "bad", "ok"}
    /\ Received(clean, got) /\ fine' # 0

(* An ESS burst and only that is sent in EssSlot; the others are counted.  *)
LEMMA RowCases ==
    ASSUME NEW clean, NEW got, RowHypothesis(clean, got), fine >= 2, InVoice'
    PROVE  /\ Row(clean, got) /\ cfg' = cfg /\ Moves /\ air.due # "none"
           /\ Running /\ air'.first = air.first /\ EssSlot' = EssSlot /\ Enough' = Enough
           /\ \/ Waits /\ air.slot # EssSlot /\ air.slot # 11
              \/ HearsSacch(got) /\ InVoice /\ air.slot = 11 /\ air.slot # EssSlot
                   /\ air'.due = air.due
              \/ /\ HearsPtt(got) /\ air.due = "PTT0" /\ air.slot = EssSlot /\ air.slot # 11
                 /\ air'.due = "V0" /\ dec'.first = air.first
              \/ /\ Hears4V(clean) /\ InVoice /\ air.slot # EssSlot /\ air.slot # 11
                 /\ air'.due \in Voice /\ Number(air'.due) = Number(air.due) + 1
              \/ /\ Hears2V(clean, got) /\ InVoice /\ air.slot = EssSlot /\ air.slot # 11
                 /\ air'.due = "V0"
                 /\ dec'.first = IF air.slot \in ISlots THEN air.first ELSE dec.first
  <1>1. /\ TypeOK /\ AirOK /\ Phase(2) /\ Aligned /\ SlotFound
        /\ clean \in BOOLEAN /\ got \in {"lost", "bad", "ok"}
        /\ Received(clean, got) /\ fine' # 0
    BY DEF RowHypothesis, Recovered
  <1>2. Row(clean, got) /\ dec'.sid = air.slot
    BY <1>1, RowIs, RowFindsSlot
  <1>3. /\ Running /\ air'.first = air.first /\ EssSlot' = EssSlot /\ Enough' = Enough
        /\ Waits \/ HearsSacch(got) \/ (HearsPtt(got) /\ air.due = "PTT0")
             \/ Hears4V(clean) \/ Hears2V(clean, got)
    BY <1>1, <1>2, RowGoesOn
  <1>4. cfg' = cfg /\ Moves  BY <1>1 DEF Received
  <1>5. Running'  BY DEF Running, InVoice, Voice
  <1>6. /\ ~ OwnVoice(air.slot) => air'.due = air.due
        /\ OwnVoice(air.slot) /\ air.due # "PTT1" => air'.due \in Voice
        /\ OwnVoice(air.slot) /\ air.due \in {"PTT0", "V4"} => air'.due = "V0"
        /\ OwnVoice(air.slot) /\ air.due \in Voice /\ air.due # "V4" =>
               Number(air'.due) = Number(air.due) + 1
        /\ air.due # "none"
    BY <1>1, <1>4, <1>5, RunsOn
  <1>7. EssSlot \in {0, 2, 4, 6, 8}  BY <1>1, EssSlotIs
  <1>8. OwnVoice(air.slot) =>
            /\ air.slot # 11
            /\ air.due \in {"PTT0", "V4"} <=> air.slot = EssSlot
            /\ air.due \in {"PTT0", "V4"} => (air.slot \div 2 + 1) % 5 = air.first
    BY <1>1, <1>3, EssBursts DEF OwnVoice
  <1>9. Sure(clean) <=> air.slot \in ISlots  BY <1>2 DEF Row, Sure
  <1>10. CASE Waits
    BY <1>2, <1>3, <1>4, <1>6, <1>7, <1>10 DEF Waits, OwnVoice
  <1>11. CASE HearsSacch(got)
    BY <1>2, <1>3, <1>4, <1>6, <1>7, <1>11 DEF HearsSacch, OwnVoice
  <1>12. CASE HearsPtt(got) /\ air.due = "PTT0"
    BY <1>2, <1>3, <1>4, <1>6, <1>8, <1>12 DEF HearsPtt
  <1>13. CASE Hears4V(clean)
    <2>1. /\ OwnVoice(air.slot) /\ InVoice /\ air.due \in Voice /\ air.due # "V4"
          /\ air.due # "PTT0" /\ air.due # "PTT1"
      BY <1>13 DEF Hears4V, InVoice, Voice
    <2> QED  BY <1>2, <1>3, <1>4, <1>6, <1>8, <1>13, <2>1
  <1>14. CASE Hears2V(clean, got)
    <2>1. OwnVoice(air.slot) /\ InVoice /\ air.due = "V4"
          /\ dec'.first = IF Sure(clean) THEN (air.slot \div 2 + 1) % 5 ELSE dec.first
      BY <1>14 DEF Hears2V, InVoice
    <2> QED  BY <1>2, <1>3, <1>4, <1>6, <1>8, <1>9, <1>14, <2>1
  <1> QED  BY <1>3, <1>10, <1>11, <1>12, <1>13, <1>14

LEMMA RowFindsFirst ==
    ASSUME NEW clean, NEW got, RowHypothesis(clean, got)
    PROVE  FirstFound'
  <1> DEFINE a == Ago(air.slot, 11)
             b == Ago(air'.slot, 11)
             c == Ago(air.slot, EssSlot)
             e == Ago(air'.slot, EssSlot')
  <1>1. SUFFICES ASSUME InVoice',
                        fine' >= b + 2 \/ (EssSlot' \in ISlots /\ fine' >= e + 2)
                 PROVE  dec'.first = air'.first
    BY DEF FirstFound, Since, Ago
  <1>2. /\ TypeOK /\ AirOK /\ Moves /\ FirstFound /\ Received(clean, got) /\ fine' # 0
        /\ clean \in BOOLEAN /\ got \in {"lost", "bad", "ok"}
    BY DEF RowHypothesis, Recovered, Received
  <1>3. fine' <= fine + 1 /\ fine' \in Nat /\ fine \in Nat
    <2>1. fine \in Nat  BY <1>2 DEF TypeOK, Settled
    <2> QED  BY <1>2, <2>1, RowIs
  <1>4. EssSlot \in Slots /\ 11 \in Slots  BY <1>2, EssSlotIs
  <1>5. /\ Since(11) = a /\ a \in 1 .. 12 /\ b = IF air.slot = 11 THEN 1 ELSE a + 1
        /\ Since(EssSlot) = c /\ c \in 1 .. 12
        /\ Ago(air'.slot, EssSlot) = IF air.slot = EssSlot THEN 1 ELSE c + 1
    BY <1>2, <1>4, SinceIs
  <1>6. EssSlot' = EssSlot => e = IF air.slot = EssSlot THEN 1 ELSE c + 1
    BY <1>5
  <1>7. b >= 1 /\ e >= 1 /\ b \in Nat /\ e \in Nat
    <2>1. air'.slot \in Slots /\ EssSlot' \in Slots
      BY <1>2 DEF Received, AirOK, EssSlot, Slots
    <2> QED  BY <2>1 DEF Slots, Ago
  <1> HIDE DEF a, b, c, e
  <1>8. fine >= 2  BY <1>1, <1>3, <1>7
  <1>9. /\ air'.first = air.first /\ EssSlot' = EssSlot
        /\ \/ Waits /\ air.slot # EssSlot /\ air.slot # 11
           \/ HearsSacch(got) /\ InVoice /\ air.slot = 11
           \/ HearsPtt(got) /\ dec'.first = air.first
           \/ Hears4V(clean) /\ InVoice /\ air.slot # EssSlot /\ air.slot # 11
           \/ /\ Hears2V(clean, got) /\ InVoice /\ air.slot = EssSlot /\ air.slot # 11
              /\ dec'.first = IF air.slot \in ISlots THEN air.first ELSE dec.first
    BY <1>1, <1>8, RowCases
  <1>10. air.slot # 11 /\ fine' >= b + 2 => fine >= Since(11) + 2
    BY <1>3, <1>5
  <1>11. air.slot # EssSlot /\ fine' >= e + 2 => fine >= Since(EssSlot) + 2
    BY <1>3, <1>5, <1>6, <1>9
  <1>12. CASE dec'.first = dec.first /\ InVoice /\ air.slot # 11
                /\ (air.slot = EssSlot => EssSlot \notin ISlots)
    <2>1. dec.first = air.first
      BY <1>1, <1>2, <1>9, <1>10, <1>11, <1>12 DEF FirstFound
    <2> QED  BY <1>9, <1>12, <2>1
  <1> QED  BY <1>9, <1>12 DEF Waits, HearsSacch, Hears4V

LEMMA RowFindsEss ==
    ASSUME NEW clean, NEW got, RowHypothesis(clean, got)
    PROVE  EssFound'
  <1> DEFINE c == Ago(air.slot, EssSlot)
             e == Ago(air'.slot, EssSlot')
  <1>1. SUFFICES ASSUME InVoice', fine' >= e + 2
                 PROVE  dec'.ess.alg = air'.alg /\ EssRight'
    BY DEF EssFound, Since, Ago
  <1>2. /\ TypeOK /\ AirOK /\ Phase(2) /\ Moves /\ EssFound /\ Received(clean, got)
        /\ fine' # 0 /\ clean \in BOOLEAN /\ got \in {"lost", "bad", "ok"}
    BY DEF RowHypothesis, Recovered, Received
  <1>3. fine' <= fine + 1 /\ fine' \in Nat /\ fine \in Nat
    <2>1. fine \in Nat  BY <1>2 DEF TypeOK, Settled
    <2> QED  BY <1>2, <2>1, RowIs
  <1>4. EssSlot \in Slots  BY <1>2, EssSlotIs
  <1>5. /\ Since(EssSlot) = c /\ c \in 1 .. 12
        /\ Ago(air'.slot, EssSlot) = IF air.slot = EssSlot THEN 1 ELSE c + 1
    BY <1>2, <1>4, SinceIs
  <1>6. EssSlot' = EssSlot => e = IF air.slot = EssSlot THEN 1 ELSE c + 1
    BY <1>5
  <1>7. e >= 1 /\ e \in Nat
    BY <1>2 DEF Received, AirOK, EssSlot, Slots, Ago
  <1> HIDE DEF c, e
  <1>8. fine >= 2  BY <1>1, <1>3, <1>7
  <1>9. /\ Row(clean, got) /\ cfg' = cfg /\ air.due # "none" /\ EssSlot' = EssSlot
        /\ \/ Waits /\ air.slot # EssSlot
           \/ HearsSacch(got) /\ InVoice /\ air.slot # EssSlot /\ air'.due = air.due
           \/ HearsPtt(got)
           \/ Hears4V(clean) /\ InVoice /\ air.slot # EssSlot
           \/ Hears2V(clean, got) /\ air'.due = "V0"
    BY <1>1, <1>8, RowCases
  <1>10. air'.alg = air.alg  BY <1>2 DEF Moves
  <1>11. CASE SameEss /\ air.slot # EssSlot /\ InVoice /\ air'.super = air.super
    <2>1. fine >= Since(EssSlot) + 2  BY <1>1, <1>3, <1>5, <1>6, <1>9, <1>11
    <2>2. dec.ess.alg = air.alg /\ EssRight  BY <1>11, <2>1, <1>2 DEF EssFound
    <2>3. EssRight'  BY <1>2, <1>9, <1>11, <2>2, SameRight
    <2> QED  BY <1>10, <1>11, <2>2, <2>3 DEF SameEss
  <1>12. CASE Waits
    <2>1. air'.super = air.super
      BY <1>2, <1>12 DEF Waits, Moves, InVoice
    <2> QED  BY <1>9, <1>11, <1>12, <2>1 DEF Waits, HearsSacch, Hears4V, HearsPtt, Hears2V
  <1>13. CASE HearsSacch(got)
    <2>1. air.slot = 11 /\ SameEss /\ InVoice  BY <1>13 DEF HearsSacch
    <2>2. air'.due = air.due
      BY <1>2, <2>1 DEF Moves, OwnVoice
    <2>3. air'.super = air.super  BY <1>2, <2>2 DEF Moves
    <2>4. air.slot # EssSlot  BY <1>2, <2>1, EssSlotIs
    <2> QED  BY <1>11, <2>1, <2>3, <2>4
  <1>14. CASE HearsPtt(got)
    <2>1. NextEssIs(Sent) /\ air'.super = air.super
      BY <1>2, <1>14 DEF HearsPtt, Moves
    <2>2. air.alg # Clear => Sent = Sent'
      BY <1>2, <1>9, <2>1, SentCycles DEF Moves
    <2>3. EssRight'  BY <1>2, <1>9, <2>1, <2>2, NextRight
    <2>4. Sent.alg = air.alg  BY <1>2, SentType
    <2> QED  BY <1>10, <2>1, <2>3, <2>4 DEF NextEssIs
  <1>15. CASE Hears4V(clean) /\ InVoice /\ air.slot # EssSlot
    <2>1. SameEss /\ air'.super = air.super
      BY <1>2, <1>15 DEF Hears4V, Moves
    <2> QED  BY <1>11, <1>15, <2>1
  <1>16. CASE Hears2V(clean, got) /\ air'.due = "V0"
    <2>1. NextEssIs(CycleMi(Sent)) /\ air'.super = air.super + 1
      BY <1>2, <1>9, <1>16 DEF Hears2V, Moves, Row
    <2>2. air.alg # Clear => CycleMi(Sent) = Sent'
      BY <1>2, <1>9, <2>1, SentCycles DEF Moves
    <2>3. EssRight'  BY <1>2, <1>9, <2>1, <2>2, NextRight
    <2>4. CycleMi(Sent).alg = air.alg  BY <1>2, SentType, EssTypes
    <2> QED  BY <1>10, <2>1, <2>3, <2>4 DEF NextEssIs
  <1> QED  BY <1>9, <1>12, <1>13, <1>14, <1>15, <1>16

(* The first 4V is right where the count is to be.                         *)
LEMMA RowCounts ==
    ASSUME AirOK, FirstFound, InVoice, OwnVoice(air.slot), fine \in Nat,
           air.slot # EssSlot, fine + 1 >= Since(EssSlot) + Enough
    PROVE  dec.first = air.first
  <1>1. EssSlot \in {0, 2, 4, 6, 8} /\ air.slot \in {0, 2, 4, 6, 8}
    BY EssSlotIs DEF OwnVoice
  <1>2. CASE EssSlot \in {0, 4, 8}
    <2>1. Enough = 3 /\ EssSlot \in ISlots  BY <1>2 DEF Enough, ISlots
    <2>2. Since(EssSlot) \in Int  BY <1>1 DEF Since
    <2>3. fine >= Since(EssSlot) + 2  BY <2>1, <2>2
    <2> QED  BY <2>1, <2>3 DEF FirstFound
  <1>3. CASE EssSlot = 2
    <2>1. Enough = 6  BY <1>3 DEF Enough
    <2>2. fine >= Since(2) + 5 /\ air.slot \in {0, 4, 6, 8}
      <3>1. Since(2) \in Int  BY <1>1 DEF Since
      <3> QED  BY <1>1, <1>3, <2>1, <3>1
    <2>3. fine >= Since(11) + 2  BY <2>2 DEF Since
    <2> QED  BY <2>3 DEF FirstFound
  <1>4. CASE EssSlot = 6
    <2>1. Enough = 10  BY <1>4 DEF Enough
    <2>2. fine >= Since(6) + 9 /\ air.slot \in {0, 2, 4, 8}
      <3>1. Since(6) \in Int  BY <1>1 DEF Since
      <3> QED  BY <1>1, <1>4, <2>1, <3>1
    <2>3. fine >= Since(11) + 2  BY <2>2 DEF Since
    <2> QED  BY <2>3 DEF FirstFound
  <1> QED  BY <1>1, <1>2, <1>3, <1>4

LEMMA RowFindsCount ==
    ASSUME NEW clean, NEW got, RowHypothesis(clean, got)
    PROVE  CountFound'
  <1> DEFINE c == Ago(air.slot, EssSlot)
             e == Ago(air'.slot, EssSlot')
             k == Enough
             m == Enough'
  <1>1. SUFFICES ASSUME InVoice', air'.due # "V4", fine' + 1 >= e + m
                 PROVE  Exact'
    BY DEF CountFound, Since, Ago
  <1>2. /\ TypeOK /\ AirOK /\ Phase(2) /\ Aligned /\ Moves /\ FirstFound /\ CountFound
        /\ Received(clean, got) /\ AirOK'
        /\ fine' # 0 /\ clean \in BOOLEAN /\ got \in {"lost", "bad", "ok"}
    BY DEF RowHypothesis, Recovered, Received
  <1>3. fine' <= fine + 1 /\ fine' \in Nat /\ fine \in Nat
    <2>1. fine \in Nat  BY <1>2 DEF TypeOK, Settled
    <2> QED  BY <1>2, <2>1, RowIs
  <1>4. EssSlot \in Slots /\ k \in {3, 6, 10}  BY <1>2, EssSlotIs
  <1>5. /\ Since(EssSlot) = c /\ c \in 1 .. 12
        /\ Ago(air'.slot, EssSlot) = IF air.slot = EssSlot THEN 1 ELSE c + 1
    BY <1>2, <1>4, SinceIs
  <1>6. EssSlot' = EssSlot => e = IF air.slot = EssSlot THEN 1 ELSE c + 1
    BY <1>5
  <1>7. e \in Nat /\ m \in Nat /\ e >= 1 /\ m >= 3
    BY <1>2 DEF AirOK, EssSlot, Slots, Ago, Enough
  <1> HIDE DEF c, e, k, m
  <1>8. fine >= 2
    <2>1. fine' + 1 >= e + m  BY <1>1
    <2>2. \A x, y, f, g \in Nat : x >= 1 /\ y >= 3 /\ g + 1 >= x + y /\ g <= f + 1 => f >= 2
      OBVIOUS
    <2> QED  BY <1>3, <1>7, <2>1, <2>2
  <1>9. /\ EssSlot' = EssSlot /\ m = k
        /\ \/ Waits /\ air.slot # EssSlot
           \/ HearsSacch(got) /\ InVoice /\ air.slot # EssSlot /\ air'.due = air.due
           \/ HearsPtt(got) /\ air'.due = "V0"
           \/ /\ Hears4V(clean) /\ InVoice /\ air.slot # EssSlot
              /\ air'.due \in Voice /\ Number(air'.due) = Number(air.due) + 1
           \/ Hears2V(clean, got) /\ air'.due = "V0"
    BY <1>1, <1>8, RowCases DEF k, m
  <1>10. air.slot # EssSlot => fine + 1 >= Since(EssSlot) + k
    <2>1. fine' + 1 >= e + k  BY <1>1, <1>9
    <2>2. air.slot # EssSlot => e = Since(EssSlot) + 1  BY <1>5, <1>6, <1>9
    <2>3. Since(EssSlot) \in Nat /\ k \in Nat  BY <1>4, <1>5
    <2>4. \A x, y, f, g \in Nat : g + 1 >= (x + 1) + y /\ g <= f + 1 => f + 1 >= x + y
      OBVIOUS
    <2> QED  BY <1>3, <1>7, <2>1, <2>2, <2>3, <2>4
  <1>11. CASE Waits
    <2>1. air.due # "V4" /\ InVoice /\ air'.due = air.due /\ dec'.burst = dec.burst
          /\ ~ OwnVoice(air.slot)
      BY <1>1, <1>11 DEF Waits
    <2>2. air.slot # EssSlot  BY <1>2, <2>1, EssSlotIs DEF OwnVoice
    <2>3. Exact  BY <1>2, <1>10, <2>1, <2>2 DEF CountFound, k
    <2> QED  BY <2>1, <2>3 DEF Exact
  <1>12. CASE HearsSacch(got) /\ InVoice /\ air.slot # EssSlot /\ air'.due = air.due
    <2>1. Exact  BY <1>1, <1>2, <1>10, <1>12 DEF CountFound, k
    <2> QED  BY <1>12, <2>1 DEF Exact, HearsSacch
  <1>13. CASE HearsPtt(got) /\ air'.due = "V0"
    BY <1>13 DEF HearsPtt, Exact, Number
  <1>14. CASE Hears2V(clean, got) /\ air'.due = "V0"
    BY <1>14 DEF Hears2V, Exact, Number
  <1>15. CASE /\ Hears4V(clean) /\ InVoice /\ air.slot # EssSlot
              /\ air'.due \in Voice /\ Number(air'.due) = Number(air.due) + 1
    <2>1. air.due # "V4" /\ OwnVoice(air.slot)  BY <1>15 DEF Hears4V
    <2>2. Exact  BY <1>2, <1>10, <1>15, <2>1 DEF CountFound, k
    <2>3. dec.first = air.first
      BY <1>2, <1>3, <1>10, <1>15, <2>1, RowCounts DEF k
    <2>4. Behind
      BY <2>2, <1>2 DEF Behind, Exact, TypeOK, Phase, Tdma
    <2>5. (dec'.burst + 1) % 5 = Number(air.due) + 1
      BY <1>2, <1>15, <2>2, <2>3, <2>4, CountsRight
    <2> QED  BY <1>15, <2>5 DEF Exact
  <1> QED  BY <1>9, <1>11, <1>12, <1>13, <1>14, <1>15

-----------------------------------------------------------------------------
(* The invariant is kept, action by action.                                *)

LEMMA PacketKeeps ==
    ASSUME IInv, Phase(2), NEW clean \in BOOLEAN, NEW got \in {"lost", "bad", "ok"},
           Received(clean, got)
    PROVE  IInv'
  <1>1. /\ TypeOK /\ AirOK /\ dec.slotid = 0 /\ Aligned /\ Recovered
        /\ KnownRight /\ NeverKeyed /\ FirstRight /\ CallRight
    BY DEF IInv, Trusted
  <1>2. TypeOK' /\ (Phase(2) => dec.slotid = 0)'  BY <1>1, PacketTyped
  <1>3. AirOK' /\ Aligned'  BY <1>1, MovesAligned DEF Received
  <1>4. KnownRight' /\ NeverKeyed' /\ FirstRight' /\ CallRight'
    BY <1>1, PacketKnows, PacketKeepsKeys, PacketPlaces, PacketFollows
  <1>5. LduRight'  BY DEF LduRight, Received, Phase
  <1>6. Recovered'
    <2>1. CASE fine' = 0  BY <1>3, <2>1, NoRow
    <2>2. CASE fine' # 0
      <3>1. RowHypothesis(clean, got)  BY <1>1, <2>2 DEF RowHypothesis
      <3>2. SlotFound'  BY <1>1, <2>2, RowFindsSlot DEF Recovered
      <3> QED  BY <3>1, <3>2, RowFindsFirst, RowFindsEss, RowFindsCount DEF Recovered
    <2> QED  BY <2>1, <2>2
  <1> QED  BY <1>2, <1>3, <1>4, <1>5, <1>6 DEF IInv, Trusted

LEMMA BeginKeeps ==
    ASSUME IInv, Begin
    PROVE  IInv'
  <1>1. /\ TypeOK /\ AirOK /\ (Phase(2) => dec.slotid = 0) /\ NeverKeyed
        /\ cfg' = cfg /\ dec' = dec /\ known' = FALSE /\ fine' = 0
        /\ gap' = IF Phase(1) THEN {} ELSE {"first"}
    BY DEF IInv, Trusted, Begin
  <1>2. PICK c \in OnAirCalls :
            air' = [air EXCEPT !.call = @ + 1, !.alg = c[1], !.key = c[2], !.super = 0,
                               !.due = IF Phase(1) THEN "HDU" ELSE "PTT1"]
    BY DEF Begin
  <1>3. /\ c[1] \in Algs \cup {Clear} /\ c[2] \in KeyIds \cup {NoKey}
        /\ c[1] = Clear => c[2] = NoKey
    BY EssAssumption DEF OnAirCalls
  <1>4. Phase(1)' = Phase(1) /\ Phase(2)' = Phase(2) /\ (Phase(1) \/ Phase(2))
        /\ ~ (Phase(1) /\ Phase(2))
    BY <1>1 DEF Phase, TypeOK
  <1> DEFINE due == IF Phase(1) THEN "HDU" ELSE "PTT1"
             x == c[1]
             y == c[2]
             n == air.call + 1
             zero == 0
  <1>5. due \in Due1 \cup Due2 /\ n \in Nat /\ n >= 1 /\ zero \in Nat
    BY <1>1 DEF Due1, Due2, AirOK
  <1>6. air' = [air EXCEPT !.call = n, !.alg = x, !.key = y, !.super = zero, !.due = due]
    BY <1>2
  <1> HIDE DEF due, x, y, n, zero
  <1>7. /\ air' \in [call : Nat, alg : Algs \cup {Clear}, key : KeyIds \cup {NoKey},
                super : Nat, due : Due1 \cup Due2, slot : Slots, first : 0 .. 4,
                faults : Nat]
        /\ air'.call = n /\ air'.alg = x /\ air'.key = y /\ air'.slot = air.slot
        /\ air'.due = due
    <2>1. x \in Algs \cup {Clear} /\ y \in KeyIds \cup {NoKey}  BY <1>3 DEF x, y
    <2> QED  BY <1>1, <1>5, <1>6, <2>1 DEF AirOK
  <1>8. AirOK'
    BY <1>1, <1>3, <1>4, <1>5, <1>7 DEF AirOK, due, x, y, Due1, Due2
  <1>9. TypeOK' /\ (Phase(2) => dec.slotid = 0)'
    <2>1. gap' \subseteq {"ess", "count", "first"}  BY <1>1
    <2>2. fine' \in 0 .. Settled + 1 /\ known' \in BOOLEAN
      <3>1. 0 \in 0 .. Settled + 1  BY DEF Settled
      <3>2. known' \in BOOLEAN  BY <1>1
      <3> QED  BY <1>1, <3>1, <3>2
    <2>3. cfg' \in [phase : {1, 2}, keys : KeySets, behavior : Behaviors]
          /\ dec' \in IF Phase(1)' THEN Fdma ELSE Tdma
      BY <1>1, <1>4 DEF TypeOK
    <2>4. TypeOK'  BY <2>1, <2>2, <2>3 DEF TypeOK
    <2> QED  BY <1>1, <1>4, <2>4
  <1>10. Aligned'  BY <1>7 DEF Aligned, due, Voice
  <1>11. Trusted'
    BY <1>1, <1>4, <1>7
       DEF Trusted, KnownRight, NeverKeyed, LduRight, FirstRight, CallRight, Running, due, Voice
  <1>12. Recovered'  BY <1>1, <1>8, NoRow
  <1> QED  BY <1>8, <1>9, <1>10, <1>11, <1>12 DEF IInv

LEMMA CallEndKeeps ==
    ASSUME IInv, CallEnd
    PROVE  IInv'
  <1>1. /\ TypeOK /\ AirOK /\ (Phase(2) => dec.slotid = 0) /\ Aligned /\ NeverKeyed
        /\ FirstRight
        /\ cfg' = cfg /\ known' = FALSE /\ fine' = 0 /\ gap' = gap \cup {"count"}
    BY DEF IInv, Trusted, CallEnd
  <1>2. Phase(1)' = Phase(1) /\ Phase(2)' = Phase(2) /\ ~ (Phase(1) /\ Phase(2))
    BY <1>1 DEF Phase, TypeOK
  <1>3. /\ AirOK' /\ air'.due = air.due /\ air'.slot = air.slot /\ air'.first = air.first
    <2>1. CASE Phase(1)
      <3>1. air' = air  BY <1>2, <2>1 DEF CallEnd
      <3> QED  BY <1>1, <1>2, <3>1 DEF AirOK
    <2>2. CASE Phase(2)
      <3> DEFINE k == air.faults + 1
      <3>1. k \in Nat  BY <1>1 DEF AirOK
      <3>2. air' = [air EXCEPT !.faults = k]  BY <1>2, <2>2 DEF CallEnd
      <3> HIDE DEF k
      <3> QED  BY <1>1, <1>2, <2>2, <3>1, <3>2 DEF AirOK
    <2> QED  BY <2>1, <2>2 DEF CallEnd
  <1>4. /\ dec' \in IF Phase(1) THEN Fdma ELSE Tdma
        /\ dec'.stream = dec.stream
        /\ Phase(2) => dec'.slotid = 0 /\ dec'.first = -1
    <2>1. CASE Phase(1)
      <3>1. dec' = [dec EXCEPT !.ess = ResetEss(dec.ess), !.sound = "none"]
        BY <1>2, <2>1 DEF CallEnd, FdmaCallEnd
      <3>2. dec \in Fdma  BY <1>1, <2>1 DEF TypeOK
      <3>3. ResetEss(dec.ess) \in Ess  BY <3>2, EssTypes DEF Fdma
      <3> QED  BY <1>2, <2>1, <3>1, <3>2, <3>3 DEF Fdma
    <2>2. CASE Phase(2)
      <3> DEFINE none == -1
      <3>1. dec' = [dec EXCEPT !.ess = ResetEss(dec.ess), !.burst = none, !.first = none,
                               !.sound = "none"]
        BY <1>2, <2>2 DEF CallEnd, TdmaCallEnd
      <3>2. dec \in Tdma /\ none \in -1 .. 4  BY <1>1, <1>2, <2>2 DEF TypeOK
      <3> HIDE DEF none
      <3>3. ResetEss(dec.ess) \in Ess  BY <3>2, EssTypes DEF Tdma
      <3>4. dec' \in Tdma /\ dec'.stream = dec.stream /\ dec'.slotid = dec.slotid
            /\ dec'.first = none
        BY <3>1, <3>2, <3>3 DEF Tdma
      <3> QED  BY <1>1, <1>2, <2>2, <3>4 DEF none
    <2> QED  BY <2>1, <2>2 DEF CallEnd
  <1>5. TypeOK' /\ (Phase(2) => dec.slotid = 0)'
    <2>1. gap' \subseteq {"ess", "count", "first"}  BY <1>1 DEF TypeOK
    <2>2. fine' \in 0 .. Settled + 1 /\ known' \in BOOLEAN
      <3>1. 0 \in 0 .. Settled + 1  BY DEF Settled
      <3>2. known' \in BOOLEAN  BY <1>1
      <3> QED  BY <1>1, <3>1, <3>2
    <2>3. cfg' \in [phase : {1, 2}, keys : KeySets, behavior : Behaviors]
          /\ dec' \in IF Phase(1)' THEN Fdma ELSE Tdma
      BY <1>1, <1>2, <1>4 DEF TypeOK
    <2>4. TypeOK'  BY <2>1, <2>2, <2>3 DEF TypeOK
    <2> QED  BY <1>1, <1>2, <1>4, <2>4
  <1>6. Aligned'  BY <1>1, <1>3 DEF Aligned
  <1>7. FirstRight'
    <2>1. CASE Phase(2)
      BY <1>1, <1>3, <1>4, <2>1 DEF FirstRight
    <2>2. CASE Phase(1)
      BY <1>1, <1>3, <2>2 DEF FirstRight, AirOK, Due1, Running, Voice
    <2> QED  BY <2>1, <2>2 DEF CallEnd
  <1>8. KnownRight' /\ NeverKeyed' /\ LduRight' /\ CallRight'
    BY <1>1, <1>4 DEF KnownRight, NeverKeyed, LduRight, CallRight
  <1>9. Recovered'  BY <1>1, <1>3, NoRow
  <1> QED  BY <1>3, <1>5, <1>6, <1>7, <1>8, <1>9 DEF IInv, Trusted

-----------------------------------------------------------------------------
(* A frame of phase 1.                                                     *)

Prepared(e) == IF Encrypted(e) THEN Prepare(cfg.keys, e) ELSE dec.stream

Early(got) ==
    IF cfg.behavior >= 2 /\ got = "ok" /\ Encrypted(Sent)
    THEN [dec.ess EXCEPT !.alg = Sent.alg] ELSE dec.ess

LostFrame(got) ==
    /\ got = "lost" /\ SameEss /\ dec'.sound = "none" /\ known' = known
    /\ gap' = IF air.due = "LDU2" THEN {"ess"} ELSE gap

HearsHDU(got) ==
    /\ got # "lost" /\ air.due = "HDU"
    /\ dec'.stream = dec.stream
    /\ dec'.ess = IF got = "ok" THEN Sent ELSE dec.ess
    /\ known' = IF got = "ok" THEN TRUE ELSE known
    /\ gap' = IF got = "ok" THEN {} ELSE gap

HearsLDU1(got) ==
    /\ got # "lost" /\ air.due = "LDU1"
    /\ dec'.ess = dec.ess /\ dec'.stream = Prepared(dec.ess)
    /\ dec'.sound = Sounds(cfg.behavior, dec.ess, dec'.stream, Sent, TRUE)
    /\ known' = known /\ gap' = gap

HearsLDU2(got) ==
    /\ got # "lost" /\ air.due = "LDU2"
    /\ dec'.ess = IF got = "ok" THEN CycleMi(Sent) ELSE CycleMi(dec.ess)
    /\ dec'.stream = Prepared(Early(got))
    /\ dec'.sound = Sounds(cfg.behavior, Early(got), dec'.stream, Sent, TRUE)
    /\ known' = IF got = "ok" THEN TRUE ELSE known
    /\ gap' = IF got = "ok" THEN {} ELSE gap

HearsTDU(got) ==
    got # "lost" /\ air.due = "TDU" /\ dec'.stream = dec.stream /\ known' = FALSE

FrameCase(got) ==
    LostFrame(got) \/ HearsHDU(got) \/ HearsLDU1(got) \/ HearsLDU2(got) \/ HearsTDU(got)

Moves1 ==
    /\ air'.call = air.call /\ air'.alg = air.alg /\ air'.key = air.key
    /\ air'.due \in NextDue
    /\ air'.super = IF air.due = "LDU2" /\ air'.due = "LDU1" THEN air.super + 1 ELSE air.super

FrameHeard(got) ==
    /\ dec' \in Fdma /\ cfg' = cfg /\ fine' = fine
    /\ air.due # "none" /\ Moves1 /\ AirOK' /\ FrameCase(got)

PlaysOn(d, v, c, sent) ==
    /\ v \in Fdma /\ v.ess = d.ess
    /\ v.stream = IF Encrypted(d.ess) THEN Prepare(c.keys, d.ess) ELSE d.stream
    /\ v.sound = Sounds(c.behavior, d.ess, v.stream, sent, TRUE)

LEMMA ProcessVoicePlays ==
    ASSUME NEW d \in Fdma, NEW c, NEW sent
    PROVE  PlaysOn(d, ProcessVoice(d, c, sent), c, sent)
  <1> DEFINE s == IF Encrypted(d.ess) THEN Prepare(c.keys, d.ess) ELSE d.stream
             sound == Sounds(c.behavior, d.ess, s, sent, TRUE)
  <1>1. d.ess \in Ess /\ d.stream \in Streams  BY DEF Fdma, Streams
  <1>2. s \in Streams  BY <1>1, EssTypes
  <1>3. sound \in Sound  BY <1>2, SoundsType
  <1>4. ProcessVoice(d, c, sent) = [d EXCEPT !.stream = s, !.sound = sound]
    BY DEF ProcessVoice
  <1> HIDE DEF s, sound
  <1>5. LET v == [d EXCEPT !.stream = s, !.sound = sound]
        IN  v \in Fdma /\ v.ess = d.ess /\ v.stream = s /\ v.sound = sound
    BY <1>2, <1>3 DEF Fdma, Streams, Sound
  <1> QED  BY <1>4, <1>5 DEF PlaysOn, s, sound

LEMMA FrameIsHeard ==
    ASSUME TypeOK, AirOK, NEW got \in {"lost", "bad", "ok"}, Frame1(got)
    PROVE  FrameHeard(got)
  <1>1. Phase(1) /\ air.due # "none" /\ cfg' = cfg /\ fine' = fine  BY DEF Frame1
  <1>2. dec \in Fdma /\ dec.ess \in Ess  BY <1>1 DEF TypeOK, Fdma
  <1>3. air.due \in {"HDU", "LDU1", "LDU2", "TDU"}  BY <1>1 DEF AirOK, Due1
  <1>4. Sent \in Ess  BY SentType
  <1>5. Moves1 /\ AirOK'
    <2>1. PICK d \in NextDue :
              air' = [air EXCEPT !.due = d,
                           !.super = IF air.due = "LDU2" /\ d = "LDU1" THEN @ + 1 ELSE @]
      BY DEF Frame1, Advance1
    <2> DEFINE u == IF air.due = "LDU2" /\ d = "LDU1" THEN air.super + 1 ELSE air.super
    <2>2. air' = [air EXCEPT !.due = d, !.super = u]  BY <2>1
    <2>3. u \in Nat  BY DEF AirOK
    <2>4. d \in Due1  BY <1>3 DEF NextDue, AfterLDU2, Due1
    <2> HIDE DEF u
    <2>5. /\ air' \in [call : Nat, alg : Algs \cup {Clear}, key : KeyIds \cup {NoKey},
                super : Nat, due : Due1 \cup Due2, slot : Slots, first : 0 .. 4,
                faults : Nat]
          /\ air'.call = air.call /\ air'.alg = air.alg /\ air'.key = air.key
          /\ air'.slot = air.slot /\ air'.due = d /\ air'.super = u
      BY <2>2, <2>3, <2>4 DEF AirOK
    <2>6. Phase(1)' /\ ~ Phase(2)'  BY <1>1 DEF Phase
    <2>7. Moves1  BY <2>5 DEF Moves1, u
    <2>8. AirOK'  BY <1>1, <2>4, <2>5, <2>6 DEF AirOK
    <2> QED  BY <2>7, <2>8
  <1>6. known' = CASE air.due \in {"HDU", "LDU2"} /\ got = "ok" -> TRUE
                   [] air.due = "TDU" /\ got # "lost" -> FALSE
                   [] OTHER -> known
    BY DEF Frame1
  <1>7. gap' = CASE air.due \in {"HDU", "LDU2"} /\ got = "ok" -> {}
                 [] air.due = "LDU2" /\ got = "lost" -> {"ess"}
                 [] OTHER -> gap
    BY DEF Frame1
  <1>8. dec' = CASE got = "lost"      -> [dec EXCEPT !.sound = "none"]
                [] air.due = "HDU"  /\ got # "lost" -> HDU(dec, Sent, got)
                [] air.due = "LDU1" /\ got # "lost" -> LDU1(dec, cfg, Sent)
                [] air.due = "LDU2" /\ got # "lost" -> LDU2(dec, cfg, Sent, got)
                [] air.due = "TDU"  /\ got # "lost" -> TDU(dec)
    BY DEF Frame1
  <1>9. CASE got = "lost"
    <2>1. dec' = [dec EXCEPT !.sound = "none"]  BY <1>8, <1>9
    <2>2. dec' \in Fdma /\ SameEss /\ dec'.sound = "none"
      BY <1>2, <2>1 DEF Fdma, SameEss
    <2>3. known' = known  BY <1>6, <1>9
    <2>4. gap' = IF air.due = "LDU2" THEN {"ess"} ELSE gap  BY <1>7, <1>9
    <2> QED  BY <1>1, <1>5, <1>9, <2>2, <2>3, <2>4 DEF FrameHeard, FrameCase, LostFrame
  <1>10. CASE got # "lost" /\ air.due = "HDU"
    <2> DEFINE x == IF got = "ok" THEN Sent ELSE dec.ess
    <2>1. dec' = [dec EXCEPT !.ess = x, !.sound = "none"]  BY <1>8, <1>10 DEF HDU
    <2>2. x \in Ess  BY <1>2, <1>4
    <2> HIDE DEF x
    <2>3. dec' \in Fdma /\ dec'.stream = dec.stream /\ dec'.ess = x
      BY <1>2, <2>1, <2>2 DEF Fdma
    <2>4. known' = IF got = "ok" THEN TRUE ELSE known  BY <1>6, <1>10
    <2>5. gap' = IF got = "ok" THEN {} ELSE gap  BY <1>7, <1>10
    <2> QED  BY <1>1, <1>5, <1>10, <2>3, <2>4, <2>5 DEF FrameHeard, FrameCase, HearsHDU, x
  <1>11. CASE got # "lost" /\ air.due = "LDU1"
    <2>1. dec' = ProcessVoice(dec, cfg, Sent)  BY <1>8, <1>11 DEF LDU1
    <2>2. PlaysOn(dec, dec', cfg, Sent)  BY <1>2, <2>1, ProcessVoicePlays
    <2>3. known' = known  BY <1>6, <1>11
    <2>4. gap' = gap  BY <1>7, <1>11
    <2> QED  BY <1>1, <1>5, <1>11, <2>2, <2>3, <2>4
             DEF FrameHeard, FrameCase, HearsLDU1, PlaysOn, Prepared
  <1>12. CASE got # "lost" /\ air.due = "LDU2"
    <2> DEFINE skips == cfg.behavior >= 2 /\ got = "ok" /\ Encrypted(Sent)
               x == Early(got)
               d == IF skips THEN [dec EXCEPT !.ess.alg = Sent.alg] ELSE dec
               v == ProcessVoice(d, cfg, Sent)
               n == IF got = "ok" THEN CycleMi(Sent) ELSE CycleMi(dec.ess)
    <2>1. d \in Fdma /\ d.ess = x /\ d.stream = dec.stream
      <3>1. x \in Ess  BY <1>2, <1>4 DEF Early, Ess
      <3>2. d = [dec EXCEPT !.ess = x]  BY <1>2 DEF Early, Fdma
      <3> HIDE DEF d, x
      <3> QED  BY <1>2, <3>1, <3>2 DEF Fdma
    <2>2. n \in Ess  BY <1>2, <1>4, EssTypes
    <2>3. Early2(dec, cfg, Sent, got) = d  BY DEF Early2
    <2>4. got # "ok" => d = dec  OBVIOUS
    <2> HIDE DEF d, x
    <2>5. PlaysOn(d, v, cfg, Sent)  BY <2>1, ProcessVoicePlays
    <2>6. v \in Fdma /\ v.ess = d.ess  BY <2>5 DEF PlaysOn
    <2>7. got # "ok" => v.ess = dec.ess  BY <2>4, <2>6
    <2>8. dec' = [v EXCEPT !.ess = n]
      BY <1>8, <1>12, <2>3, <2>6, <2>7 DEF LDU2
    <2>9. v.stream = Prepared(x)
          /\ v.sound = Sounds(cfg.behavior, x, v.stream, Sent, TRUE)
      BY <2>1, <2>5 DEF PlaysOn, Prepared
    <2> HIDE DEF v, n
    <2>10. dec' \in Fdma /\ dec'.ess = n /\ dec'.stream = v.stream /\ dec'.sound = v.sound
      BY <2>2, <2>6, <2>8 DEF Fdma
    <2>11. known' = IF got = "ok" THEN TRUE ELSE known  BY <1>6, <1>12
    <2>12. gap' = IF got = "ok" THEN {} ELSE gap  BY <1>7, <1>12
    <2> QED  BY <1>1, <1>5, <1>12, <2>9, <2>10, <2>11, <2>12
             DEF FrameHeard, FrameCase, HearsLDU2, x, n
  <1>13. CASE got # "lost" /\ air.due = "TDU"
    <2>1. dec' = [dec EXCEPT !.ess = ResetEss(dec.ess), !.sound = "none"]
      BY <1>2, <1>8, <1>13 DEF TDU
    <2>2. ResetEss(dec.ess) \in Ess  BY <1>2, EssTypes
    <2>3. dec' \in Fdma /\ dec'.stream = dec.stream  BY <1>2, <2>1, <2>2 DEF Fdma
    <2>4. known' = FALSE  BY <1>6, <1>13
    <2> QED  BY <1>1, <1>5, <1>13, <2>3, <2>4 DEF FrameHeard, FrameCase, HearsTDU
  <1> QED  BY <1>3, <1>9, <1>10, <1>11, <1>12, <1>13

LEMMA FrameKeeps ==
    ASSUME IInv, NEW got \in {"lost", "bad", "ok"}, Frame1(got)
    PROVE  IInv'
  <1>1. /\ TypeOK /\ AirOK /\ KnownRight /\ NeverKeyed /\ LduRight
        /\ Phase(1) /\ FrameHeard(got)
    BY FrameIsHeard DEF IInv, Trusted, Frame1
  <1>2. /\ dec' \in Fdma /\ cfg' = cfg /\ fine' = fine /\ fine = 0
        /\ air.due # "none" /\ Moves1 /\ AirOK' /\ FrameCase(got)
    BY <1>1 DEF FrameHeard, AirOK
  <1>3. Phase(1)' /\ ~ Phase(2)' /\ air'.due \in Due1
    BY <1>1, <1>2 DEF Phase, AirOK
  <1>4. /\ air.due \in {"HDU", "LDU1", "LDU2", "TDU"}
        /\ air.due = "HDU" => air'.due = "LDU1"
        /\ air.due = "LDU1" => air'.due = "LDU2"
        /\ air.due = "LDU2" => air'.due \in {"LDU1", "TDU"}
        /\ air.due = "TDU" => air'.due = "none"
    <2>1. air.due \in {"HDU", "LDU1", "LDU2", "TDU"}  BY <1>1, <1>2 DEF AirOK, Due1
    <2> QED  BY <1>2, <2>1 DEF Moves1, NextDue, AfterLDU2
  <1>5. dec.ess \in Ess  BY <1>1 DEF TypeOK, Fdma
  <1>6. Sent \in Ess /\ Sent.alg = air.alg /\ Sent.key = air.key  BY <1>1, SentType
  <1>7. TypeOK'
    <2>1. known' \in BOOLEAN
      BY <1>1, <1>2 DEF TypeOK, FrameCase, LostFrame, HearsHDU, HearsLDU1, HearsLDU2, HearsTDU
    <2>2. gap' \subseteq {"ess", "count", "first"}
      BY <1>1 DEF TypeOK, Frame1
    <2>3. fine' \in 0 .. Settled + 1  BY <1>1, <1>2 DEF TypeOK
    <2> QED  BY <1>1, <1>2, <1>3, <2>1, <2>2, <2>3 DEF TypeOK
  <1>8. NeverKeyed'
    <2>1. SUFFICES ASSUME cfg.keys = {}
                   PROVE  dec'.stream.on = "no"
      BY <1>2 DEF NeverKeyed
    <2>2. \A n : Prepare(cfg.keys, n).on = "no"  BY <2>1 DEF Prepare
    <2>3. dec.stream.on = "no"  BY <1>1, <2>1 DEF NeverKeyed
    <2>4. dec'.stream = dec.stream \/ \E n : dec'.stream = Prepare(cfg.keys, n)
      BY <1>2 DEF FrameCase, LostFrame, HearsHDU, HearsLDU1, HearsLDU2, HearsTDU,
                  SameEss, Prepared
    <2> QED  BY <2>2, <2>3, <2>4
  <1>9. KnownRight'
    <2> SUFFICES ASSUME known'
                 PROVE  air'.due \notin {"HDU", "PTT1"} /\ CipherRight'
      BY DEF KnownRight
    <2>1. air'.due \notin {"HDU", "PTT1"}  BY <1>4
    <2>2. air'.alg = air.alg /\ air'.key = air.key  BY <1>2 DEF Moves1
    <2>3. SUFFICES dec'.ess.alg = air.alg /\ dec'.ess.key = air.key
      BY <1>3, <2>1, <2>2 DEF CipherRight
    <2>4. known => dec.ess.alg = air.alg /\ dec.ess.key = air.key
      BY <1>1 DEF KnownRight, CipherRight
    <2>5. /\ CycleMi(Sent).alg = air.alg /\ CycleMi(Sent).key = air.key
          /\ CycleMi(dec.ess).alg = dec.ess.alg /\ CycleMi(dec.ess).key = dec.ess.key
      BY <1>5, <1>6, EssTypes
    <2> QED  BY <1>2, <1>6, <2>4, <2>5
             DEF FrameCase, LostFrame, HearsHDU, HearsLDU1, HearsLDU2, HearsTDU, SameEss
  <1>10. LduRight'
    <2> SUFFICES ASSUME known', gap' = {}, air'.due \in {"LDU1", "LDU2"}, air'.alg # Clear
                 PROVE  dec'.ess = Sent'
      BY <1>3 DEF LduRight, EssRight
    <2>1. air.alg # Clear  BY <1>2 DEF Moves1
    <2>2. air.due # "TDU" /\ (known => air.due # "HDU")
      BY <1>1, <1>4 DEF KnownRight
    <2>3. known /\ gap = {} /\ air.due \in {"LDU1", "LDU2"} => dec.ess = Sent
      BY <1>1, <2>1 DEF LduRight, EssRight
    <2>4. air.due # "LDU2" => Sent' = Sent
      <3> SUFFICES ASSUME air.due # "LDU2" PROVE Sent' = Sent  OBVIOUS
      <3>1. air'.super = air.super  BY <1>2 DEF Moves1
      <3> QED  BY <1>1, <1>2, <2>1, <3>1, SentCycles DEF Moves1
    <2>5. air.due = "LDU2" => Sent' = CycleMi(Sent)
      <3> SUFFICES ASSUME air.due = "LDU2" PROVE Sent' = CycleMi(Sent)  OBVIOUS
      <3>1. air'.due = "LDU1"  BY <1>4
      <3>2. air'.super = air.super + 1  BY <1>2, <3>1 DEF Moves1
      <3> QED  BY <1>1, <1>2, <2>1, <3>2, SentCycles DEF Moves1
    <2>6. CASE LostFrame(got)
      BY <1>4, <2>2, <2>3, <2>4, <2>6 DEF LostFrame, SameEss
    <2>7. CASE HearsHDU(got)
      BY <2>2, <2>4, <2>7 DEF HearsHDU
    <2>8. CASE HearsLDU1(got)
      BY <2>3, <2>4, <2>8 DEF HearsLDU1
    <2>9. CASE HearsLDU2(got)
      BY <2>3, <2>5, <2>9 DEF HearsLDU2
    <2> QED  BY <1>2, <2>2, <2>6, <2>7, <2>8, <2>9 DEF FrameCase, HearsTDU
  <1>11. Aligned' /\ FirstRight' /\ CallRight'
    BY <1>3 DEF Aligned, FirstRight, CallRight, Running, Due1, Voice
  <1>12. Recovered'  BY <1>2, NoRow
  <1> QED  BY <1>2, <1>3, <1>7, <1>8, <1>9, <1>10, <1>11, <1>12 DEF IInv, Trusted

LEMMA InitInv == Init => IInv
  <1> SUFFICES ASSUME Init PROVE IInv  OBVIOUS
  <1>1. /\ cfg \in [phase : {1, 2}, keys : KeySets, behavior : Behaviors]
        /\ air = Silent /\ known = FALSE /\ gap = {} /\ fine = 0
        /\ dec = IF cfg.phase = 1 THEN FdmaReset ELSE TdmaReset
    BY DEF Init
  <1>2. NoEss \in Ess /\ NoStream \in Streams  BY EssTypes
  <1>3. FdmaReset \in Fdma /\ TdmaReset \in Tdma
    BY <1>2 DEF FdmaReset, TdmaReset, Fdma, Tdma, Slots, Streams
  <1>4. TypeOK
    <2>1. known \in BOOLEAN /\ gap \subseteq {"ess", "count", "first"}  BY <1>1
    <2>2. fine \in 0 .. Settled + 1
      <3>1. 0 \in 0 .. Settled + 1  BY DEF Settled
      <3> QED  BY <1>1, <3>1
    <2> QED  BY <1>1, <1>3, <2>1, <2>2 DEF TypeOK, Phase
  <1>5. AirOK
    <2>1. Silent \in [call : Nat, alg : Algs \cup {Clear}, key : KeyIds \cup {NoKey},
                super : Nat, due : Due1 \cup Due2, slot : Slots, first : 0 .. 4,
                faults : Nat]
      BY DEF Silent, Due1, Due2, Slots
    <2>2. Silent.due = "none" /\ Silent.slot = 0 /\ Silent.key = NoKey  BY DEF Silent
    <2> QED  BY <1>1, <2>1, <2>2 DEF AirOK, Due1, Due2
  <1>6. Phase(2) => dec.slotid = 0  BY <1>1 DEF TdmaReset, Phase
  <1>7. Aligned  BY <1>1 DEF Aligned, Silent, Voice
  <1>8. NeverKeyed  BY <1>1 DEF NeverKeyed, FdmaReset, TdmaReset, NoStream
  <1>9. KnownRight /\ LduRight /\ FirstRight /\ CallRight
    BY <1>1 DEF KnownRight, LduRight, FirstRight, CallRight, Running, Silent, Voice
  <1>10. SlotFound  BY <1>1 DEF SlotFound
  <1>11. ~ InVoice  BY <1>1 DEF InVoice, Silent
  <1>12. Recovered  BY <1>10, <1>11 DEF Recovered, FirstFound, EssFound, CountFound
  <1> QED  BY <1>4, <1>5, <1>6, <1>7, <1>8, <1>9, <1>12 DEF IInv, Trusted

LEMMA NextInv == IInv /\ [Next]_vars => IInv'
  <1> SUFFICES ASSUME IInv, [Next]_vars PROVE IInv'  OBVIOUS
  <1>1. CASE Begin  BY <1>1, BeginKeeps
  <1>2. CASE CallEnd  BY <1>2, CallEndKeeps
  <1>3. CASE \E got \in {"lost", "bad", "ok"} : Frame1(got)
    BY <1>3, FrameKeeps
  <1>4. CASE \E clean \in BOOLEAN, got \in {"bad", "ok"} : Packet(clean, got)
    <2>1. PICK clean \in BOOLEAN, got \in {"bad", "ok"} : Packet(clean, got)
      BY <1>4
    <2>2. TypeOK /\ AirOK /\ Phase(2) /\ dec.slotid = 0  BY <2>1 DEF IInv, Packet
    <2>3. Received(clean, got)  BY <2>1, <2>2, PacketReceived
    <2> QED  BY <2>2, <2>3, PacketKeeps
  <1>5. CASE LosePacket
    <2>1. TypeOK /\ AirOK /\ Phase(2) /\ dec.slotid = 0  BY <1>5 DEF IInv, LosePacket
    <2>2. Received(FALSE, "lost")  BY <1>5, <2>1, LostReceived
    <2> QED  BY <2>1, <2>2, PacketKeeps
  <1>6. CASE UNCHANGED vars
    <2>1. cfg' = cfg /\ air' = air /\ dec' = dec /\ known' = known /\ gap' = gap /\ fine' = fine
      BY <1>6 DEF vars
    <2>2. TypeOK' /\ AirOK' /\ (Phase(2) => dec.slotid = 0)' /\ Aligned'
      BY <2>1 DEF IInv, TypeOK, AirOK, Phase, Aligned
    <2>3. Trusted'
      BY <2>1 DEF IInv, Trusted, KnownRight, NeverKeyed, LduRight, FirstRight, CallRight,
                  CipherRight, Loaded, EssRight, Behind, Exact, Running, Phase, Sent
    <2>4. EssSlot' = EssSlot /\ Enough' = Enough /\ InVoice' = InVoice
      BY <2>1 DEF EssSlot, Enough, InVoice
    <2>5. Since(11)' = Since(11) /\ Since(EssSlot)' = Since(EssSlot)
      BY <2>1, <2>4 DEF Since
    <2>6. Recovered'
      BY <2>1, <2>4, <2>5 DEF IInv, Recovered, SlotFound, FirstFound, EssFound, CountFound,
                  Synced, EssRight, Exact, Phase, Sent
    <2> QED  BY <2>2, <2>3, <2>6 DEF IInv
  <1> QED  BY <1>1, <1>2, <1>3, <1>4, <1>5, <1>6 DEF Next

(* The decoder's registers always have their ranges and, as far as the     *)
(* ghosts do not say otherwise, are those of the call on the air.          *)
THEOREM Invariance == Spec => []IInv
  BY InitInv, NextInv, PTL DEF Spec

(* burst_id, the slot and the position of the first 4V keep the ranges     *)
(* within which p25p2_tdma indexes with them.                              *)
THEOREM TypeCorrect == Spec => []TypeOK
  <1>1. IInv => TypeOK  BY DEF IInv
  <1> QED  BY <1>1, Invariance, PTL

-----------------------------------------------------------------------------
(* A frame sounds as it should where cipher, keystream and place are right.*)
LEMMA SoundsAsMeant ==
    ASSUME NEW e, NEW stream, NEW placed, e.alg = air.alg,
           ~ Encrypted(Sent) => placed,
           Encrypted(Sent) => stream.on = Loaded,
           Encrypted(Sent) /\ <<air.alg, air.key>> \in cfg.keys =>
              placed /\ stream.ess = Sent
    PROVE  Sounds(cfg.behavior, e, stream, Sent, placed) = Wanted
  <1>1. Sent.alg = air.alg /\ Sent.key = air.key  BY DEF Sent
  <1>2. CASE ~ Encrypted(Sent)
    <2>1. ~ Encrypted(e)  BY <1>1, <1>2 DEF Encrypted
    <2> QED  BY <1>2, <2>1 DEF Sounds, Wanted, Intended
  <1>3. CASE Encrypted(Sent) /\ <<air.alg, air.key>> \in cfg.keys
    <2>1. Encrypted(e) /\ stream.on = "yes"  BY <1>1, <1>3 DEF Encrypted, Loaded
    <2> QED  BY <1>1, <1>3, <2>1 DEF Sounds, Wanted, Intended
  <1>4. CASE Encrypted(Sent) /\ <<air.alg, air.key>> \notin cfg.keys
    <2>1. Encrypted(e) /\ stream.on = "no"  BY <1>1, <1>4 DEF Encrypted, Loaded
    <2> QED  BY <1>1, <1>4, <2>1 DEF Sounds, Wanted, Intended
  <1> QED  BY <1>2, <1>3, <1>4

(* Skipping early gives the algorithm of the call, which is the ESS's.     *)
LEMMA EarlyAlg ==
    ASSUME dec.ess \in Ess, AirOK
    PROVE  /\ [dec.ess EXCEPT !.alg = Sent.alg].alg = Sent.alg
           /\ dec.ess.alg = air.alg => [dec.ess EXCEPT !.alg = Sent.alg].alg = air.alg
  BY SentType DEF Ess

LEMMA VoiceAsMeant ==
    ASSUME TypeOK, AirOK, Phase(2), NEW clean, NEW got,
           Hears4V(clean) \/ Hears2V(clean, got),
           dec.ess.alg = air.alg, air.alg # Clear => dec.stream.on = Loaded,
           <<air.alg, air.key>> \in cfg.keys =>
              (air.alg # Clear => dec.stream.ess = Sent) /\ dec'.burst = Number(air.due)
    PROVE  dec'.sound = Wanted
  <1> DEFINE placed == Encrypted(Sent) => dec'.burst = Number(air.due)
  <1>1. Encrypted(Sent) <=> air.alg # Clear  BY DEF Encrypted, Sent
  <1>2. dec.ess \in Ess  BY DEF TypeOK, Phase, Tdma
  <1>3. PICK e : dec'.sound = Sounds(cfg.behavior, e, dec.stream, Sent, placed)
                  /\ e.alg = air.alg
    BY <1>2, EarlyAlg DEF Hears4V, Hears2V, Speech
  <1>4. ~ Encrypted(Sent) => placed  OBVIOUS
  <1>5. Encrypted(Sent) /\ <<air.alg, air.key>> \in cfg.keys =>
            placed /\ dec.stream.ess = Sent
    BY <1>1
  <1>6. Encrypted(Sent) => dec.stream.on = Loaded  BY <1>1
  <1> HIDE DEF placed
  <1> QED  BY <1>3, <1>4, <1>5, <1>6, SoundsAsMeant

LEMMA VoiceHeard ==
    ASSUME NEW clean, NEW got \in {"bad", "ok"}, Received(clean, got),
           OwnVoice(air.slot), InVoice, dec'.sid = air.slot
    PROVE  Hears4V(clean) \/ Hears2V(clean, got)
  <1>1. PacketCase(clean, got)  BY DEF Received
  <1>2. air.slot # 11 /\ air.due \notin {"PTT1", "PTT0", "END"}
    BY DEF OwnVoice, InVoice
  <1> QED  BY <1>1, <1>2
           DEF PacketCase, Passes, HearsPtt, HearsEnd, HearsSacch, Mistakes

(* A 4V of a call whose first 4V and count are right is counted as sent.   *)
LEMMA VoicePlaced ==
    ASSUME TypeOK, AirOK, Phase(2), Aligned, NEW clean, NEW got,
           Hears4V(clean) \/ Hears2V(clean, got),
           air.due # "V4" => Exact /\ dec.first \in {-1, air.first}
    PROVE  dec'.burst = Number(air.due)
  <1>1. CASE Hears4V(clean)
    <2>1. air.due # "V4" /\ Exact  BY <1>1 DEF Hears4V
    <2>2. Behind  BY <2>1 DEF Behind, Exact, TypeOK, Phase, Tdma
    <2>3. CASE Sure(clean) /\ dec.first >= 0
      BY <1>1, <2>1, <2>2, <2>3, CountsRight
    <2>4. CASE ~ (Sure(clean) /\ dec.first >= 0)
      <3>1. dec'.burst = (dec.burst + 1) % 5  BY <1>1, <2>4 DEF Hears4V
      <3> QED  BY <2>1, <3>1 DEF Exact
    <2> QED  BY <2>3, <2>4
  <1>2. CASE Hears2V(clean, got)
    BY <1>2 DEF Hears2V, Number
  <1> QED  BY <1>1, <1>2

LEMMA FrameAsMeant ==
    ASSUME IInv, known, Certain, air.due \in {"LDU1", "LDU2"},
           NEW got \in {"bad", "ok"}, Frame1(got)
    PROVE  dec'.sound = Wanted
  <1>1. TypeOK /\ AirOK /\ KnownRight /\ LduRight /\ Phase(1)
    BY DEF IInv, Trusted, Frame1
  <1>2. FrameCase(got)  BY <1>1, FrameIsHeard DEF FrameHeard
  <1>3. dec.ess \in Ess  BY <1>1 DEF TypeOK, Fdma
  <1>4. dec.ess.alg = air.alg /\ dec.ess.key = air.key
    BY <1>1 DEF KnownRight, CipherRight
  <1>5. gap = {} => (air.alg # Clear => dec.ess = Sent)
    BY <1>1 DEF LduRight, EssRight
  <1>6. PICK e : /\ e.alg = air.alg /\ e.key = air.key
                 /\ gap = {} /\ air.alg # Clear => e = Sent
                 /\ dec'.stream = Prepared(e)
                 /\ dec'.sound = Sounds(cfg.behavior, e, dec'.stream, Sent, TRUE)
    <2>1. CASE air.due = "LDU1"
      <3>1. HearsLDU1(got)
        BY <1>2, <2>1 DEF FrameCase, LostFrame, HearsHDU, HearsLDU2, HearsTDU
      <3> QED  BY <1>4, <1>5, <3>1 DEF HearsLDU1
    <2>2. CASE air.due = "LDU2"
      <3>1. HearsLDU2(got)
        BY <1>2, <2>2 DEF FrameCase, LostFrame, HearsHDU, HearsLDU1, HearsTDU
      <3>2. Early(got) = dec.ess
        <4>1. Sent.alg = dec.ess.alg  BY <1>4 DEF Sent
        <4>2. [dec.ess EXCEPT !.alg = Sent.alg] = dec.ess  BY <1>3, <4>1 DEF Ess
        <4> QED  BY <4>2 DEF Early
      <3> QED  BY <1>4, <1>5, <3>1, <3>2 DEF HearsLDU2
    <2> QED  BY <2>1, <2>2
  <1>7. Encrypted(Sent) <=> air.alg # Clear  BY DEF Encrypted, Sent
  <1>8. Encrypted(Sent) => dec'.stream.on = Loaded /\ dec'.stream.ess = e
    BY <1>6, <1>7 DEF Prepared, Prepare, Loaded, Encrypted
  <1>9. Encrypted(Sent) /\ <<air.alg, air.key>> \in cfg.keys => dec'.stream.ess = Sent
    BY <1>6, <1>7, <1>8 DEF Certain
  <1> DEFINE stream == dec'.stream
             placed == TRUE
  <1>10. /\ ~ Encrypted(Sent) => placed
         /\ Encrypted(Sent) => stream.on = Loaded
         /\ Encrypted(Sent) /\ <<air.alg, air.key>> \in cfg.keys =>
                placed /\ stream.ess = Sent
         /\ dec'.sound = Sounds(cfg.behavior, e, stream, Sent, placed)
    BY <1>6, <1>8, <1>9
  <1> HIDE DEF stream, placed
  <1> QED  BY <1>6, <1>10, SoundsAsMeant

(* A call whose ESS is known is heard as it and the configuration want it, *)
(* for whatever losses, damage and ends of calls there are: in phase 2 a   *)
(* call with a loaded key while none of them has left ESS, count or the    *)
(* first 4V in doubt, every other call regardless.                         *)
THEOREM HeardAsMeant == Spec => HeardRight
  <1>1. ASSUME IInv, known, Certain, OwnVoice(air.slot), InVoice, dec'.sid = air.slot,
               NEW clean \in BOOLEAN, NEW got \in {"bad", "ok"}, Packet(clean, got)
        PROVE  dec'.sound = Wanted
    <2>1. /\ TypeOK /\ AirOK /\ Phase(2) /\ dec.slotid = 0 /\ Aligned
          /\ KnownRight /\ FirstRight /\ CallRight
      BY <1>1 DEF IInv, Trusted, Packet
    <2>2. Received(clean, got)  BY <1>1, <2>1, PacketReceived
    <2>3. Hears4V(clean) \/ Hears2V(clean, got)  BY <1>1, <2>2, VoiceHeard
    <2>4. dec.ess.alg = air.alg /\ (air.alg # Clear => dec.stream.on = Loaded)
      BY <1>1, <2>1 DEF KnownRight, CipherRight
    <2>5. ASSUME <<air.alg, air.key>> \in cfg.keys
          PROVE  (air.alg # Clear => dec.stream.ess = Sent) /\ dec'.burst = Number(air.due)
      <3>1. gap = {} /\ Running  BY <1>1, <2>5 DEF Certain, Running, InVoice, Voice
      <3>2. EssRight /\ Exact /\ dec.first \in {-1, air.first}
        BY <1>1, <2>1, <3>1 DEF CallRight, FirstRight
      <3>3. dec'.burst = Number(air.due)  BY <2>1, <2>3, <3>2, VoicePlaced
      <3> QED  BY <2>1, <3>2, <3>3 DEF EssRight, Prepare
    <2> QED  BY <2>1, <2>3, <2>4, <2>5, VoiceAsMeant
  <1>2. IInv /\ [Next]_vars =>
            [ /\ known /\ Certain
              /\ \/ air.due \in {"LDU1", "LDU2"} /\ \E got \in {"bad", "ok"} : Frame1(got)
                 \/ OwnVoice(air.slot) /\ InVoice /\ dec'.sid = air.slot
                    /\ \E clean \in BOOLEAN, got \in {"bad", "ok"} : Packet(clean, got)
              => dec'.sound = Wanted ]_vars
    BY <1>1, FrameAsMeant
  <1> QED  BY <1>2, Invariance, PTL DEF Spec, HeardRight

(* At a voice burst of ours the longest wait of Recovered is Settled.      *)
LEMMA RowIsEnough ==
    ASSUME AirOK, InVoice, OwnVoice(air.slot), Recovered, fine \in Nat, fine >= Settled
    PROVE  /\ dec.first = air.first /\ dec.ess.alg = air.alg /\ EssRight
           /\ air.slot # EssSlot /\ air.due # "V4" => Exact
  <1>1. EssSlot \in {0, 2, 4, 6, 8} /\ air.slot \in {0, 2, 4, 6, 8} /\ fine >= 19
    BY EssSlotIs DEF OwnVoice, Settled
  <1>2. fine >= Since(11) + 2  BY <1>1 DEF Since
  <1>3. \A s \in {0, 2, 4, 6, 8} : Since(s) \in 1 .. 12 /\ (air.slot # s => Since(s) <= 10)
    BY <1>1 DEF Since
  <1>4. fine >= Since(EssSlot) + 2  BY <1>1, <1>3
  <1>5. ASSUME air.slot # EssSlot
        PROVE  fine + 1 >= Since(EssSlot) + Enough
    <2>1. Enough \in {3, 6, 10}  BY EssSlotIs
    <2>2. Since(EssSlot) \in 1 .. 10  BY <1>1, <1>3, <1>5
    <2> QED  BY <1>1, <2>1, <2>2
  <1> QED  BY <1>2, <1>4, <1>5 DEF Recovered, FirstFound, EssFound, CountFound

(* After a row of Settled packets received as sent the call is heard as    *)
(* meant, whatever the state the row began in.                             *)
THEOREM RecoversAlways == Spec => Recovers
  <1>1. ASSUME IInv, [Next]_vars, fine' > Settled, OwnVoice(air.slot), InVoice,
               ~ UNCHANGED vars
        PROVE  dec'.sound = Wanted
    <2>1. TypeOK /\ AirOK /\ Aligned /\ Recovered  BY <1>1 DEF IInv
    <2>2. fine' # 0 /\ fine \in Nat
      <3>1. fine' # 0  BY <1>1 DEF Settled
      <3> QED  BY <2>1, <3>1 DEF TypeOK, Settled
    <2>3. PICK clean \in BOOLEAN, got \in {"bad", "ok"} : Packet(clean, got)
      <3>1. ~ Begin /\ ~ CallEnd /\ ~ LosePacket  BY <2>2 DEF Begin, CallEnd, LosePacket
      <3>2. ASSUME NEW got, Frame1(got)
            PROVE  FALSE
        BY <2>1, <2>2, <3>2 DEF Frame1, AirOK
      <3> QED  BY <1>1, <3>1, <3>2 DEF Next
    <2>4. Phase(2) /\ dec.slotid = 0  BY <1>1, <2>3 DEF Packet, IInv
    <2>5. Received(clean, got)  BY <2>1, <2>3, <2>4, PacketReceived
    <2>6. Row(clean, got) /\ fine' <= fine + 1 /\ fine' \in Nat
      <3>1. got \in {"lost", "bad", "ok"}  OBVIOUS
      <3> QED  BY <2>1, <2>2, <2>5, <3>1, RowIs
    <2>7. fine >= Settled /\ fine >= 2
      <3>1. Settled = 19  BY DEF Settled
      <3> QED  BY <1>1, <2>2, <2>6, <3>1
    <2>8. dec'.sid = air.slot
      <3>1. got \in {"lost", "bad", "ok"} /\ SlotFound  BY <2>1 DEF Recovered
      <3> QED  BY <2>1, <2>2, <2>4, <2>5, <2>7, <3>1, RowFindsSlot
    <2>9. Hears4V(clean) \/ Hears2V(clean, got)  BY <1>1, <2>5, <2>8, VoiceHeard
    <2>10. /\ dec.first = air.first /\ dec.ess.alg = air.alg /\ EssRight
           /\ air.slot # EssSlot /\ air.due # "V4" => Exact
      BY <1>1, <2>1, <2>2, <2>7, RowIsEnough
    <2>11. air.due # "V4" => air.slot # EssSlot
      BY <1>1, <2>1, EssBursts DEF Running, InVoice, Voice
    <2>12. dec'.burst = Number(air.due)
      BY <2>1, <2>4, <2>9, <2>10, <2>11, VoicePlaced
    <2>13. air.alg # Clear => dec.stream.on = Loaded /\ dec.stream.ess = Sent
      <3> SUFFICES ASSUME air.alg # Clear
                   PROVE  dec.stream.on = Loaded /\ dec.stream.ess = Sent
        OBVIOUS
      <3>1. dec.stream = Prepare(cfg.keys, Sent)  BY <2>4, <2>10 DEF EssRight
      <3> QED  BY <3>1 DEF Prepare, Loaded, Sent
    <2> QED  BY <2>1, <2>4, <2>9, <2>10, <2>12, <2>13, VoiceAsMeant
  <1>2. IInv /\ [Next]_vars =>
            [ fine' > Settled /\ OwnVoice(air.slot) /\ InVoice => dec'.sound = Wanted ]_vars
    BY <1>1
  <1> QED  BY <1>2, Invariance, PTL DEF Spec, Recovers

(* Nothing is decrypted without a keystream.                               *)
LEMMA SilentWithout ==
    ASSUME NEW e, NEW stream, NEW placed, Encrypted(e), stream.on = "no"
    PROVE  Sounds(cfg.behavior, e, stream, Sent, placed) = "none"
  BY DEF Sounds

(* A channel without keys that is to skip encrypted calls is silent even   *)
(* on the burst or frame that first tells a late listener of the cipher.   *)
THEOREM SkippedSilently == Spec => SkipsSilently
  <1>1. ASSUME IInv, [Next]_vars, air.due \in {"LDU2", "V4"}, cfg.behavior >= 2,
               cfg.keys = {}, Encrypted(Sent), known', ~ UNCHANGED vars
        PROVE  dec'.sound = "none"
    <2>1. /\ TypeOK /\ AirOK /\ dec.stream.on = "no"
          /\ known => Encrypted(dec.ess)
      BY <1>1 DEF IInv, Trusted, NeverKeyed, KnownRight, CipherRight, Encrypted, Sent
    <2>2. \A e : Prepare(cfg.keys, e).on = "no"  BY <1>1 DEF Prepare
    <2>3. dec.ess \in Ess  BY <2>1 DEF TypeOK, Fdma, Tdma
    <2>4. Encrypted([dec.ess EXCEPT !.alg = Sent.alg])
      BY <1>1, <2>1, <2>3, EarlyAlg DEF Encrypted
    <2>5. CASE \E clean \in BOOLEAN, got \in {"bad", "ok"} : Packet(clean, got)
      <3>1. PICK clean \in BOOLEAN, got \in {"bad", "ok"} : Packet(clean, got)
        BY <2>5
      <3>2. Phase(2) /\ dec.slotid = 0  BY <1>1, <3>1 DEF Packet, IInv
      <3>3. PacketCase(clean, got)
        BY <2>1, <3>1, <3>2, PacketReceived DEF Received
      <3>4. CASE Passes(got) \/ HearsSacch(got)
        BY <3>4 DEF Passes, HearsSacch
      <3>5. CASE Hears2V(clean, got)
        <4> DEFINE e == IF cfg.behavior >= 2 /\ got = "ok" /\ Encrypted(Sent)
                        THEN [dec.ess EXCEPT !.alg = Sent.alg] ELSE dec.ess
        <4>1. Encrypted(e)
          BY <1>1, <2>1, <2>4, <3>5 DEF Hears2V
        <4>2. Speech(e)  BY <3>5 DEF Hears2V
        <4> HIDE DEF e
        <4> QED  BY <2>1, <4>1, <4>2, SilentWithout DEF Speech
      <3>6. CASE Mistakes
        BY <1>1, <2>1, <3>6, SilentWithout DEF Mistakes
      <3>7. ~ HearsPtt(got) /\ ~ HearsEnd(got) /\ ~ Hears4V(clean)
        BY <1>1, <3>2, <2>1
           DEF HearsPtt, HearsEnd, Hears4V, InVoice
      <3> QED  BY <3>3, <3>4, <3>5, <3>6, <3>7 DEF PacketCase
    <2>6. CASE LosePacket
      <3>1. dec \in Tdma  BY <2>1, <2>6 DEF LosePacket, TypeOK, Phase
      <3> QED  BY <2>6, <3>1 DEF LosePacket, Tdma
    <2>7. CASE \E got \in {"lost", "bad", "ok"} : Frame1(got)
      <3>1. PICK got \in {"lost", "bad", "ok"} : Frame1(got)  BY <2>7
      <3>2. FrameCase(got)  BY <2>1, <3>1, FrameIsHeard DEF FrameHeard
      <3>3. CASE LostFrame(got)  BY <3>3 DEF LostFrame
      <3>4. CASE HearsLDU2(got)
        <4> DEFINE e == Early(got)
        <4>1. Encrypted(e)
          BY <1>1, <2>1, <2>4, <3>4 DEF HearsLDU2, Early
        <4> HIDE DEF e
        <4>2. dec'.stream.on = "no"
          BY <2>2, <3>4, <4>1 DEF HearsLDU2, Prepared, e
        <4>3. dec'.sound = Sounds(cfg.behavior, e, dec'.stream, Sent, TRUE)
          BY <3>4 DEF HearsLDU2, e
        <4> DEFINE stream == dec'.stream
                   placed == TRUE
        <4>4. stream.on = "no" /\ dec'.sound = Sounds(cfg.behavior, e, stream, Sent, placed)
          BY <4>2, <4>3
        <4> HIDE DEF stream, placed
        <4> QED  BY <4>1, <4>4, SilentWithout
      <3>5. ~ HearsHDU(got) /\ ~ HearsLDU1(got) /\ ~ HearsTDU(got)
        BY <1>1 DEF HearsHDU, HearsLDU1, HearsTDU
      <3> QED  BY <3>2, <3>3, <3>4, <3>5 DEF FrameCase
    <2>8. ~ Begin /\ ~ CallEnd  BY <1>1 DEF Begin, CallEnd
    <2> QED  BY <1>1, <2>5, <2>6, <2>7, <2>8 DEF Next
  <1>2. IInv /\ [Next]_vars =>
            [ /\ air.due \in {"LDU2", "V4"} /\ cfg.behavior >= 2 /\ cfg.keys = {}
              /\ Encrypted(Sent) /\ known'
              => dec'.sound = "none" ]_vars
    BY <1>1
  <1> QED  BY <1>2, Invariance, PTL DEF Spec, SkipsSilently
=============================================================================
