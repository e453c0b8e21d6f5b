--------------------------- MODULE RxSync_proofs ----------------------------
(***************************************************************************)
(* Proofs about RxSync, for every set of frame lengths, masks and timers:  *)
(* whatever is heard, and wherever sync_reset() of the message thread      *)
(* lands, the registers keep their ranges, a frame fits its buffer, no     *)
(* frame is processed twice and audio is drained when the lock is lost.    *)
(*                                                                         *)
(* Each operator of a symbol takes the whole state of the receiver and     *)
(* gives one: the proof follows them, Sound(x) being what all of them      *)
(* keep.  From the section on the clock of a lock on it follows what they  *)
(* do to the lock, its clock and the frame being collected, up to the two  *)
(* bounded responses: a silent channel is reported and a good one decoded. *)
(***************************************************************************)
EXTENDS RxSync, TLAPS, WellFoundedInduction

Framer == [duid : Kinds \cup {"none"}, rest : {"due", "loaded"}, bits : Nat]

Ages == [sync : 0 .. Second, q : 0 .. Second]

Outs == [report : {"none", "timeout", "sync"},
         frame : Kinds \cup {"none", "nid", "packet", "codeword"},
         body : {"whole", "cut", "again"}]

Receiver == [rx : Registers, framer : Framer, age : Ages, out : Outs]

Nid == Mode["P25P1"].frag

(* While a body is collected its NID has been accepted, it has not been    *)
(* loaded and what is still to come fits.                                  *)
Fits(r, f) ==
    /\ f.bits <= FrameBits
    /\ r.type = "P25P1" /\ r.frag # Nid =>
          /\ f.duid \in Kinds
          /\ f.rest = "due"
          /\ f.bits + 2 * r.frag <= FrameBits
    /\ r.type \notin {"NONE", "P25P1"} => r.frag = Mode[r.type].frag

Sound(x) == x \in Receiver /\ Fits(x.rx, x.framer) /\ x.out.body # "again"

Drained(r) == r.type = "NONE" => r.until = Muted

LEMMA ModeTypes ==
    /\ \A t \in Types : /\ Mode[t].half \in Nat /\ Mode[t].offset \in Nat
                        /\ Mode[t].frag \in Nat /\ Mode[t].life \in Nat
                        /\ SyncEnd(t) \in Nat
    /\ Mode["NONE"].frag = 0 /\ Mode["NONE"].life = 0
    /\ Nid \in Nat /\ 2 * Nid <= FrameBits /\ FrameBits \in Nat
    /\ \A k \in Kinds : BodyLen[k] \in Nat \ {0} /\ 2 * (Nid + BodyLen[k]) <= FrameBits
    /\ \A t \in Types \ {"NONE"} : SyncEnd(t) >= 1 /\ SyncEnd(t) <= Mode[t].frag
    /\ CounterMod \in Nat \ {0} /\ Second \in Nat \ {0}
  BY SMT, RxSyncAssumption DEF RxSyncAssumption, SyncEnd, Nid, Types

LEMMA AfterInRange ==
    ASSUME NEW r \in Registers, NEW t \in Types
    PROVE  After(r, t) \in 0 .. CounterMod - 1
  BY SMT, ModeTypes DEF After, Registers, Types

LEMMA ResetIsSound ==
    ASSUME NEW r, r.mask \in Masks
    PROVE  /\ Reset(r) \in Registers
           /\ Reset(r).type = "NONE" /\ Reset(r).frag = 0
           /\ Reset(r).until = Muted
  BY SMT, ModeTypes DEF Reset, Registers, Muted, Types

LEMMA LoseLockIsSound ==
    ASSUME NEW x, Sound(x)
    PROVE  /\ Sound(LoseLock(x)) /\ Drained(LoseLock(x).rx)
           /\ LoseLock(x).out = x.out /\ LoseLock(x).framer = x.framer
  <1>1. x.rx.mask \in Masks  BY DEF Sound, Receiver, Registers
  <1>2. Fresh \in Ages  BY ModeTypes DEF Fresh, Ages
  <1> QED  BY <1>1, <1>2, ResetIsSound DEF Sound, Receiver, LoseLock, Fits, Drained

-----------------------------------------------------------------------------
(* One component of the state is replaced, or one field of it. *)

LEMMA PutRx ==
    ASSUME NEW x \in Receiver, NEW r \in Registers
    PROVE  LET y == [x EXCEPT !.rx = r]
           IN  /\ y \in Receiver /\ y.rx = r
               /\ y.framer = x.framer /\ y.age = x.age /\ y.out = x.out
  BY SMT DEF Receiver

LEMMA PutFramer ==
    ASSUME NEW x \in Receiver, NEW f \in Framer
    PROVE  LET y == [x EXCEPT !.framer = f]
           IN  /\ y \in Receiver /\ y.framer = f
               /\ y.rx = x.rx /\ y.age = x.age /\ y.out = x.out
  BY SMT DEF Receiver

LEMMA PutAge ==
    ASSUME NEW x \in Receiver, NEW a \in Ages
    PROVE  LET y == [x EXCEPT !.age = a]
           IN  /\ y \in Receiver /\ y.age = a
               /\ y.rx = x.rx /\ y.framer = x.framer /\ y.out = x.out
  BY SMT DEF Receiver

LEMMA PutOut ==
    ASSUME NEW x \in Receiver, NEW o \in Outs
    PROVE  LET y == [x EXCEPT !.out = o]
           IN  /\ y \in Receiver /\ y.out = o
               /\ y.rx = x.rx /\ y.framer = x.framer /\ y.age = x.age
  BY SMT DEF Receiver

LEMMA OutFields ==
    ASSUME NEW o \in Outs
    PROVE  /\ \A f \in Kinds \cup {"none", "nid", "packet", "codeword"} :
                 [o EXCEPT !.frame = f] \in Outs /\ [o EXCEPT !.frame = f].body = o.body
           /\ \A t \in {"none", "timeout", "sync"} :
                 [o EXCEPT !.report = t] \in Outs /\ [o EXCEPT !.report = t].body = o.body
           /\ \A b \in {"whole", "cut", "again"} :
                 [o EXCEPT !.body = b] \in Outs /\ [o EXCEPT !.body = b].body = b
  BY SMT DEF Outs

LEMMA AgeFields ==
    ASSUME NEW a \in Ages
    PROVE  /\ \A n \in {0, a.q} : [a EXCEPT !.q = n] \in Ages
           /\ Later(a) \in Ages /\ Fresh \in Ages
  <1>1. \A n \in {0, a.q} : [a EXCEPT !.q = n] \in Ages  BY SMT, ModeTypes DEF Ages
  <1>2. Fresh \in Ages  BY SMT, ModeTypes DEF Fresh, Ages
  <1>3. DOMAIN a = {"sync", "q"} /\ a.sync \in 0 .. Second /\ a.q \in 0 .. Second
    BY SMT DEF Ages
  <1>4. Later(a) = [sync |-> IF a.sync < Second THEN a.sync + 1 ELSE Second,
                    q |-> IF a.q < Second THEN a.q + 1 ELSE Second]
    BY SMT, <1>3 DEF Later
  <1>5. Later(a) \in Ages  BY SMT, <1>3, <1>4, ModeTypes DEF Ages
  <1> QED  BY <1>1, <1>2, <1>5

LEMMA FramerFields ==
    ASSUME NEW f \in Framer, NEW n \in Nat
    PROVE  /\ [f EXCEPT !.bits = n] \in Framer /\ [f EXCEPT !.bits = n].bits = n
           /\ [f EXCEPT !.bits = n].duid = f.duid /\ [f EXCEPT !.bits = n].rest = f.rest
           /\ \A k \in Kinds : /\ [f EXCEPT !.duid = k] \in Framer
                               /\ [f EXCEPT !.duid = k].duid = k
                               /\ [f EXCEPT !.duid = k].bits = f.bits
           /\ \A t \in {"due", "loaded"} : /\ [f EXCEPT !.rest = t] \in Framer
                                          /\ [f EXCEPT !.rest = t].rest = t
                                          /\ [f EXCEPT !.rest = t].bits = f.bits
                                          /\ [f EXCEPT !.rest = t].duid = f.duid
  BY SMT DEF Framer

LEMMA RegisterFields ==
    ASSUME NEW r \in Registers
    PROVE  /\ \A n \in Int : /\ [r EXCEPT !.frag = n] \in Registers
                             /\ [r EXCEPT !.frag = n].frag = n
                             /\ [r EXCEPT !.frag = n].type = r.type
                             /\ [r EXCEPT !.frag = n].count = r.count
                             /\ [r EXCEPT !.frag = n].until = r.until
           /\ \A n \in Nat : /\ [r EXCEPT !.count = n] \in Registers
                             /\ [r EXCEPT !.count = n].frag = r.frag
                             /\ [r EXCEPT !.count = n].type = r.type
                             /\ [r EXCEPT !.count = n].count = n
                             /\ [r EXCEPT !.count = n].until = r.until
           /\ \A t \in 0 .. CounterMod - 1 : /\ [r EXCEPT !.exp = t] \in Registers
                             /\ [r EXCEPT !.exp = t].frag = r.frag
                             /\ [r EXCEPT !.exp = t].type = r.type
                             /\ [r EXCEPT !.exp = t].count = r.count
                             /\ [r EXCEPT !.exp = t].until = r.until
           /\ \A t \in 0 .. CounterMod - 1 : /\ [r EXCEPT !.sc = t] \in Registers
                             /\ [r EXCEPT !.sc = t].frag = r.frag
                             /\ [r EXCEPT !.sc = t].type = r.type
                             /\ [r EXCEPT !.sc = t].count = r.count
                             /\ [r EXCEPT !.sc = t].until = r.until
           /\ \A n \in 0 .. 2 : /\ [r EXCEPT !.thr = n] \in Registers
                             /\ [r EXCEPT !.thr = n].frag = r.frag
                             /\ [r EXCEPT !.thr = n].type = r.type
                             /\ [r EXCEPT !.thr = n].count = r.count
                             /\ [r EXCEPT !.thr = n].until = r.until
           /\ \A t \in Types : /\ [r EXCEPT !.type = t] \in Registers
                             /\ [r EXCEPT !.type = t].frag = r.frag
                             /\ [r EXCEPT !.type = t].type = t
                             /\ [r EXCEPT !.type = t].count = r.count
                             /\ [r EXCEPT !.type = t].until = r.until
           /\ \A m \in Masks : /\ [r EXCEPT !.mask = m] \in Registers
                             /\ [r EXCEPT !.mask = m].frag = r.frag
                             /\ [r EXCEPT !.mask = m].type = r.type
                             /\ [r EXCEPT !.mask = m].until = r.until
  BY SMT DEF Registers

-----------------------------------------------------------------------------
(* The same for one field inside a component. *)

LEMMA PutReport ==
    ASSUME NEW x \in Receiver, NEW t \in {"none", "timeout", "sync"}
    PROVE  LET y == [x EXCEPT !.out.report = t]
           IN  /\ y \in Receiver /\ y.out.body = x.out.body
               /\ y.rx = x.rx /\ y.framer = x.framer /\ y.age = x.age
  <1> DEFINE u == [x.out EXCEPT !.report = t]
  <1>1. x.out \in Outs  BY DEF Receiver
  <1>2. u \in Outs /\ u.body = x.out.body  BY <1>1, OutFields
  <1> HIDE DEF u
  <1>3. LET y == [x EXCEPT !.out = u]
        IN  /\ y \in Receiver /\ y.out = u
            /\ y.rx = x.rx /\ y.framer = x.framer /\ y.age = x.age
    BY <1>2, PutOut
  <1> QED  BY <1>2, <1>3 DEF u

LEMMA PutFrame ==
    ASSUME NEW x \in Receiver, NEW f \in Kinds \cup {"none", "nid", "packet", "codeword"}
    PROVE  LET y == [x EXCEPT !.out.frame = f]
           IN  /\ y \in Receiver /\ y.out.body = x.out.body
               /\ y.rx = x.rx /\ y.framer = x.framer /\ y.age = x.age
  <1> DEFINE u == [x.out EXCEPT !.frame = f]
  <1>1. x.out \in Outs  BY DEF Receiver
  <1>2. u \in Outs /\ u.body = x.out.body  BY <1>1, OutFields
  <1> HIDE DEF u
  <1>3. LET y == [x EXCEPT !.out = u]
        IN  /\ y \in Receiver /\ y.out = u
            /\ y.rx = x.rx /\ y.framer = x.framer /\ y.age = x.age
    BY <1>2, PutOut
  <1> QED  BY <1>2, <1>3 DEF u

LEMMA PutBody ==
    ASSUME NEW x \in Receiver, NEW b \in {"whole", "cut"}
    PROVE  LET y == [x EXCEPT !.out.body = b]
           IN  /\ y \in Receiver /\ y.out.body = b
               /\ y.rx = x.rx /\ y.framer = x.framer /\ y.age = x.age
  <1> DEFINE u == [x.out EXCEPT !.body = b]
  <1>1. x.out \in Outs  BY DEF Receiver
  <1>2. u \in Outs /\ u.body = b  BY <1>1, OutFields
  <1> HIDE DEF u
  <1>3. LET y == [x EXCEPT !.out = u]
        IN  /\ y \in Receiver /\ y.out = u
            /\ y.rx = x.rx /\ y.framer = x.framer /\ y.age = x.age
    BY <1>2, PutOut
  <1> QED  BY <1>2, <1>3 DEF u

LEMMA PutQ ==
    ASSUME NEW x \in Receiver, NEW q \in {0, x.age.q}
    PROVE  LET y == [x EXCEPT !.age.q = q]
           IN  /\ y \in Receiver
               /\ y.rx = x.rx /\ y.framer = x.framer /\ y.out = x.out
  <1> DEFINE u == [x.age EXCEPT !.q = q]
  <1>1. x.age \in Ages  BY DEF Receiver
  <1>2. u \in Ages  BY <1>1, AgeFields
  <1> HIDE DEF u
  <1>3. LET y == [x EXCEPT !.age = u]
        IN  /\ y \in Receiver /\ y.age = u
            /\ y.rx = x.rx /\ y.framer = x.framer /\ y.out = x.out
    BY <1>2, PutAge
  <1> QED  BY <1>3 DEF u

LEMMA PutBits ==
    ASSUME NEW x \in Receiver, NEW n \in Nat
    PROVE  LET y == [x EXCEPT !.framer.bits = n]
           IN  /\ y \in Receiver
               /\ y.framer.bits = n /\ y.framer.duid = x.framer.duid
               /\ y.framer.rest = x.framer.rest
               /\ y.rx = x.rx /\ y.age = x.age /\ y.out = x.out
  <1> DEFINE u == [x.framer EXCEPT !.bits = n]
  <1>1. x.framer \in Framer  BY DEF Receiver
  <1>2. u \in Framer /\ u.bits = n /\ u.duid = x.framer.duid /\ u.rest = x.framer.rest
    BY <1>1, FramerFields
  <1> HIDE DEF u
  <1>3. LET y == [x EXCEPT !.framer = u]
        IN  /\ y \in Receiver /\ y.framer = u
            /\ y.rx = x.rx /\ y.age = x.age /\ y.out = x.out
    BY <1>2, PutFramer
  <1> QED  BY <1>2, <1>3 DEF u

LEMMA PutRest ==
    ASSUME NEW x \in Receiver, NEW t \in {"due", "loaded"}
    PROVE  LET y == [x EXCEPT !.framer.rest = t]
           IN  /\ y \in Receiver
               /\ y.framer.rest = t /\ y.framer.duid = x.framer.duid
               /\ y.framer.bits = x.framer.bits
               /\ y.rx = x.rx /\ y.age = x.age /\ y.out = x.out
  <1> DEFINE u == [x.framer EXCEPT !.rest = t]
  <1>1. x.framer \in Framer /\ x.framer.bits \in Nat  BY DEF Receiver, Framer
  <1>2. u \in Framer /\ u.rest = t /\ u.duid = x.framer.duid /\ u.bits = x.framer.bits
    BY <1>1, FramerFields
  <1> HIDE DEF u
  <1>3. LET y == [x EXCEPT !.framer = u]
        IN  /\ y \in Receiver /\ y.framer = u
            /\ y.rx = x.rx /\ y.age = x.age /\ y.out = x.out
    BY <1>2, PutFramer
  <1> QED  BY <1>2, <1>3 DEF u

LEMMA PutDuid ==
    ASSUME NEW x \in Receiver, NEW k \in Kinds
    PROVE  LET y == [x EXCEPT !.framer.duid = k]
           IN  /\ y \in Receiver
               /\ y.framer.duid = k /\ y.framer.bits = x.framer.bits
               /\ y.rx = x.rx /\ y.age = x.age /\ y.out = x.out
  <1> DEFINE u == [x.framer EXCEPT !.duid = k]
  <1>1. x.framer \in Framer /\ x.framer.bits \in Nat  BY DEF Receiver, Framer
  <1>2. u \in Framer /\ u.duid = k /\ u.bits = x.framer.bits
    BY <1>1, FramerFields
  <1> HIDE DEF u
  <1>3. LET y == [x EXCEPT !.framer = u]
        IN  /\ y \in Receiver /\ y.framer = u
            /\ y.rx = x.rx /\ y.age = x.age /\ y.out = x.out
    BY <1>2, PutFramer
  <1> QED  BY <1>2, <1>3 DEF u

LEMMA PutFrag ==
    ASSUME NEW x \in Receiver, NEW n \in Int
    PROVE  LET y == [x EXCEPT !.rx.frag = n]
           IN  /\ y \in Receiver
               /\ y.rx.frag = n /\ y.rx.type = x.rx.type /\ y.rx.until = x.rx.until
               /\ y.framer = x.framer /\ y.age = x.age /\ y.out = x.out
  <1> DEFINE u == [x.rx EXCEPT !.frag = n]
  <1>1. x.rx \in Registers  BY DEF Receiver
  <1>2. u \in Registers /\ u.frag = n /\ u.type = x.rx.type /\ u.until = x.rx.until
    BY <1>1, RegisterFields
  <1> HIDE DEF u
  <1>3. LET y == [x EXCEPT !.rx = u]
        IN  /\ y \in Receiver /\ y.rx = u
            /\ y.framer = x.framer /\ y.age = x.age /\ y.out = x.out
    BY <1>2, PutRx
  <1> QED  BY <1>2, <1>3 DEF u

LEMMA PutCount ==
    ASSUME NEW x \in Receiver, NEW n \in Nat
    PROVE  LET y == [x EXCEPT !.rx.count = n]
           IN  /\ y \in Receiver /\ y.rx.count = n
               /\ y.rx.frag = x.rx.frag /\ y.rx.type = x.rx.type
               /\ y.rx.until = x.rx.until
               /\ y.framer = x.framer /\ y.age = x.age /\ y.out = x.out
  <1> DEFINE u == [x.rx EXCEPT !.count = n]
  <1>1. x.rx \in Registers /\ x.rx.frag \in Int  BY DEF Receiver, Registers
  <1>2. /\ u \in Registers /\ u.count = n /\ u.frag = x.rx.frag
        /\ u.type = x.rx.type /\ u.until = x.rx.until
    BY <1>1, RegisterFields
  <1> HIDE DEF u
  <1>3. LET y == [x EXCEPT !.rx = u]
        IN  /\ y \in Receiver /\ y.rx = u
            /\ y.framer = x.framer /\ y.age = x.age /\ y.out = x.out
    BY <1>2, PutRx
  <1> QED  BY <1>2, <1>3 DEF u

-----------------------------------------------------------------------------
LEMMA CheckTimeoutIsSound ==
    ASSUME NEW x, Sound(x)
    PROVE  /\ Sound(CheckTimeout(x))
           /\ CheckTimeout(x).rx = x.rx /\ CheckTimeout(x).framer = x.framer
  <1> DEFINE y == [x EXCEPT !.age.q = 0]
             z == [y EXCEPT !.out.report = "timeout"]
  <1>1. x \in Receiver  BY DEF Sound
  <1>2. y \in Receiver /\ y.rx = x.rx /\ y.framer = x.framer /\ y.out = x.out
    BY <1>1, PutQ
  <1> HIDE DEF y
  <1>3. z \in Receiver /\ z.rx = y.rx /\ z.framer = y.framer /\ z.out.body = y.out.body
    BY <1>2, PutReport
  <1>4. CheckTimeout(x) = x \/ CheckTimeout(x) = z
    BY DEF CheckTimeout, z, y
  <1> HIDE DEF z
  <1> QED  BY <1>2, <1>3, <1>4 DEF Sound

LEMMA LoadNidIsSound ==
    ASSUME NEW x, Sound(x), NEW nid \in Kinds \cup {"refused"},
           x.rx.type = "P25P1", x.rx.frag = Nid
    PROVE  Sound(LoadNid(x, nid)) /\ Drained(LoadNid(x, nid).rx)
  <1> DEFINE n == 2 * Nid
             u == [x EXCEPT !.framer.bits = n]
             v == [u EXCEPT !.out.frame = "nid"]
             y == CheckTimeout(v)
             len == BodyLen[nid]
             a == [y EXCEPT !.rx.frag = len]
             b == [a EXCEPT !.framer.duid = nid]
             z == [b EXCEPT !.framer.rest = "due"]
  <1>1. x \in Receiver /\ x.out.body # "again"  BY DEF Sound
  <1>2. n \in Nat /\ n <= FrameBits  BY SMT, ModeTypes
  <1>3. /\ u \in Receiver /\ u.framer.bits = n
        /\ u.rx = x.rx /\ u.out = x.out
    BY <1>1, <1>2, PutBits
  <1>4. LoadNid(x, nid) = IF nid = "refused" THEN LoseLock(y) ELSE z
    BY DEF LoadNid, Nid
  <1> HIDE DEF u
  <1>5. /\ v \in Receiver /\ v.rx = u.rx /\ v.framer = u.framer
        /\ v.out.body = u.out.body
    BY <1>3, PutFrame
  <1> HIDE DEF v, n
  <1>6. Sound(v)
    BY <1>1, <1>2, <1>3, <1>5 DEF Sound, Fits
  <1>7. Sound(y) /\ y.rx = x.rx /\ y.framer.bits = n /\ y \in Receiver
    BY <1>3, <1>5, <1>6, CheckTimeoutIsSound DEF Sound
  <1> HIDE DEF y
  <1>8. CASE nid = "refused"
    BY <1>4, <1>7, <1>8, LoseLockIsSound
  <1>9. CASE nid \in Kinds /\ nid # "refused"
    <2>1. len \in Int /\ n + 2 * len <= FrameBits
      BY SMT, <1>9, ModeTypes DEF n
    <2> HIDE DEF len
    <2>2. /\ a \in Receiver /\ a.rx.frag = len /\ a.rx.type = "P25P1"
          /\ a.framer = y.framer /\ a.out = y.out
      BY <1>7, <2>1, PutFrag
    <2> HIDE DEF a
    <2>3. /\ b \in Receiver /\ b.framer.duid = nid /\ b.framer.bits = n
          /\ b.rx = a.rx /\ b.out = a.out
      BY <1>7, <1>9, <2>2, PutDuid
    <2> HIDE DEF b
    <2>4. /\ z \in Receiver /\ z.framer.rest = "due" /\ z.framer.duid = nid
          /\ z.framer.bits = n /\ z.rx = b.rx /\ z.out = b.out
      BY <2>3, PutRest
    <2> HIDE DEF z
    <2>5. z.out.body # "again"  BY <1>7, <2>2, <2>3, <2>4 DEF Sound
    <2>6. z.rx.frag = len /\ z.rx.type = "P25P1"  BY <2>2, <2>3, <2>4
    <2>7. Fits(z.rx, z.framer)
      BY <1>2, <1>9, <2>1, <2>4, <2>6 DEF Fits
    <2> QED  BY <1>4, <1>9, <2>4, <2>5, <2>6, <2>7 DEF Sound, Drained
  <1> QED  BY <1>8, <1>9

LEMMA LoadBodyIsSound ==
    ASSUME NEW x, Sound(x), NEW ok \in BOOLEAN,
           x.rx.type = "P25P1", x.rx.frag # Nid
    PROVE  Sound(LoadBody(x, ok)) /\ Drained(LoadBody(x, ok).rx)
  <1> DEFINE n == IF x.rx.frag > 0 THEN x.rx.frag ELSE 0
             m == x.framer.bits + 2 * n
             w == CASE x.framer.rest = "loaded" -> "again"
                    [] n < BodyLen[x.framer.duid] -> "cut"
                    [] OTHER -> "whole"
             u == [x EXCEPT !.framer.bits = m]
             v == [u EXCEPT !.framer.rest = "loaded"]
             a == [v EXCEPT !.out.frame = x.framer.duid]
             b == [a EXCEPT !.out.body = w]
             q == IF ok THEN 0 ELSE b.age.q
             c == [b EXCEPT !.age.q = q]
             z == [c EXCEPT !.rx.frag = Nid]
  <1>1. /\ x \in Receiver /\ x.framer.bits \in Nat /\ x.rx.frag \in Int
        /\ x.framer.duid \in Kinds /\ x.framer.rest = "due"
        /\ x.framer.bits + 2 * x.rx.frag <= FrameBits /\ x.framer.bits <= FrameBits
    BY DEF Sound, Receiver, Registers, Framer, Fits
  <1>2. m \in Nat /\ m <= FrameBits
    BY SMT, <1>1, ModeTypes
  <1>3. w \in {"whole", "cut"}
    BY <1>1
  <1>4. LoadBody(x, ok) = CheckTimeout(z)
    BY DEF LoadBody, Nid
  <1> HIDE DEF m, w
  <1>5. /\ u \in Receiver /\ u.framer.bits = m /\ u.rx = x.rx
    BY <1>1, <1>2, PutBits
  <1> HIDE DEF u
  <1>6. /\ v \in Receiver /\ v.framer.bits = m /\ v.rx = x.rx
    BY <1>5, PutRest
  <1> HIDE DEF v
  <1>7. /\ a \in Receiver /\ a.framer.bits = m /\ a.rx = x.rx
    BY <1>1, <1>6, PutFrame
  <1> HIDE DEF a
  <1>8. /\ b \in Receiver /\ b.framer.bits = m /\ b.rx = x.rx /\ b.out.body = w
    BY <1>3, <1>7, PutBody
  <1> HIDE DEF b
  <1>9. q \in {0, b.age.q}  OBVIOUS
  <1> HIDE DEF q
  <1>10. /\ c \in Receiver /\ c.framer.bits = m /\ c.rx = x.rx /\ c.out.body = w
    BY <1>8, <1>9, PutQ
  <1> HIDE DEF c
  <1>11. Nid \in Int  BY ModeTypes
  <1>12. /\ z \in Receiver /\ z.framer.bits = m /\ z.out.body = w
         /\ z.rx.frag = Nid /\ z.rx.type = "P25P1"
    BY <1>10, <1>11, PutFrag
  <1> HIDE DEF z
  <1>13. Sound(z)
    BY <1>2, <1>3, <1>12 DEF Sound, Fits
  <1> QED  BY <1>4, <1>12, <1>13, CheckTimeoutIsSound DEF Drained

(* A register file r is replaced by one of the same lock, or of none. *)
LEMMA PutUntil ==
    ASSUME NEW r \in Registers, NEW c \in {0, 1}, NEW t \in 0 .. CounterMod - 1
    PROVE  LET s == [r EXCEPT !.until[c] = t]
           IN  /\ s \in Registers /\ s.type = r.type /\ s.frag = r.frag
  <1> DEFINE u == [r.until EXCEPT ![c] = t]
  <1>1. r.until \in [{0, 1} -> 0 .. CounterMod - 1]  BY SMT DEF Registers
  <1>2. u \in [{0, 1} -> 0 .. CounterMod - 1]  BY SMT, <1>1
  <1> HIDE DEF u
  <1>3. LET s == [r EXCEPT !.until = u]
        IN  /\ s \in Registers /\ s.type = r.type /\ s.frag = r.frag
    BY SMT, <1>2 DEF Registers
  <1> QED  BY <1>3 DEF u

LEMMA DmrFrameIsSound ==
    ASSUME NEW x, Sound(x), NEW sync \in BOOLEAN, NEW voice \in BOOLEAN, NEW c \in {0, 1},
           x.rx.type = "DMR"
    PROVE  Sound(DmrFrame(x, sync, voice, c)) /\ Drained(DmrFrame(x, sync, voice, c).rx)
  <1> DEFINE e == After(x.rx, "DMR")
             r == IF sync THEN [x.rx EXCEPT !.exp = e] ELSE x.rx
             mine == \/ c = 0 /\ r.mask \in {1, 3}
                     \/ c = 1 /\ r.mask \in {2, 3}
             d == After(r, "DMR")
             u == IF voice /\ mine THEN [r EXCEPT !.until[c] = d] ELSE r
             mute == ~voice \/ u.sc >= u.until[c]
             s == IF mute THEN [u EXCEPT !.until[c] = 0] ELSE u
             f == IF mute THEN "none" ELSE "codeword"
             y == [x EXCEPT !.rx = s]
             z == [y EXCEPT !.out.frame = f]
  <1>1. /\ x \in Receiver /\ x.rx \in Registers /\ x.framer \in Framer
    BY DEF Sound, Receiver
  <1>2. e \in 0 .. CounterMod - 1  BY <1>1, AfterInRange DEF Types
  <1>3. DmrFrame(x, sync, voice, c) = z
    BY DEF DmrFrame
  <1>4. f \in Kinds \cup {"none", "nid", "packet", "codeword"}  OBVIOUS
  <1> HIDE DEF e, f
  <1>5. r \in Registers /\ r.type = "DMR" /\ r.frag = x.rx.frag
    <2>1. CASE sync  BY <1>1, <1>2, <2>1, RegisterFields
    <2>2. CASE ~sync  BY <1>1, <2>2
    <2> QED  BY <2>1, <2>2
  <1> HIDE DEF r
  <1>6. d \in 0 .. CounterMod - 1  BY <1>5, AfterInRange DEF Types
  <1> HIDE DEF d
  <1>7. u \in Registers /\ u.type = "DMR" /\ u.frag = x.rx.frag
    <2>1. CASE voice /\ mine  BY <1>5, <1>6, <2>1, PutUntil
    <2>2. CASE ~(voice /\ mine)  BY <1>5, <2>2
    <2> QED  BY <2>1, <2>2
  <1> HIDE DEF u
  <1>8. s \in Registers /\ s.type = "DMR" /\ s.frag = x.rx.frag
    <2>1. 0 \in 0 .. CounterMod - 1  BY SMT, ModeTypes
    <2>2. CASE mute  BY <1>7, <2>1, <2>2, PutUntil
    <2>3. CASE ~mute  BY <1>7, <2>3
    <2> QED  BY <2>2, <2>3
  <1> HIDE DEF s
  <1>9. /\ y \in Receiver /\ y.rx = s /\ y.framer = x.framer /\ y.out = x.out
    BY <1>1, <1>8, PutRx
  <1> HIDE DEF y
  <1>10. z \in Receiver /\ z.rx = s /\ z.framer = x.framer /\ z.out.body = x.out.body
    BY <1>4, <1>9, PutFrame
  <1> HIDE DEF z
  <1>11. Fits(s, x.framer)  BY <1>8 DEF Sound, Fits
  <1> QED  BY <1>3, <1>8, <1>10, <1>11 DEF Sound, Drained

LEMMA DispatchIsSound ==
    ASSUME NEW x, Sound(x), Drained(x.rx),
           NEW nids \in SUBSET (Kinds \cup {"refused"}), NEW decoded \in SUBSET BOOLEAN,
           NEW z \in Dispatch(x, nids, decoded)
    PROVE  Sound(z) /\ Drained(z.rx)
  <1>1. x \in Receiver /\ x.rx.type \in Types
    BY DEF Sound, Receiver, Registers
  <1>2. CASE x.rx.type = "NONE"
    <2>1. Dispatch(x, nids, decoded) = {x}  BY <1>2 DEF Dispatch
    <2> QED  BY <2>1
  <1>3. CASE x.rx.type = "P25P1" /\ x.rx.frag = Nid
    <2>1. Dispatch(x, nids, decoded) = {LoadNid(x, nid) : nid \in nids}
      BY <1>3 DEF Dispatch, Nid
    <2> QED  BY <1>3, <2>1, LoadNidIsSound
  <1>4. CASE x.rx.type = "P25P1" /\ x.rx.frag # Nid
    <2> DEFINE oks == IF x.framer.duid = "HDU" THEN {FALSE}
                      ELSE IF x.framer.duid \in {"TSBK", "PDU"} THEN decoded ELSE {TRUE}
    <2>1. Dispatch(x, nids, decoded) = {LoadBody(x, ok) : ok \in oks}
      BY <1>4 DEF Dispatch, Nid
    <2>2. oks \subseteq BOOLEAN  OBVIOUS
    <2> HIDE DEF oks
    <2> QED  BY <1>4, <2>1, <2>2, LoadBodyIsSound
  <1>5. CASE x.rx.type = "P25P2"
    <2> DEFINE y == [x EXCEPT !.age.q = 0]
               w == [y EXCEPT !.out.frame = "packet"]
    <2>1. z = w  BY <1>5 DEF Dispatch
    <2>2. y \in Receiver /\ y.rx = x.rx /\ y.framer = x.framer /\ y.out = x.out
      BY <1>1, PutQ
    <2> HIDE DEF y
    <2>3. w \in Receiver /\ w.rx = x.rx /\ w.framer = x.framer /\ w.out.body = x.out.body
      BY <2>2, PutFrame
    <2> HIDE DEF w
    <2> QED  BY <2>1, <2>3 DEF Sound
  <1>6. CASE x.rx.type = "DMR"
    <2>1. Dispatch(x, nids, decoded) =
            {DmrFrame(x, sync, voice, c) : sync \in decoded, voice \in BOOLEAN, c \in Busy}
      BY <1>6 DEF Dispatch
    <2>2. Busy \subseteq {0, 1}  BY RxSyncAssumption DEF RxSyncAssumption
    <2> QED  BY <1>6, <2>1, <2>2, DmrFrameIsSound
  <1>7. CASE x.rx.type \in {"DSTAR", "YSF"}
    <2>1. PICK f \in {"codeword", "none"} : z = [x EXCEPT !.out.frame = f]
      <3>1. x.rx.type = "DSTAR" => Dispatch(x, nids, decoded) =
                                     {[x EXCEPT !.out.frame = "codeword"]}
        BY DEF Dispatch
      <3>2. x.rx.type = "YSF" => Dispatch(x, nids, decoded) =
                                   {[x EXCEPT !.out.frame = f] : f \in {"codeword", "none"}}
        BY DEF Dispatch
      <3> QED  BY <1>7, <3>1, <3>2
    <2> DEFINE w == [x EXCEPT !.out.frame = f]
    <2>2. w \in Receiver /\ w.rx = x.rx /\ w.framer = x.framer /\ w.out.body = x.out.body
      BY <1>1, PutFrame
    <2> HIDE DEF w
    <2> QED  BY <2>1, <2>2 DEF Sound, w
  <1> QED  BY <1>1, <1>2, <1>3, <1>4, <1>5, <1>6, <1>7 DEF Types

-----------------------------------------------------------------------------
LEMMA AdoptFits ==
    ASSUME NEW r \in Registers, NEW t \in Types \ {"NONE"}, NEW f, Fits(r, f)
    PROVE  Adopt(r, t) \in Registers /\ Adopt(r, t).type = t /\ Fits(Adopt(r, t), f)
  <1>1. CASE r.type = t  BY <1>1 DEF Adopt
  <1>2. CASE r.type # t
    <2> DEFINE e == After(r, t)
               k == SyncEnd(t)
               n == Mode[t].frag
               a == [r EXCEPT !.type = t]
               b == [a EXCEPT !.exp = e]
               c == [b EXCEPT !.count = k]
               d == [c EXCEPT !.frag = n]
    <2>1. Adopt(r, t) = d  BY <1>2 DEF Adopt
    <2>2. e \in 0 .. CounterMod - 1  BY AfterInRange
    <2>3. k \in Nat /\ n \in Nat /\ n \in Int  BY ModeTypes
    <2>4. a \in Registers /\ a.type = t  BY RegisterFields
    <2> HIDE DEF a, e
    <2>5. b \in Registers /\ b.type = t  BY <2>2, <2>4, RegisterFields
    <2> HIDE DEF b, k
    <2>6. c \in Registers /\ c.type = t  BY <2>3, <2>5, RegisterFields
    <2> HIDE DEF c
    <2>7. d \in Registers /\ d.type = t /\ d.frag = n  BY <2>3, <2>6, RegisterFields
    <2> HIDE DEF d
    <2> QED  BY <2>1, <2>7 DEF Fits, Nid
  <1> QED  BY <1>1, <1>2

LEMMA AlignFits ==
    ASSUME NEW r \in Registers, r.type # "NONE", NEW f \in Framer, Fits(r, f)
    PROVE  /\ Align(r) \in Registers /\ Fits(Align(r), f) /\ Drained(Align(r))
  <1> DEFINE n == r.count - SyncEnd(r.type)
             m == IF r.thr = 2 THEN 2 ELSE r.thr + 1
             a == [r EXCEPT !.frag = n]
             b == Reset(r)
             c == [r EXCEPT !.thr = m]
             s == CASE Early(r) -> a [] Slipped(r) -> b [] OTHER -> c
             e == After(s, s.type)
             z == [s EXCEPT !.exp = e]
  <1>1. /\ r.type \in Types /\ r.count \in Nat /\ r.frag \in Int
        /\ r.thr \in 0 .. 2 /\ r.mask \in Masks /\ f.bits \in Nat
    BY DEF Registers, Framer
  <1>2. n \in Int /\ m \in 0 .. 2 /\ n <= r.count
    BY SMT, <1>1, ModeTypes
  <1>3. Align(r) = z  BY DEF Align
  <1>4. /\ a \in Registers /\ a.type = r.type /\ a.frag = n
        /\ c \in Registers /\ c.type = r.type /\ c.frag = r.frag
    BY <1>2, RegisterFields
  <1>5. b \in Registers /\ b.type = "NONE" /\ b.until = Muted
    BY <1>1, ResetIsSound
  <1>6. Early(r) => Fits(a, f)
    <2> SUFFICES ASSUME Early(r) PROVE Fits(a, f)
      OBVIOUS
    <2>1. r.frag # Mode[r.type].frag /\ r.count < r.frag  BY DEF Early
    <2>2. r.type = "P25P1"  BY <2>1 DEF Fits
    <2>3. f.duid \in Kinds /\ f.rest = "due" /\ f.bits + 2 * r.frag <= FrameBits
          /\ f.bits <= FrameBits
      BY <2>1, <2>2 DEF Fits, Nid
    <2>4. f.bits + 2 * n <= FrameBits
      BY SMT, <1>1, <1>2, <2>1, <2>3, ModeTypes
    <2> QED  BY <1>4, <2>2, <2>3, <2>4 DEF Fits
  <1>7. Fits(b, f)  BY <1>5 DEF Fits
  <1>8. Fits(c, f)  BY <1>4 DEF Fits
  <1> HIDE DEF a, b, c, n, m
  <1>9. s \in Registers /\ Fits(s, f) /\ Drained(s)
    BY <1>4, <1>5, <1>6, <1>7, <1>8 DEF Drained
  <1> HIDE DEF s
  <1>10. e \in 0 .. CounterMod - 1  BY <1>9, AfterInRange DEF Registers
  <1> HIDE DEF e
  <1>11. /\ z \in Registers /\ z.type = s.type /\ z.frag = s.frag /\ z.until = s.until
    BY <1>9, <1>10, RegisterFields
  <1> HIDE DEF z
  <1> QED  BY <1>3, <1>9, <1>11 DEF Fits, Drained

(* One symbol with a recognised sync, or without. *)
LEMMA SyncedIsSound ==
    ASSUME NEW x, Sound(x), NEW t \in Types \ {"NONE"}
    PROVE  LET s == Synced(x, t)
           IN  Sound(s.x) /\ Drained(s.x.rx) /\ s.excess \in Nat
  <1> DEFINE n == x.rx.count + 1
             r == [x.rx EXCEPT !.count = n]
             a == Adopt(r, t)
             g == Align(a)
             u == [x EXCEPT !.rx = g]
             h == IF Slipped(a) THEN Fresh ELSE u.age
             v == [u EXCEPT !.age = h]
             k == IF x.rx.type # t /\ t \in {"P25P1", "P25P2"} THEN "sync" ELSE v.out.report
             w == [v EXCEPT !.out.report = k]
             e == IF Early(a) THEN SyncEnd(t) ELSE 0
  <1>1. /\ x \in Receiver /\ x.rx \in Registers /\ x.framer \in Framer
        /\ x.age \in Ages /\ n \in Nat
    BY DEF Sound, Receiver, Registers
  <1>2. Synced(x, t) = [x |-> w, excess |-> e]  BY DEF Synced
  <1>3. e \in Nat  BY ModeTypes
  <1> HIDE DEF e, n
  <1>4. r \in Registers /\ r.type = x.rx.type /\ r.frag = x.rx.frag
    BY <1>1, RegisterFields
  <1>5. Fits(r, x.framer)  BY <1>4 DEF Sound, Fits
  <1> HIDE DEF r
  <1>6. a \in Registers /\ a.type = t /\ Fits(a, x.framer)
    BY <1>4, <1>5, AdoptFits
  <1> HIDE DEF a
  <1>7. g \in Registers /\ Fits(g, x.framer) /\ Drained(g)
    BY <1>1, <1>6, AlignFits
  <1> HIDE DEF g
  <1>8. /\ u \in Receiver /\ u.rx = g /\ u.framer = x.framer
        /\ u.age = x.age /\ u.out = x.out
    BY <1>1, <1>7, PutRx
  <1> HIDE DEF u
  <1>9. h \in Ages  BY <1>1, <1>8, AgeFields
  <1> HIDE DEF h
  <1>10. v \in Receiver /\ v.rx = g /\ v.framer = x.framer /\ v.out = x.out
    BY <1>8, <1>9, PutAge
  <1> HIDE DEF v
  <1>11. k \in {"none", "timeout", "sync"}  BY <1>10 DEF Receiver, Outs
  <1> HIDE DEF k
  <1>12. w \in Receiver /\ w.rx = g /\ w.framer = x.framer /\ w.out.body = x.out.body
    BY <1>10, <1>11, PutReport
  <1> HIDE DEF w
  <1>13. Sound(w) /\ Drained(w.rx)  BY <1>7, <1>12 DEF Sound
  <1> QED  BY <1>2, <1>3, <1>13

LEMMA UnsyncedIsSound ==
    ASSUME NEW x, Sound(x)
    PROVE  LET s == Unsynced(x)
           IN  /\ Sound(s.x) /\ (Drained(x.rx) => Drained(s.x.rx))
               /\ s.x.rx.type = x.rx.type /\ s.excess \in Nat
  <1> DEFINE n == x.rx.count + 1
             y == [x EXCEPT !.rx.count = n]
  <1>1. x \in Receiver /\ n \in Nat  BY DEF Sound, Receiver, Registers
  <1>2. Unsynced(x) = [x |-> y, excess |-> 0]  BY DEF Unsynced
  <1> HIDE DEF n
  <1>3. /\ y \in Receiver /\ y.rx.frag = x.rx.frag /\ y.rx.type = x.rx.type
        /\ y.rx.until = x.rx.until /\ y.framer = x.framer /\ y.out = x.out
    BY <1>1, PutCount
  <1> HIDE DEF y
  <1>4. Sound(y) /\ (Drained(x.rx) => Drained(y.rx))
    BY <1>3 DEF Sound, Fits, Drained
  <1> QED  BY <1>2, <1>3, <1>4

LEMMA SearchIsSound ==
    ASSUME NEW x, Sound(x)
    PROVE  Sound(Search(x)) /\ Search(x).rx = x.rx
  <1> DEFINE y == [x EXCEPT !.age = Fresh]
             z == [y EXCEPT !.out.report = "timeout"]
  <1>1. x \in Receiver /\ x.age \in Ages  BY DEF Sound, Receiver
  <1>2. Search(x) = x \/ Search(x) = z  BY DEF Search
  <1>3. Fresh \in Ages  BY <1>1, AgeFields
  <1>4. y \in Receiver /\ y.rx = x.rx /\ y.framer = x.framer /\ y.out = x.out
    BY <1>1, <1>3, PutAge
  <1> HIDE DEF y
  <1>5. z \in Receiver /\ z.rx = x.rx /\ z.framer = x.framer /\ z.out.body = x.out.body
    BY <1>4, PutReport
  <1> HIDE DEF z
  <1> QED  BY <1>2, <1>5 DEF Sound

LEMMA CollectedIsSound ==
    ASSUME NEW x, Sound(x), Drained(x.rx), NEW n \in Nat,
           NEW nids \in SUBSET (Kinds \cup {"refused"}), NEW decoded \in SUBSET BOOLEAN,
           NEW z \in Collected([x |-> x, excess |-> n], nids, decoded)
    PROVE  Sound(z) /\ Drained(z.rx)
  <1> DEFINE y == [x EXCEPT !.rx.count = n]
  <1>1. x \in Receiver  BY DEF Sound
  <1>2. /\ y \in Receiver /\ y.rx.frag = x.rx.frag /\ y.rx.type = x.rx.type
        /\ y.rx.until = x.rx.until /\ y.framer = x.framer /\ y.out = x.out
    BY <1>1, PutCount
  <1>3. z = LoseLock(x) \/ z = x \/ z \in Dispatch(y, nids, decoded)
    BY DEF Collected
  <1> HIDE DEF y
  <1>4. Sound(y) /\ Drained(y.rx)  BY <1>2 DEF Sound, Fits, Drained
  <1> QED  BY <1>3, <1>4, LoseLockIsSound, DispatchIsSound

LEMMA RxSymIsSound ==
    ASSUME NEW x, Sound(x), NEW t \in Types, NEW dist,
           NEW nids \in SUBSET (Kinds \cup {"refused"}), NEW decoded \in SUBSET BOOLEAN,
           NEW z \in RxSym(x, t, dist, nids, decoded)
    PROVE  Sound(z) /\ (Drained(x.rx) => Drained(z.rx))
  <1> DEFINE sc == (x.rx.sc + 1) % CounterMod
             l == Later(x.age)
             r == [x.rx EXCEPT !.sc = sc]
             u == [x EXCEPT !.rx = r]
             y == [u EXCEPT !.age = Later(u.age)]
             i == [x EXCEPT !.age = l]
             s == Synced(y, t)
             n == Unsynced(y)
  <1>1. /\ x \in Receiver /\ x.rx \in Registers /\ x.age \in Ages
        /\ x.rx.sc \in Nat
    BY DEF Sound, Receiver, Registers
  <1>2. sc \in 0 .. CounterMod - 1  BY SMT, <1>1, ModeTypes
  <1>3. l \in Ages  BY <1>1, AgeFields
  <1>4. \/ z = i
        \/ t # "NONE" /\ z \in Collected(s, nids, decoded)
        \/ x.rx.type = "NONE" /\ z = Search(y)
        \/ x.rx.type # "NONE" /\ z \in Collected(n, nids, decoded)
    BY DEF RxSym
  <1> HIDE DEF sc, l
  <1>5. /\ i \in Receiver /\ i.rx = x.rx /\ i.framer = x.framer /\ i.out = x.out
    BY <1>1, <1>3, PutAge
  <1> HIDE DEF i
  <1>6. /\ r \in Registers /\ r.frag = x.rx.frag /\ r.type = x.rx.type
        /\ r.until = x.rx.until
    BY <1>1, <1>2, RegisterFields
  <1> HIDE DEF r
  <1>7. /\ u \in Receiver /\ u.rx = r /\ u.framer = x.framer
        /\ u.age = x.age /\ u.out = x.out
    BY <1>1, <1>6, PutRx
  <1> HIDE DEF u
  <1>8. Later(u.age) \in Ages  BY <1>1, <1>7, AgeFields
  <1>9. /\ y \in Receiver /\ y.rx = r /\ y.framer = x.framer /\ y.out = x.out
    BY <1>7, <1>8, PutAge
  <1> HIDE DEF y
  <1>10. Sound(y) /\ (Drained(x.rx) => Drained(y.rx))
    BY <1>6, <1>9 DEF Sound, Fits, Drained
  <1>11. CASE z = i  BY <1>5, <1>11 DEF Sound
  <1>12. CASE t # "NONE" /\ z \in Collected(s, nids, decoded)
    <2>1. Sound(s.x) /\ Drained(s.x.rx) /\ s.excess \in Nat
      BY <1>10, <1>12, SyncedIsSound
    <2>2. s = [x |-> s.x, excess |-> s.excess]  BY DEF Synced
    <2> HIDE DEF s
    <2> QED  BY <1>12, <2>1, <2>2, CollectedIsSound
  <1>13. CASE x.rx.type = "NONE" /\ z = Search(y)
    BY <1>10, <1>13, SearchIsSound
  <1>14. CASE x.rx.type # "NONE" /\ z \in Collected(n, nids, decoded)
    <2>1. /\ Sound(n.x) /\ n.x.rx.type = x.rx.type /\ n.excess \in Nat
      BY <1>6, <1>9, <1>10, UnsyncedIsSound
    <2>2. n = [x |-> n.x, excess |-> n.excess]  BY DEF Unsynced
    <2> HIDE DEF n
    <2>3. Drained(n.x.rx)  BY <1>14, <2>1 DEF Drained
    <2> QED  BY <1>14, <2>1, <2>2, <2>3, CollectedIsSound
  <1> QED  BY <1>4, <1>11, <1>12, <1>13, <1>14

-----------------------------------------------------------------------------
(* sync_reset() of the message thread: the stores before the symbol and    *)
(* those after it.                                                         *)

Within(i, from, to) == from <= i /\ i <= to

LEMMA StoreFields ==
    ASSUME NEW r \in Registers, NEW from \in 1 .. 8, NEW to \in 0 .. 7
    PROVE  LET s == Store(r, from, to)
           IN  /\ s \in Registers
               /\ s.type = IF Within(5, from, to) THEN "NONE" ELSE r.type
               /\ s.frag = IF Within(6, from, to) THEN Mode[s.type].frag ELSE r.frag
               /\ s.until = IF Within(7, from, to) THEN Muted ELSE r.until
  <1> DEFINE some == {Stores[i] : i \in from .. to}
             z == Reset(r)
             w == [f \in DOMAIN r |-> IF f \in some THEN z[f] ELSE r[f]]
             n == IF "frag" \in some THEN Mode[w.type].frag ELSE w.frag
             s == [w EXCEPT !.frag = n]
  <1>1. /\ "mask" \notin some
        /\ "type" \in some <=> Within(5, from, to)
        /\ "frag" \in some <=> Within(6, from, to)
        /\ "until" \in some <=> Within(7, from, to)
    BY SMT DEF Stores, Within
  <1>2. /\ z \in Registers /\ z.type = "NONE" /\ z.frag = 0 /\ z.until = Muted
    BY ResetIsSound DEF Registers
  <1>3. Store(r, from, to) = s  BY DEF Store
  <1> HIDE DEF some, z
  <1>4. /\ w \in Registers
        /\ w.type = IF "type" \in some THEN "NONE" ELSE r.type
        /\ w.until = IF "until" \in some THEN Muted ELSE r.until
        /\ "frag" \notin some => w.frag = r.frag
    BY SMT, <1>2 DEF Registers
  <1> HIDE DEF w
  <1>5. n \in Int  BY <1>4, ModeTypes DEF Registers
  <1>6. n = IF "frag" \in some THEN Mode[w.type].frag ELSE r.frag  BY <1>4
  <1> HIDE DEF n
  <1>7. s \in Registers /\ s.type = w.type /\ s.until = w.until /\ s.frag = n
    BY <1>4, <1>5, RegisterFields
  <1> HIDE DEF s
  <1> QED  BY <1>1, <1>3, <1>4, <1>6, <1>7

LEMMA StoreBefore ==
    ASSUME NEW r \in Registers, NEW f, Fits(r, f), NEW n \in 0 .. 7
    PROVE  /\ Store(r, 1, n) \in Registers /\ Fits(Store(r, 1, n), f)
           /\ n = 7 => Drained(Store(r, 1, n))
  <1> DEFINE s == Store(r, 1, n)
  <1>1. /\ s \in Registers
        /\ s.type = IF n >= 5 THEN "NONE" ELSE r.type
        /\ n < 6 => s.frag = r.frag
        /\ n = 7 => s.until = Muted
    <2>1. /\ Within(5, 1, n) <=> n >= 5
          /\ n < 6 => ~ Within(6, 1, n)
          /\ n = 7 => Within(7, 1, n)
      BY SMT DEF Within
    <2>2. 1 \in 1 .. 8  OBVIOUS
    <2>3. /\ s \in Registers
          /\ s.type = IF Within(5, 1, n) THEN "NONE" ELSE r.type
          /\ s.frag = IF Within(6, 1, n) THEN Mode[s.type].frag ELSE r.frag
          /\ s.until = IF Within(7, 1, n) THEN Muted ELSE r.until
      BY <2>2, StoreFields, SMTT(60)
    <2> HIDE DEF s
    <2> QED  BY <2>1, <2>3
  <1> HIDE DEF s
  <1>2. Fits(s, f)
    <2>1. CASE n >= 5  BY <1>1, <2>1 DEF Fits
    <2>2. CASE n < 5   BY <1>1, <2>2 DEF Fits
    <2> QED  BY <2>1, <2>2
  <1> QED  BY <1>1, <1>2 DEF Drained, s

LEMMA StoreAfter ==
    ASSUME NEW r \in Registers, NEW f, Fits(r, f), NEW n \in 0 .. 7,
           n = 7 => Drained(r)
    PROVE  LET s == Store(r, n + 1, 7)
           IN  s \in Registers /\ Fits(s, f) /\ Drained(s)
  <1> DEFINE s == Store(r, n + 1, 7)
  <1>1. /\ s \in Registers
        /\ s.type = IF n < 5 THEN "NONE" ELSE r.type
        /\ s.frag = IF n < 6 THEN Mode[s.type].frag ELSE r.frag
        /\ s.until = IF n < 7 THEN Muted ELSE r.until
    <2> DEFINE from == n + 1
    <2>1. /\ from \in 1 .. 8 /\ 7 \in 0 .. 7
          /\ Within(5, from, 7) <=> n < 5
          /\ Within(6, from, 7) <=> n < 6
          /\ Within(7, from, 7) <=> n < 7
      BY SMT DEF Within
    <2>2. s = Store(r, from, 7)  OBVIOUS
    <2> HIDE DEF s, from
    <2>3. /\ s \in Registers
          /\ s.type = IF Within(5, from, 7) THEN "NONE" ELSE r.type
          /\ s.frag = IF Within(6, from, 7) THEN Mode[s.type].frag ELSE r.frag
          /\ s.until = IF Within(7, from, 7) THEN Muted ELSE r.until
      BY <2>1, <2>2, StoreFields, SMTT(60)
    <2> QED  BY <2>1, <2>3
  <1> HIDE DEF s
  <1>2. Fits(s, f)
    <2>1. CASE n < 5   BY <1>1, <2>1 DEF Fits
    <2>2. CASE n = 5   BY <1>1, <2>2 DEF Fits, Nid
    <2>3. CASE n >= 6  BY <1>1, <2>3 DEF Fits
    <2> QED  BY <2>1, <2>2, <2>3
  <1>3. Drained(s)
    <2>1. CASE n < 7  BY <1>1, <2>1 DEF Drained
    <2>2. CASE n = 7  BY <1>1, <2>2 DEF Drained
    <2> QED  BY <2>1, <2>2
  <1> QED  BY <1>1, <1>2, <1>3 DEF s

-----------------------------------------------------------------------------
(* The invariant and its preservation. *)

Core == /\ rx \in Registers /\ framer \in Framer /\ age \in Ages /\ out \in Outs
        /\ Fits(rx, framer) /\ Drained(rx) /\ out.body # "again"

AirType == air \in [how : Conditions, kind : Kinds, pos : Nat, wait : 0 .. Patience]

IInv == Core /\ AirType

LEMMA StateIsSound ==
    ASSUME Core
    PROVE  Sound(State) /\ State.rx = rx /\ State \in Receiver
  <1>1. Nothing \in Outs /\ Nothing.body # "again"  BY SMT DEF Nothing, Outs
  <1>2. State = [rx |-> rx, framer |-> framer, age |-> age, out |-> Nothing]
    BY DEF State
  <1> QED  BY SMT, <1>1, <1>2 DEF Core, Sound, Receiver

LEMMA BecomesCore ==
    ASSUME NEW x, Sound(x), Drained(x.rx), Becomes(x)
    PROVE  Core'
  BY DEF Sound, Receiver, Becomes, Core

LEMMA HeardTypes ==
    ASSUME AirType
    PROVE  /\ \A h \in Heard : h[1] \in Types
           /\ Nids \in SUBSET (Kinds \cup {"refused"})
           /\ Decodable \in SUBSET BOOLEAN
  <1>1. OnAir \subseteq Types  BY RxSyncAssumption DEF RxSyncAssumption
  <1>2. \A h \in Heard : h[1] \in Types
    <2>1. Heard \in {{<<"NONE", 0>>} \cup (OnAir \X (0 .. 2)), {<<"NONE", 0>>}, {<<"P25P1", 0>>}}
      BY DEF Heard
    <2>2. \A h \in OnAir \X (0 .. 2) : h[1] \in OnAir  OBVIOUS
    <2>3. \A h \in Heard : h \in OnAir \X (0 .. 2) \/ h = <<"NONE", 0>> \/ h = <<"P25P1", 0>>
      BY <2>1
    <2> TAKE h \in Heard
    <2>4. CASE h \in OnAir \X (0 .. 2)  BY <1>1, <2>2, <2>4
    <2>5. CASE h = <<"NONE", 0>> \/ h = <<"P25P1", 0>>
      <3>1. h[1] = "NONE" \/ h[1] = "P25P1"  BY <2>5
      <3> QED  BY <3>1 DEF Types
    <2> QED  BY <2>3, <2>4, <2>5
  <1>3. air.kind \in Kinds  BY DEF AirType
  <1>4. Nids \in SUBSET (Kinds \cup {"refused"})  BY <1>3 DEF Nids
  <1>5. Decodable \in SUBSET BOOLEAN  BY DEF Decodable
  <1> QED  BY <1>2, <1>4, <1>5

LEMMA AirMovesType ==
    ASSUME AirType, AirMoves
    PROVE  AirType'
  <1>1. PICK n \in NextOnAir :
          air' = [air EXCEPT !.kind = n[1], !.pos = n[2],
                             !.wait = IF air.how = "rough" \/ Answered THEN 0
                                      ELSE IF @ < Patience THEN @ + 1 ELSE @]
    BY DEF AirMoves
  <1>2. air.kind \in Kinds /\ air.pos \in Nat /\ air.wait \in 0 .. Patience /\ Patience \in Nat
    BY RxSyncAssumption DEF AirType, RxSyncAssumption
  <1>3. n[1] \in Kinds /\ n[2] \in Nat
    <2>1. NextOnAir \in {{<<air.kind, air.pos>>}, {<<air.kind, air.pos + 1>>}, Kinds \X {0}}
      BY DEF NextOnAir
    <2> QED  BY SMT, <1>2, <2>1
  <1> DEFINE w == IF air.how = "rough" \/ Answered THEN 0
                  ELSE IF air.wait < Patience THEN air.wait + 1 ELSE air.wait
  <1>4. w \in 0 .. Patience  BY SMT, <1>2
  <1>5. air' = [air EXCEPT !.kind = n[1], !.pos = n[2], !.wait = w]  BY <1>1
  <1> DEFINE k == n[1]
             p == n[2]
  <1>6. air' = [air EXCEPT !.kind = k, !.pos = p, !.wait = w]  BY <1>5
  <1> HIDE DEF w, k, p
  <1>7. k \in Kinds /\ p \in Nat  BY <1>3 DEF k, p
  <1>8. air \in [how : Conditions, kind : Kinds, pos : Nat, wait : 0 .. Patience]
    BY DEF AirType
  <1>9. air' = [how |-> air.how, kind |-> k, pos |-> p, wait |-> w]
    BY <1>6, <1>8
  <1> QED  BY SMT, <1>4, <1>7, <1>8, <1>9 DEF AirType

(* Where a good frame may be when the channel settles. *)
LEMMA PlacesTypes ==
    ASSUME NEW n \in Places
    PROVE  n[1] \in Kinds /\ n[2] \in Nat /\ n[2] < FrameLen(n[1])
  <1>1. PICK k \in Kinds : n \in {k} \X (0 .. FrameLen(k) - 1)  BY DEF Places
  <1>2. FrameLen(k) \in Nat  BY ModeTypes DEF FrameLen, Nid
  <1>3. n[1] = k /\ n[2] \in 0 .. FrameLen(k) - 1  BY <1>1
  <1> QED  BY SMT, <1>2, <1>3

LEMMA SettleMoves ==
    ASSUME AirType, NEW how \in Conditions, Settle(how)
    PROVE  /\ AirType' /\ air'.how = how /\ air'.wait = air.wait
           /\ how = "good" => air'.pos < FrameLen(air'.kind)
  <1>1. PICK n \in IF how = "good" THEN Places ELSE {<<air.kind, air.pos>>} :
          air' = [air EXCEPT !.how = how, !.kind = n[1], !.pos = n[2]]
    BY DEF Settle
  <1> DEFINE k == n[1]
             p == n[2]
  <1>2. k \in Kinds /\ p \in Nat /\ (how = "good" => p < FrameLen(k))
    BY <1>1, PlacesTypes DEF AirType
  <1>3. air' = [air EXCEPT !.how = how, !.kind = k, !.pos = p]  BY <1>1
  <1> HIDE DEF k, p
  <1>4. air' = [how |-> how, kind |-> k, pos |-> p, wait |-> air.wait]
    BY <1>3 DEF AirType
  <1> QED  BY <1>2, <1>4 DEF AirType

(* The inductive invariant: registers, timers and the frame buffer stay    *)
(* consistent through every symbol, every change of the slot mask and      *)
(* every sync_reset() of the message thread, wherever in a symbol its      *)
(* stores land.                                                            *)
THEOREM Invariance == Spec => []IInv
  <1>1. Init => IInv
    <2> SUFFICES ASSUME Init PROVE IInv  OBVIOUS
    <2>1. 3 \in Masks /\ Kinds # {} /\ Patience \in Nat
      BY RxSyncAssumption DEF RxSyncAssumption
    <2>2. rx \in Registers /\ rx.type = "NONE" /\ rx.until = Muted
      BY <2>1, ResetIsSound DEF Init
    <2>3. framer \in Framer /\ age \in Ages /\ out \in Outs /\ out.body # "again"
      BY SMT, ModeTypes DEF Init, Framer, Ages, Outs, Fresh, Nothing
    <2>4. Fits(rx, framer)
      <3>1. framer.bits = 0  BY DEF Init
      <3> QED  BY <2>2, <3>1, ModeTypes DEF Fits
    <2>5. (CHOOSE k \in Kinds : TRUE) \in Kinds  BY <2>1
    <2>6. AirType  BY SMT, <2>1, <2>5 DEF Init, AirType, Conditions
    <2> QED  BY <2>2, <2>3, <2>4, <2>6 DEF IInv, Core, Drained
  <1>2. IInv /\ [Next]_vars => IInv'
    <2> SUFFICES ASSUME IInv, [Next]_vars PROVE IInv'  OBVIOUS
    <2>1. /\ Core /\ AirType /\ Sound(State) /\ Drained(State.rx) /\ State.rx = rx
          /\ State \in Receiver
      BY StateIsSound DEF IInv, Core
    <2>2. CASE Symbol
      <3>1. PICK h \in Heard : \E x \in RxSym(State, h[1], h[2], Nids, Decodable) : Becomes(x)
        BY <2>2 DEF Symbol
      <3>2. PICK x \in RxSym(State, h[1], h[2], Nids, Decodable) : Becomes(x)
        BY <3>1
      <3>3. h[1] \in Types  BY <2>1, HeardTypes
      <3>4. Sound(x) /\ Drained(x.rx)
        BY <2>1, <3>2, <3>3, HeardTypes, RxSymIsSound
      <3>5. Core'  BY <3>2, <3>4, BecomesCore
      <3>6. AirType'  BY <2>1, <2>2, AirMovesType DEF Symbol
      <3> QED  BY <3>5, <3>6 DEF IInv
    <2>3. CASE Control
      <3>1. CASE \E mask \in Masks : SetSlotMask(mask)
        <4>1. PICK mask \in Masks : SetSlotMask(mask)  BY <3>1
        <4> DEFINE x == IF rx.mask = Idle THEN LoseLock(State) ELSE State
                   r == [x.rx EXCEPT !.mask = mask]
                   y == [x EXCEPT !.rx = r]
        <4>2. Sound(x) /\ Drained(x.rx)  BY <2>1, LoseLockIsSound
        <4>3. Becomes(y)  BY <4>1 DEF SetSlotMask
        <4> HIDE DEF x
        <4>4. x \in Receiver /\ x.rx \in Registers  BY <4>2 DEF Sound, Receiver
        <4>5. /\ r \in Registers /\ r.type = x.rx.type /\ r.frag = x.rx.frag
              /\ r.until = x.rx.until
          BY <4>4, RegisterFields
        <4> HIDE DEF r
        <4>6. y \in Receiver /\ y.rx = r /\ y.framer = x.framer /\ y.out = x.out
          BY <4>4, <4>5, PutRx
        <4> HIDE DEF y
        <4>7. Sound(y) /\ Drained(y.rx)
          BY <4>2, <4>5, <4>6 DEF Sound, Fits, Drained
        <4>8. Core'  BY <4>3, <4>7, BecomesCore
        <4> QED  BY <2>1, <2>3, <4>8 DEF IInv, AirType, Control
      <3>2. CASE \E n \in 0 .. Len(Stores) : SyncReset(n)
        <4>1. Len(Stores) = 7  BY SMT DEF Stores
        <4>2. PICK n \in 0 .. 7 : SyncReset(n)  BY <3>2, <4>1
        <4> DEFINE r == Store(rx, 1, n)
                   y == [State EXCEPT !.rx = r]
        <4>3. PICK h \in Heard :
                \E x \in RxSym(y, h[1], h[2], Nids, Decodable) :
                  Becomes([x EXCEPT !.rx = Store(x.rx, n + 1, 7), !.age = Fresh])
          BY <4>1, <4>2 DEF SyncReset
        <4>4. PICK x \in RxSym(y, h[1], h[2], Nids, Decodable) :
                  Becomes([x EXCEPT !.rx = Store(x.rx, n + 1, 7), !.age = Fresh])
          BY <4>3
        <4>5. r \in Registers /\ Fits(r, framer) /\ (n = 7 => Drained(r))
          BY <2>1, StoreBefore DEF Core
        <4> HIDE DEF r
        <4>6. /\ y \in Receiver /\ y.rx = r /\ y.framer = State.framer /\ y.out = State.out
          BY <2>1, <4>5, PutRx
        <4> HIDE DEF y
        <4>7. State.framer = framer  BY DEF State
        <4>8. Sound(y)  BY <2>1, <4>5, <4>6, <4>7 DEF Sound
        <4>9. h[1] \in Types  BY <2>1, HeardTypes
        <4>10. Sound(x) /\ (n = 7 => Drained(x.rx))
          BY <2>1, <4>4, <4>5, <4>6, <4>8, <4>9, HeardTypes, RxSymIsSound
        <4> DEFINE q == Store(x.rx, n + 1, 7)
                   u == [x EXCEPT !.rx = q]
                   v == [u EXCEPT !.age = Fresh]
        <4>11. x \in Receiver /\ x.rx \in Registers /\ Fits(x.rx, x.framer) /\ x.age \in Ages
          BY <4>10 DEF Sound, Receiver
        <4>12. q \in Registers /\ Fits(q, x.framer) /\ Drained(q)
          BY <4>10, <4>11, StoreAfter
        <4>13. Becomes(v)  BY <4>4
        <4> HIDE DEF q
        <4>14. u \in Receiver /\ u.rx = q /\ u.framer = x.framer /\ u.out = x.out
          BY <4>11, <4>12, PutRx
        <4> HIDE DEF u
        <4>15. Fresh \in Ages  BY <4>11, AgeFields
        <4>16. v \in Receiver /\ v.rx = q /\ v.framer = x.framer /\ v.out = x.out
          BY <4>14, <4>15, PutAge
        <4> HIDE DEF v
        <4>17. Sound(v) /\ Drained(v.rx)  BY <4>10, <4>12, <4>16 DEF Sound
        <4>18. Core'  BY <4>13, <4>17, BecomesCore
        <4> QED  BY <2>1, <2>3, <4>18 DEF IInv, AirType, Control
      <3> QED  BY <2>3, <3>1, <3>2 DEF Control
    <2>4. CASE \E how \in Conditions \ {"rough"} : Settle(how)
      <3>1. PICK how \in Conditions : Settle(how)  BY <2>4
      <3>2. AirType'  BY <2>1, <3>1, SettleMoves
      <3>3. Core'  BY <2>1, <3>1 DEF Core, Settle
      <3> QED  BY <3>2, <3>3 DEF IInv
    <2>5. CASE UNCHANGED vars
      BY <2>1, <2>5 DEF vars, IInv, Core, AirType
    <2> QED  BY <2>2, <2>3, <2>4, <2>5 DEF Next
  <1> QED  BY <1>1, <1>2, PTL DEF Spec

(* Every register keeps its range; in particular the Hamming threshold     *)
(* used to accept syncs never exceeds 2.                                   *)
THEOREM TypeCorrect == Spec => []TypeOK
  <1>1. IInv => TypeOK
    BY DEF IInv, Core, AirType, TypeOK, Framer, Ages, Outs
  <1> QED  BY <1>1, Invariance, PTL

(* load_body() never appends more bits to frame_body than it holds, for    *)
(* any table of frame lengths whose longest frame fits.                    *)
THEOREM FramesFit == Spec => []FrameFits
  <1>1. IInv => FrameFits  BY DEF IInv, Core, Fits, FrameFits
  <1> QED  BY <1>1, Invariance, PTL

(* No frame is processed twice for one accepted NID, not even when the     *)
(* message thread resets the lock in the middle of a symbol.               *)
THEOREM BodiesOnce == Spec => []BodyOnce
  <1>1. IInv => BodyOnce  BY DEF IInv, Core, BodyOnce
  <1> QED  BY <1>1, Invariance, PTL

(* An unmuted DMR slot has been drained by the time there is no lock.      *)
THEOREM AudioDrained == Spec => []DrainedOnLoss
  <1>1. IInv => DrainedOnLoss  BY DEF IInv, Core, Drained, DrainedOnLoss
  <1> QED  BY <1>1, Invariance, PTL

-----------------------------------------------------------------------------
(* The clock of a lock.  Left(r) symbols remain until the lock expires,    *)
(* even if d_symbol_count is about to wrap.                                *)

Left(r) == IF r.sc < r.exp THEN r.exp - r.sc ELSE r.exp + CounterMod - r.sc

Clocked(r) == r.type # "NONE" => Left(r) >= 1 /\ Left(r) <= Mode[r.type].life

(* What a body still to be collected is measured by. *)
Measured(r, f) == r.type = "P25P1" /\ r.frag # Nid => r.frag = BodyLen[f.duid]

(* Nothing that matters to the lock and its clock has changed. *)
SameLock(r, s) ==
    s.mask = r.mask /\ s.type = r.type /\ s.sc = r.sc /\ s.exp = r.exp

(* The lock is gone and d_symbol_count starts again. *)
Dropped(r, s) == s.mask = r.mask /\ s.type = "NONE" /\ s.sc = 0

(* The lock on t expires a whole life from now. *)
Renewed(r, s, t) ==
    /\ s.mask = r.mask /\ s.type = t /\ s.sc = r.sc
    /\ s.exp = After(r, t)

LEMMA LifeFacts ==
    /\ \A t \in Types \ {"NONE"} :
          /\ Mode[t].life \in Nat /\ Mode[t].life >= 1 /\ 3 * Mode[t].life < CounterMod
    /\ CounterMod \in Nat \ {0} /\ "P25P1" \in Types \ {"NONE"}
    /\ Nid \in Nat /\ SyncEnd("P25P1") \in Nat /\ SyncEnd("P25P1") >= 1 /\ SyncEnd("P25P1") < Nid
    /\ \A k \in Kinds : /\ BodyLen[k] \in Nat /\ BodyLen[k] >= 1 /\ BodyLen[k] # Nid
                        /\ FrameLen(k) = Nid + BodyLen[k]
                        /\ FrameLen(k) <= Mode["P25P1"].life
  <1>1. \A t \in Types \ {"NONE"} : /\ SyncEnd(t) \in 1 .. Mode[t].frag
                                    /\ Mode[t].life > Mode[t].frag
                                    /\ CounterMod > 3 * Mode[t].life
    BY RxSyncAssumption DEF RxSyncAssumption
  <1>2. "P25P1" \in Types \ {"NONE"}  BY DEF Types
  <1>3. SyncEnd("P25P1") < Nid  BY RxSyncAssumption DEF RxSyncAssumption, Nid
  <1>4. \A k \in Kinds : /\ BodyLen[k] \in Nat \ {0, Nid}
                         /\ Nid + BodyLen[k] <= Mode["P25P1"].life
    BY RxSyncAssumption DEF RxSyncAssumption, Nid
  <1>5. \A k \in Kinds : FrameLen(k) = Nid + BodyLen[k]
    BY DEF FrameLen, Nid
  <1> QED  BY <1>1, <1>2, <1>3, <1>4, <1>5, ModeTypes

(* Addition modulo 2^32 wraps at most once. *)
LEMMA WrapsOnce ==
    ASSUME NEW a \in Nat, NEW b \in Nat, a < CounterMod, b < CounterMod
    PROVE  (a + b) % CounterMod = IF a + b < CounterMod THEN a + b ELSE a + b - CounterMod
  <1> DEFINE m == CounterMod
             q == (a + b) \div m
             r == (a + b) % m
  <1>1. m \in Nat /\ m > 0  BY LifeFacts
  <1>2. a + b = m * q + r /\ r \in 0 .. m - 1 /\ q \in Int  BY SMT, <1>1
  <1> HIDE DEF q, r, m
  <1>3. q = 0 \/ q = 1
    <2>1. ASSUME q >= 2 PROVE FALSE
      <3>1. m * q >= m * 2  BY SMT, <1>1, <1>2, <2>1
      <3> QED  BY SMT, <1>1, <1>2, <3>1 DEF m
    <2>2. ASSUME q <= -1 PROVE FALSE
      <3>1. m * q <= m * (-1)  BY SMT, <1>1, <1>2, <2>2
      <3> QED  BY SMT, <1>1, <1>2, <3>1
    <2> QED  BY SMT, <1>2, <2>1, <2>2
  <1>4. m * 0 = 0 /\ m * 1 = m  BY SMT, <1>1
  <1>5. a + b = r \/ a + b = m + r  BY <1>2, <1>3, <1>4
  <1> QED  BY SMT, <1>1, <1>2, <1>5 DEF m, r

(* Where a lock that was just renewed expires. *)
LEMMA RenewedClock ==
    ASSUME NEW r \in Registers, NEW s, NEW t \in Types \ {"NONE"}, Renewed(r, s, t)
    PROVE  /\ s.exp \in 0 .. CounterMod - 1
           /\ s.sc < s.exp <=> r.sc + Mode[t].life < CounterMod
           /\ s.sc < s.exp => s.exp - s.sc = Mode[t].life
           /\ Left(s) = Mode[t].life /\ Clocked(s)
  <1>1. /\ r.sc \in Nat /\ r.sc < CounterMod /\ CounterMod \in Nat
        /\ Mode[t].life \in Nat /\ Mode[t].life >= 1 /\ Mode[t].life < CounterMod
    BY LifeFacts DEF Registers
  <1>2. s.exp = IF r.sc + Mode[t].life < CounterMod THEN r.sc + Mode[t].life
                ELSE r.sc + Mode[t].life - CounterMod
    BY <1>1, WrapsOnce DEF Renewed, After
  <1>3. s.sc = r.sc /\ s.type = t  BY DEF Renewed
  <1> QED  BY <1>1, <1>2, <1>3 DEF Left, Clocked

(* A lock that had symbols left has one less after the next. *)
LEMMA Ticks ==
    ASSUME NEW r \in Registers, r.type # "NONE", Clocked(r),
           NEW s, s.type = r.type, s.exp = r.exp, s.sc = (r.sc + 1) % CounterMod
    PROVE  /\ s.sc \in 0 .. CounterMod - 1
           /\ s.sc < s.exp => s.exp - s.sc = Left(r) - 1
           /\ s.sc < s.exp => Clocked(s) /\ Left(s) = Left(r) - 1
           /\ r.sc < r.exp /\ Left(r) >= 2 => s.sc < s.exp
  <1>1. /\ r.sc \in Nat /\ r.sc < CounterMod /\ CounterMod \in Nat
        /\ r.exp \in Nat /\ r.exp < CounterMod /\ CounterMod > 1
        /\ Mode[r.type].life \in Nat
    <2>1. r.type \in Types \ {"NONE"} /\ r.sc \in 0 .. CounterMod - 1 /\ r.exp \in 0 .. CounterMod - 1
      BY DEF Registers
    <2> QED  BY <2>1, LifeFacts
  <1>2. s.sc = IF r.sc + 1 < CounterMod THEN r.sc + 1 ELSE r.sc + 1 - CounterMod
    BY <1>1, WrapsOnce
  <1> QED  BY <1>1, <1>2 DEF Left, Clocked

(* Fields of a register file with one of them replaced. *)
LEMMA Keeps ==
    ASSUME NEW r \in Registers
    PROVE  /\ \A n : LET s == [r EXCEPT !.count = n]
                     IN  SameLock(r, s) /\ s.frag = r.frag /\ s.count = n
           /\ \A n : LET s == [r EXCEPT !.frag = n]
                     IN  SameLock(r, s) /\ s.frag = n /\ s.count = r.count
           /\ \A n : LET s == [r EXCEPT !.thr = n]
                     IN  SameLock(r, s) /\ s.frag = r.frag /\ s.count = r.count
           /\ \A n : LET s == [r EXCEPT !.until = n]
                     IN  SameLock(r, s) /\ s.frag = r.frag /\ s.count = r.count
           /\ \A n : LET s == [r EXCEPT !.exp = n]
                     IN  /\ s.mask = r.mask /\ s.type = r.type /\ s.sc = r.sc /\ s.exp = n
                         /\ s.frag = r.frag /\ s.count = r.count
           /\ \A n : LET s == [r EXCEPT !.sc = n]
                     IN  /\ s.mask = r.mask /\ s.type = r.type /\ s.sc = n /\ s.exp = r.exp
                         /\ s.frag = r.frag /\ s.count = r.count
  BY DEF Registers, SameLock

LEMMA ResetDrops ==
    ASSUME NEW r
    PROVE  Dropped(r, Reset(r)) /\ Reset(r).exp = 0 /\ Reset(r).count = 0 /\ Reset(r).frag = 0
  BY DEF Reset, Dropped

(* What a replaced component leaves alone. *)
LEMMA LoseLockDrops ==
    ASSUME NEW x \in Receiver
    PROVE  /\ Dropped(x.rx, LoseLock(x).rx) /\ LoseLock(x).out = x.out
           /\ LoseLock(x).framer = x.framer /\ LoseLock(x).age = Fresh
  BY ResetDrops DEF LoseLock, Receiver

LEMMA CheckTimeoutKeeps ==
    ASSUME NEW x \in Receiver
    PROVE  LET y == CheckTimeout(x)
           IN  /\ y.rx = x.rx /\ y.framer = x.framer
               /\ y.out.frame = x.out.frame /\ y.out.body = x.out.body
  BY DEF CheckTimeout, Receiver, Outs

LEMMA LoadNidDoes ==
    ASSUME NEW x \in Receiver, NEW nid
    PROVE  LET z == LoadNid(x, nid)
           IN  /\ nid = "refused" => Dropped(x.rx, z.rx)
               /\ nid # "refused" =>
                     /\ SameLock(x.rx, z.rx) /\ z.rx.frag = BodyLen[nid]
                     /\ z.rx.count = x.rx.count
                     /\ z.framer.duid = nid /\ z.framer.rest = "due"
  <1> DEFINE n == 2 * Nid
             u == [x EXCEPT !.framer.bits = n]
             v == [u EXCEPT !.out.frame = "nid"]
             y == CheckTimeout(v)
             len == BodyLen[nid]
             a == [y EXCEPT !.rx.frag = len]
             b == [a EXCEPT !.framer.duid = nid]
             z == [b EXCEPT !.framer.rest = "due"]
  <1>1. LoadNid(x, nid) = IF nid = "refused" THEN LoseLock(y) ELSE z
    BY DEF LoadNid, Nid
  <1>2. n \in Nat  BY ModeTypes
  <1>3. u \in Receiver /\ u.rx = x.rx  BY <1>2, PutBits
  <1> HIDE DEF u
  <1>4. v \in Receiver /\ v.rx = x.rx  BY <1>3, PutFrame
  <1> HIDE DEF v
  <1>5. /\ y \in [rx : Registers, framer : Framer, age : Ages, out : Outs]
        /\ y.rx = x.rx
    <2> DEFINE p == [v EXCEPT !.age.q = 0]
               w == [p EXCEPT !.out.report = "timeout"]
    <2>1. p \in Receiver /\ p.rx = v.rx  BY <1>4, PutQ
    <2>2. y = v \/ y = w  BY DEF CheckTimeout
    <2> HIDE DEF p
    <2>3. w \in Receiver /\ w.rx = p.rx  BY <2>1, PutReport
    <2> HIDE DEF w, y
    <2> QED  BY <1>4, <2>1, <2>2, <2>3 DEF Receiver
  <1> HIDE DEF y
  <1>6. nid = "refused" => Dropped(x.rx, LoseLock(y).rx)
    BY <1>5, LoseLockDrops DEF Receiver
  <1>7. SameLock(x.rx, [x.rx EXCEPT !.frag = len]) /\ [x.rx EXCEPT !.frag = len].frag = len
        /\ [x.rx EXCEPT !.frag = len].count = x.rx.count
    BY Keeps DEF Receiver
  <1>8. z.rx = [x.rx EXCEPT !.frag = len]  BY <1>5
  <1>9. z.framer.duid = nid /\ z.framer.rest = "due"
    BY <1>5 DEF Framer
  <1> QED  BY <1>1, <1>6, <1>7, <1>8, <1>9

LEMMA LoadBodyDoes ==
    ASSUME NEW x, Sound(x), NEW ok \in BOOLEAN,
           x.rx.type = "P25P1", x.rx.frag # Nid
    PROVE  LET z == LoadBody(x, ok)
           IN  /\ SameLock(x.rx, z.rx) /\ z.rx.frag = Nid /\ z.rx.count = x.rx.count
               /\ x.rx.frag = BodyLen[x.framer.duid] =>
                     z.out.frame \in Kinds /\ z.out.body = "whole"
  <1> DEFINE k == x.framer.duid
             n == IF x.rx.frag > 0 THEN x.rx.frag ELSE 0
             m == x.framer.bits + 2 * n
             w == CASE x.framer.rest = "loaded" -> "again"
                    [] n < BodyLen[k] -> "cut"
                    [] OTHER -> "whole"
             u == [x EXCEPT !.framer.bits = m]
             v == [u EXCEPT !.framer.rest = "loaded"]
             a == [v EXCEPT !.out.frame = k]
             b == [a EXCEPT !.out.body = w]
             q == IF ok THEN 0 ELSE b.age.q
             c == [b EXCEPT !.age.q = q]
             z == [c EXCEPT !.rx.frag = Nid]
  <1>1. /\ x \in Receiver /\ x.framer.bits \in Nat /\ x.rx.frag \in Int
        /\ k \in Kinds /\ x.framer.rest = "due"
        /\ BodyLen[k] \in Nat
    <2>1. /\ x \in Receiver /\ x.framer.bits \in Nat /\ x.rx.frag \in Int
          /\ k \in Kinds /\ x.framer.rest = "due"
      BY DEF Sound, Receiver, Registers, Framer, Fits
    <2> QED  BY <2>1, LifeFacts
  <1>2. m \in Nat  BY SMT, <1>1
  <1>3. w \in {"whole", "cut"} /\ (x.rx.frag = BodyLen[k] => w = "whole")
    <2>1. x.rx.frag = BodyLen[k] => ~(n < BodyLen[k])  BY SMT, <1>1
    <2> HIDE DEF n
    <2> QED  BY <1>1, <2>1
  <1>4. LoadBody(x, ok) = CheckTimeout(z)
    BY DEF LoadBody, Nid
  <1> HIDE DEF m, w, k
  <1>5. u \in Receiver /\ u.rx = x.rx
    BY <1>1, <1>2, PutBits
  <1> HIDE DEF u
  <1>6. v \in Receiver /\ v.rx = x.rx
    BY <1>5, PutRest
  <1> HIDE DEF v
  <1>7. a \in Receiver /\ a.rx = x.rx
    BY <1>1, <1>6, PutFrame
  <1>8. a.out.frame = k
    BY <1>6 DEF Receiver, Outs
  <1> HIDE DEF a
  <1>9. b \in Receiver /\ b.rx = x.rx /\ b.out.body = w
    BY <1>3, <1>7, PutBody
  <1>10. b.out.frame = k
    BY <1>7, <1>8 DEF Receiver, Outs
  <1> HIDE DEF b
  <1>11. q \in {0, b.age.q}  OBVIOUS
  <1> HIDE DEF q
  <1>12. c \in Receiver /\ c.rx = x.rx /\ c.out = b.out
    BY <1>9, <1>11, PutQ
  <1> HIDE DEF c
  <1>13. Nid \in Int  BY ModeTypes
  <1>14. z \in Receiver /\ z.out = b.out
    BY <1>12, <1>13, PutFrag
  <1>15. z.rx = [x.rx EXCEPT !.frag = Nid]
    BY <1>12 DEF Receiver
  <1> HIDE DEF z
  <1>16. CheckTimeout(z).rx = z.rx /\ CheckTimeout(z).out.frame = z.out.frame
         /\ CheckTimeout(z).out.body = z.out.body
    BY <1>14, CheckTimeoutKeeps
  <1>17. SameLock(x.rx, z.rx) /\ z.rx.frag = Nid /\ z.rx.count = x.rx.count
    BY <1>1, <1>15, Keeps DEF Receiver
  <1> QED  BY <1>1, <1>3, <1>4, <1>9, <1>10, <1>14, <1>16, <1>17 DEF k

LEMMA DmrFrameDoes ==
    ASSUME NEW x \in Receiver, NEW sync \in BOOLEAN, NEW voice \in BOOLEAN, NEW c \in {0, 1},
           x.rx.type = "DMR"
    PROVE  LET z == DmrFrame(x, sync, voice, c)
           IN  IF sync THEN Renewed(x.rx, z.rx, "DMR") ELSE SameLock(x.rx, z.rx)
  <1> DEFINE e == After(x.rx, "DMR")
             r == IF sync THEN [x.rx EXCEPT !.exp = e] ELSE x.rx
             mine == \/ c = 0 /\ r.mask \in {1, 3}
                     \/ c = 1 /\ r.mask \in {2, 3}
             d == After(r, "DMR")
             u == IF voice /\ mine THEN [r EXCEPT !.until[c] = d] ELSE r
             mute == ~voice \/ u.sc >= u.until[c]
             s == IF mute THEN [u EXCEPT !.until[c] = 0] ELSE u
             f == IF mute THEN "none" ELSE "codeword"
             z == [x EXCEPT !.rx = s, !.out.frame = f]
  <1>1. DmrFrame(x, sync, voice, c) = z  BY DEF DmrFrame
  <1>2. x.rx \in Registers  BY DEF Receiver
  <1>3. e \in 0 .. CounterMod - 1  BY <1>2, AfterInRange DEF Types
  <1> HIDE DEF e, f
  <1>4. r \in Registers /\ (IF sync THEN Renewed(x.rx, r, "DMR") ELSE SameLock(x.rx, r))
    <2> DEFINE v == [x.rx EXCEPT !.exp = e]
    <2>1. v \in Registers  BY <1>2, <1>3, RegisterFields
    <2>2. v.mask = x.rx.mask /\ v.type = x.rx.type /\ v.sc = x.rx.sc /\ v.exp = e
      BY <1>2, Keeps
    <2>3. CASE sync
      <3>1. r = v  BY <2>3
      <3> HIDE DEF v, r
      <3> QED  BY <2>1, <2>2, <2>3, <3>1 DEF Renewed, e
    <2>4. CASE ~sync  BY <1>2, <2>4 DEF SameLock
    <2> QED  BY <2>3, <2>4
  <1> HIDE DEF r
  <1>5. d \in 0 .. CounterMod - 1  BY <1>4, AfterInRange DEF Types
  <1> HIDE DEF d, mine
  <1>6. u \in Registers /\ SameLock(r, u)
    <2>1. CASE voice /\ mine
      <3> DEFINE l == [r.until EXCEPT ![c] = d]
      <3>1. u = [r EXCEPT !.until = l]  BY <2>1
      <3> HIDE DEF l
      <3> QED  BY <1>4, <1>5, <2>1, <3>1, Keeps, PutUntil
    <2>2. CASE ~(voice /\ mine)  BY <1>4, <2>2 DEF SameLock
    <2> QED  BY <2>1, <2>2
  <1> HIDE DEF u, mute
  <1>7. SameLock(u, s)
    <2> DEFINE l == [u.until EXCEPT ![c] = 0]
    <2>1. s = [u EXCEPT !.until = l] \/ s = u  OBVIOUS
    <2> HIDE DEF l, s
    <2>2. SameLock(u, [u EXCEPT !.until = l])  BY <1>6, Keeps
    <2>3. SameLock(u, u)  BY DEF SameLock
    <2> QED  BY <2>1, <2>2, <2>3
  <1> HIDE DEF s
  <1>8. z.rx = s  BY DEF Receiver
  <1> QED  BY <1>1, <1>4, <1>6, <1>7, <1>8 DEF SameLock, Renewed

(* A completed fragment leaves the lock alone, drops it or, if a DMR frame *)
(* has its sync, renews it.                                                *)
LEMMA DispatchDoes ==
    ASSUME NEW x, Sound(x),
           NEW nids \in SUBSET (Kinds \cup {"refused"}), NEW decoded \in SUBSET BOOLEAN,
           NEW z \in Dispatch(x, nids, decoded)
    PROVE  /\ \/ Dropped(x.rx, z.rx)
              \/ SameLock(x.rx, z.rx)
              \/ TRUE \in decoded /\ x.rx.type = "DMR" /\ Renewed(x.rx, z.rx, "DMR")
           /\ Measured(z.rx, z.framer)
  <1>1. x \in Receiver /\ x.rx \in Registers /\ x.rx.type \in Types
    BY DEF Sound, Receiver, Registers
  <1>2. CASE x.rx.type = "NONE"
    <2>1. z = x  BY <1>2 DEF Dispatch
    <2> QED  BY <1>2, <2>1 DEF SameLock, Measured
  <1>3. CASE x.rx.type = "P25P1" /\ x.rx.frag = Nid
    <2>1. PICK nid \in nids : z = LoadNid(x, nid)
      BY <1>3 DEF Dispatch, Nid
    <2>2. CASE nid = "refused"
      <3>1. Dropped(x.rx, z.rx)  BY <1>1, <2>1, <2>2, LoadNidDoes
      <3> QED  BY <3>1 DEF Dropped, Measured
    <2>3. CASE nid # "refused"
      <3>1. SameLock(x.rx, z.rx) /\ z.rx.frag = BodyLen[nid] /\ z.framer.duid = nid
        BY <1>1, <2>1, <2>3, LoadNidDoes
      <3> QED  BY <3>1 DEF Measured
    <2> QED  BY <2>2, <2>3
  <1>4. CASE x.rx.type = "P25P1" /\ x.rx.frag # Nid
    <2> DEFINE oks == IF x.framer.duid = "HDU" THEN {FALSE}
                      ELSE IF x.framer.duid \in {"TSBK", "PDU"} THEN decoded ELSE {TRUE}
    <2>1. PICK ok \in BOOLEAN : z = LoadBody(x, ok)
      <3>1. Dispatch(x, nids, decoded) = {LoadBody(x, ok) : ok \in oks}
        BY <1>4 DEF Dispatch, Nid
      <3>2. oks \subseteq BOOLEAN  OBVIOUS
      <3> HIDE DEF oks
      <3> QED  BY <3>1, <3>2
    <2>2. SameLock(x.rx, z.rx) /\ z.rx.frag = Nid
      BY <1>4, <2>1, LoadBodyDoes
    <2> QED  BY <2>2 DEF Measured
  <1>5. CASE x.rx.type \in {"P25P2", "DSTAR", "YSF"}
    <2> DEFINE y == [x EXCEPT !.age.q = 0]
    <2>1. \/ z = [y EXCEPT !.out.frame = "packet"]
          \/ \E f \in {"codeword", "none"} : z = [x EXCEPT !.out.frame = f]
      <3>1. x.rx.type = "P25P2" => z = [y EXCEPT !.out.frame = "packet"]
        BY DEF Dispatch
      <3>2. x.rx.type = "DSTAR" => z = [x EXCEPT !.out.frame = "codeword"]
        BY DEF Dispatch
      <3>3. x.rx.type = "YSF" => \E f \in {"codeword", "none"} : z = [x EXCEPT !.out.frame = f]
        BY DEF Dispatch
      <3> QED  BY <1>5, <3>1, <3>2, <3>3
    <2>2. y \in Receiver /\ y.rx = x.rx  BY <1>1, PutQ
    <2> HIDE DEF y
    <2>3. z.rx = x.rx
      <3>1. CASE z = [y EXCEPT !.out.frame = "packet"]
        BY <2>2, <3>1, PutFrame
      <3>2. CASE \E f \in {"codeword", "none"} : z = [x EXCEPT !.out.frame = f]
        BY <1>1, <3>2, PutFrame
      <3> QED  BY <2>1, <3>1, <3>2
    <2> QED  BY <1>5, <2>3 DEF SameLock, Measured
  <1>6. CASE x.rx.type = "DMR"
    <2>1. Busy \subseteq {0, 1}  BY RxSyncAssumption DEF RxSyncAssumption
    <2>2. PICK sync \in decoded, voice \in BOOLEAN, c \in {0, 1} :
              z = DmrFrame(x, sync, voice, c)
      <3>1. Dispatch(x, nids, decoded) =
              {DmrFrame(x, sync, voice, c) : sync \in decoded, voice \in BOOLEAN, c \in Busy}
        BY <1>6 DEF Dispatch
      <3>2. PICK sync \in decoded, voice \in BOOLEAN, c \in Busy : z = DmrFrame(x, sync, voice, c)
        BY <3>1
      <3> QED  BY <2>1, <3>2
    <2>3. IF sync THEN Renewed(x.rx, z.rx, "DMR") ELSE SameLock(x.rx, z.rx)
      BY <1>1, <1>6, <2>2, DmrFrameDoes
    <2>4. z.rx.type = "DMR"  BY <1>6, <2>3 DEF Renewed, SameLock
    <2>5. CASE sync  BY <1>6, <2>3, <2>4, <2>5 DEF Measured
    <2>6. CASE ~sync  BY <2>3, <2>4, <2>6 DEF Measured
    <2> QED  BY <2>5, <2>6
  <1> QED  BY <1>1, <1>2, <1>3, <1>4, <1>5, <1>6 DEF Types

LEMMA AdoptDoes ==
    ASSUME NEW r \in Registers, NEW t \in Types \ {"NONE"}
    PROVE  LET a == Adopt(r, t)
           IN  /\ a \in Registers /\ a.mask = r.mask /\ a.type = t /\ a.sc = r.sc
               /\ r.type = t => a = r
               /\ r.type # t => a.frag = Mode[t].frag /\ a.count = SyncEnd(t)
  <1>1. CASE r.type = t  BY <1>1 DEF Adopt
  <1>2. CASE r.type # t
    <2>1. After(r, t) \in 0 .. CounterMod - 1  BY AfterInRange
    <2>2. SyncEnd(t) \in Nat /\ Mode[t].frag \in Int  BY ModeTypes
    <2> DEFINE e == After(r, t)
               k == SyncEnd(t)
               n == Mode[t].frag
    <2>3. Adopt(r, t) = [r EXCEPT !.type = t, !.exp = e, !.count = k, !.frag = n]
      BY <1>2 DEF Adopt
    <2> HIDE DEF e, k, n
    <2>4. e \in 0 .. CounterMod - 1 /\ k \in Nat /\ n \in Int  BY <2>1, <2>2 DEF e, k, n
    <2>5. LET a == [r EXCEPT !.type = t, !.exp = e, !.count = k, !.frag = n]
          IN  /\ a \in Registers /\ a.mask = r.mask /\ a.type = t /\ a.sc = r.sc
              /\ a.frag = n /\ a.count = k
      BY <2>4 DEF Registers
    <2> QED  BY <1>2, <2>3, <2>5 DEF k, n
  <1> QED  BY <1>1, <1>2

LEMMA AlignDoes ==
    ASSUME NEW r \in Registers, r.type # "NONE"
    PROVE  LET g == Align(r)
           IN  /\ Early(r) => /\ Renewed(r, g, r.type)
                              /\ g.frag = r.count - SyncEnd(r.type) /\ g.count = r.count
               /\ Slipped(r) => Dropped(r, g) /\ g.frag = 0 /\ g.count = 0
               /\ ~Early(r) /\ ~Slipped(r) =>
                     Renewed(r, g, r.type) /\ g.frag = r.frag /\ g.count = r.count
  <1> DEFINE n == r.count - SyncEnd(r.type)
             m == IF r.thr = 2 THEN 2 ELSE r.thr + 1
             a == [r EXCEPT !.frag = n]
             b == Reset(r)
             c == [r EXCEPT !.thr = m]
             s == CASE Early(r) -> a [] Slipped(r) -> b [] OTHER -> c
             e == After(s, s.type)
             z == [s EXCEPT !.exp = e]
  <1>1. Align(r) = z  BY DEF Align
  <1>2. /\ r.mask \in Masks /\ r.type \in Types /\ r.count \in Nat /\ r.thr \in 0 .. 2
        /\ SyncEnd(r.type) \in Nat
    BY ModeTypes DEF Registers
  <1>3. n \in Int /\ m \in 0 .. 2  BY SMT, <1>2
  <1>4. /\ a \in Registers /\ c \in Registers /\ b \in Registers
        /\ SameLock(r, a) /\ a.frag = n /\ a.count = r.count
        /\ SameLock(r, c) /\ c.frag = r.frag /\ c.count = r.count
        /\ Dropped(r, b) /\ b.frag = 0 /\ b.count = 0
    <2>1. a \in Registers /\ c \in Registers  BY <1>3, RegisterFields
    <2>2. SameLock(r, a) /\ a.frag = n /\ a.count = r.count  BY Keeps
    <2>3. SameLock(r, c) /\ c.frag = r.frag /\ c.count = r.count  BY Keeps
    <2>4. b \in Registers  BY <1>2, ResetIsSound
    <2>5. Dropped(r, b) /\ b.frag = 0 /\ b.count = 0  BY ResetDrops
    <2> QED  BY <2>1, <2>2, <2>3, <2>4, <2>5
  <1>5. Early(r) => ~Slipped(r)  BY DEF Slipped
  <1>6. /\ Early(r) => s = a
        /\ Slipped(r) => s = b
        /\ ~Early(r) /\ ~Slipped(r) => s = c
    BY <1>5
  <1> HIDE DEF a, b, c, n, m, s
  <1>7. s = a \/ s = b \/ s = c  BY <1>5, <1>6
  <1>8. s \in Registers  BY <1>4, <1>7
  <1>9. /\ z.mask = s.mask /\ z.type = s.type /\ z.sc = s.sc /\ z.exp = e
        /\ z.frag = s.frag /\ z.count = s.count
    BY <1>8, Keeps
  <1> HIDE DEF z
  <1>10. SameLock(r, s) => Renewed(r, z, r.type)
    BY <1>9 DEF SameLock, Renewed, After, e
  <1>11. Dropped(r, s) => Dropped(r, z)
    BY <1>9 DEF Dropped
  <1> QED  BY <1>1, <1>4, <1>6, <1>9, <1>10, <1>11 DEF n

(* A sync that is where a frame of type t should have it. *)
InPlace(r, g, excess, t) ==
    Renewed(r, g, t) /\ excess = 0 /\ g.frag = Mode[t].frag /\ g.count = SyncEnd(t)

(* What a recognised sync of type t makes of the registers r: a slip drops *)
(* the lock; an early one cuts the frame; one in its place starts a frame  *)
(* or, in a body shorter than a sync, ends it.                             *)
SyncOutcome(r, g, excess, t) ==
    \/ Dropped(r, g) /\ g.frag = 0 /\ g.count = 0
    \/ Renewed(r, g, t) /\ excess = SyncEnd(t) /\ g.frag < g.count
    \/ InPlace(r, g, excess, t)
    \/ /\ Renewed(r, g, t) /\ excess = 0 /\ r.type = t
       /\ g.frag = r.frag /\ g.frag # Mode[t].frag /\ g.frag <= g.count

LEMMA SyncedDoes ==
    ASSUME NEW x, Sound(x), NEW t \in Types \ {"NONE"}
    PROVE  LET s == Synced(x, t)
           IN  /\ SyncOutcome(x.rx, s.x.rx, s.excess, t)
               /\ x.rx.type # t => InPlace(x.rx, s.x.rx, s.excess, t)
               /\ s.x.framer = x.framer
               /\ s = [x |-> s.x, excess |-> s.excess]
  <1> DEFINE n == x.rx.count + 1
             r == [x.rx EXCEPT !.count = n]
             a == Adopt(r, t)
             g == Align(a)
             h == IF Slipped(a) THEN Fresh ELSE x.age
             k == IF x.rx.type # t /\ t \in {"P25P1", "P25P2"} THEN "sync" ELSE x.out.report
             w == [x EXCEPT !.rx = g, !.age = h, !.out.report = k]
             e == IF Early(a) THEN SyncEnd(t) ELSE 0
  <1>1. x \in Receiver /\ x.rx \in Registers /\ n \in Nat
    BY DEF Sound, Receiver, Registers
  <1>2. Synced(x, t) = [x |-> w, excess |-> e]  BY DEF Synced
  <1> HIDE DEF n, h, k
  <1>3. w.rx = g /\ w.framer = x.framer  BY <1>1 DEF Receiver
  <1> HIDE DEF w
  <1>4. r \in Registers  BY <1>1, RegisterFields
  <1>5. SameLock(x.rx, r) /\ r.frag = x.rx.frag  BY <1>1, Keeps
  <1> HIDE DEF r
  <1>6. /\ a \in Registers /\ a.mask = r.mask /\ a.type = t /\ a.sc = r.sc
        /\ r.type = t => a = r
        /\ r.type # t => a.frag = Mode[t].frag /\ a.count = SyncEnd(t)
    BY <1>4, AdoptDoes
  <1> HIDE DEF a
  <1>7. /\ a.count \in Nat /\ a.frag \in Int /\ SyncEnd(t) \in Nat /\ SyncEnd(t) >= 1
    BY <1>6, ModeTypes DEF Registers
  <1>8. /\ Early(a) => /\ Renewed(a, g, t)
                       /\ g.frag = a.count - SyncEnd(t) /\ g.count = a.count
        /\ Slipped(a) => Dropped(a, g) /\ g.frag = 0 /\ g.count = 0
        /\ ~Early(a) /\ ~Slipped(a) =>
              Renewed(a, g, t) /\ g.frag = a.frag /\ g.count = a.count
    BY <1>6, AlignDoes
  <1> HIDE DEF g
  <1>9. Renewed(a, g, t) => Renewed(x.rx, g, t)
    BY <1>5, <1>6 DEF Renewed, SameLock, After
  <1>10. Dropped(a, g) => Dropped(x.rx, g)
    BY <1>5, <1>6 DEF Dropped, SameLock
  <1>11. SyncOutcome(x.rx, g, e, t)
    <2>1. CASE Early(a)
      <3>1. g.frag < g.count  BY <1>7, <1>8, <2>1
      <3> QED  BY <1>8, <1>9, <2>1, <3>1 DEF SyncOutcome
    <2>2. CASE Slipped(a)  BY <1>8, <1>10, <2>2 DEF SyncOutcome
    <2>3. CASE ~Early(a) /\ ~Slipped(a)
      <3>1. a.count = SyncEnd(t) /\ (a.frag = Mode[t].frag \/ ~(a.count < a.frag))
        BY <1>6, <2>3 DEF Early, Slipped
      <3>2. CASE a.frag = Mode[t].frag
        BY <1>8, <1>9, <2>3, <3>1, <3>2 DEF SyncOutcome, InPlace
      <3>3. CASE a.frag # Mode[t].frag
        <4>1. r.type = t /\ a = r  BY <1>6, <3>3
        <4>2. g.frag = x.rx.frag /\ x.rx.type = t  BY <1>5, <1>8, <2>3, <4>1 DEF SameLock
        <4>3. g.frag <= g.count  BY <1>7, <1>8, <2>3, <3>1, <3>3
        <4> QED  BY <1>8, <1>9, <2>3, <3>3, <4>2, <4>3 DEF SyncOutcome
      <3> QED  BY <3>2, <3>3
    <2> QED  BY <2>1, <2>2, <2>3
  <1>12. ASSUME x.rx.type # t PROVE InPlace(x.rx, g, e, t)
    <2>1. a.frag = Mode[t].frag /\ a.count = SyncEnd(t)  BY <1>5, <1>6, <1>12 DEF SameLock
    <2>2. ~Early(a) /\ ~Slipped(a)  BY <1>6, <2>1 DEF Early, Slipped
    <2> QED  BY <1>8, <1>9, <2>1, <2>2 DEF InPlace
  <1> HIDE DEF e
  <1> QED  BY <1>2, <1>3, <1>11, <1>12

(* What the rest of the symbol makes of registers r whose clock and count  *)
(* have been brought up to date.                                           *)
Settled(r, s, decoded) ==
    \/ Dropped(r, s)
    \/ /\ r.type # "NONE" => r.sc < r.exp
       /\ \/ SameLock(r, s)
          \/ TRUE \in decoded /\ r.type = "DMR" /\ Renewed(r, s, "DMR")

LEMMA CollectedDoes ==
    ASSUME NEW x, Sound(x), NEW n \in Nat,
           x.rx.count < x.rx.frag => Measured(x.rx, x.framer),
           NEW nids \in SUBSET (Kinds \cup {"refused"}), NEW decoded \in SUBSET BOOLEAN,
           NEW z \in Collected([x |-> x, excess |-> n], nids, decoded)
    PROVE  Settled(x.rx, z.rx, decoded) /\ Measured(z.rx, z.framer)
  <1> DEFINE y == [x EXCEPT !.rx.count = n]
             late == Expired(x.rx)
             more == x.rx.count < x.rx.frag
  <1>1. x \in Receiver /\ x.rx \in Registers  BY DEF Sound, Receiver
  <1>2. x.rx.sc \in Nat /\ x.rx.exp \in Nat  BY <1>1 DEF Registers
  <1>3. /\ late => z = LoseLock(x)
        /\ ~late /\ more => z = x
        /\ ~late /\ ~more => z \in Dispatch(y, nids, decoded)
    BY DEF Collected
  <1>4. ~late => (x.rx.type # "NONE" => x.rx.sc < x.rx.exp)
    BY <1>2 DEF Expired
  <1>5. y.rx = [x.rx EXCEPT !.count = n]  BY <1>1 DEF Receiver
  <1>6. /\ y \in Receiver /\ y.rx.frag = x.rx.frag /\ y.rx.type = x.rx.type
        /\ y.rx.until = x.rx.until /\ y.framer = x.framer /\ y.out = x.out
    BY <1>1, PutCount
  <1>7. Sound(y)  BY <1>6 DEF Sound, Fits
  <1>8. SameLock(x.rx, y.rx)  BY <1>1, <1>5, Keeps
  <1> HIDE DEF y, late, more
  <1>9. CASE late
    <2>1. Dropped(x.rx, z.rx)  BY <1>1, <1>3, <1>9, LoseLockDrops
    <2> QED  BY <2>1 DEF Settled, Dropped, Measured
  <1>10. CASE ~late /\ more
    <2>1. SameLock(x.rx, z.rx)  BY <1>3, <1>10 DEF SameLock
    <2> QED  BY <1>3, <1>4, <1>10, <2>1 DEF Settled, more
  <1>11. CASE ~late /\ ~more
    <2>1. /\ \/ Dropped(y.rx, z.rx)
             \/ SameLock(y.rx, z.rx)
             \/ TRUE \in decoded /\ y.rx.type = "DMR" /\ Renewed(y.rx, z.rx, "DMR")
          /\ Measured(z.rx, z.framer)
      BY <1>3, <1>7, <1>11, DispatchDoes
    <2>2. Dropped(y.rx, z.rx) => Dropped(x.rx, z.rx)
      BY <1>8 DEF Dropped, SameLock
    <2>3. SameLock(y.rx, z.rx) => SameLock(x.rx, z.rx)
      BY <1>8 DEF SameLock
    <2>4. Renewed(y.rx, z.rx, "DMR") => Renewed(x.rx, z.rx, "DMR")
      BY <1>8 DEF Renewed, SameLock, After
    <2> QED  BY <1>4, <1>6, <1>11, <2>1, <2>2, <2>3, <2>4 DEF Settled
  <1> QED  BY <1>9, <1>10, <1>11

(* The symbol is counted and the timers advance. *)
Tick(x) == [x EXCEPT !.rx.sc = (@ + 1) % CounterMod, !.age = Later(@)]

LEMMA TickDoes ==
    ASSUME NEW x, Sound(x)
    PROVE  LET y == Tick(x)
           IN  /\ Sound(y) /\ y \in Receiver
               /\ y.rx.sc = (x.rx.sc + 1) % CounterMod
               /\ y.rx.mask = x.rx.mask /\ y.rx.type = x.rx.type /\ y.rx.exp = x.rx.exp
               /\ y.rx.frag = x.rx.frag /\ y.rx.count = x.rx.count
               /\ y.framer = x.framer /\ y.out = x.out
               /\ x.age.sync < Second => y.age.sync = x.age.sync + 1
               /\ x.age.sync >= Second => y.age.sync = Second
  <1> DEFINE sc == (x.rx.sc + 1) % CounterMod
             l == Later(x.age)
             r == [x.rx EXCEPT !.sc = sc]
             y == [x EXCEPT !.rx = r, !.age = l]
  <1>1. /\ x \in Receiver /\ x.rx \in Registers /\ x.age \in Ages /\ x.rx.sc \in Nat
        /\ x.age.sync \in Nat /\ Second \in Nat
    BY ModeTypes DEF Sound, Receiver, Registers, Ages
  <1>2. sc \in 0 .. CounterMod - 1  BY SMT, <1>1, ModeTypes
  <1>3. l \in Ages  BY <1>1, AgeFields
  <1>4. /\ x.age.sync < Second => l.sync = x.age.sync + 1
        /\ x.age.sync >= Second => l.sync = Second
    <2>1. l.sync = IF x.age.sync < Second THEN x.age.sync + 1 ELSE Second
      BY <1>1 DEF Later, Ages
    <2> HIDE DEF l
    <2> QED  BY <1>1, <2>1
  <1>5. Tick(x) = y  BY DEF Tick
  <1> HIDE DEF l
  <1>6. /\ r.mask = x.rx.mask /\ r.type = x.rx.type /\ r.sc = sc /\ r.exp = x.rx.exp
        /\ r.frag = x.rx.frag /\ r.count = x.rx.count
    BY <1>1, Keeps
  <1>7. r \in Registers  BY <1>1, <1>2, RegisterFields
  <1> HIDE DEF r
  <1>8. y \in Receiver /\ y.rx = r /\ y.age = l /\ y.framer = x.framer /\ y.out = x.out
    BY <1>1, <1>3, <1>7 DEF Receiver
  <1> HIDE DEF y
  <1>9. Sound(y)  BY <1>6, <1>8 DEF Sound, Fits
  <1> QED  BY <1>4, <1>5, <1>6, <1>8, <1>9

LEMMA SearchDoes ==
    ASSUME NEW x \in Receiver
    PROVE  LET y == Search(x)
           IN  /\ y.rx = x.rx /\ y.framer = x.framer
               /\ x.age.sync < Second => y = x
               /\ ~(x.age.sync < Second) => y.out.report = "timeout"
  BY DEF Search, Receiver, Outs

LEMMA UnsyncedDoes ==
    ASSUME NEW x, Sound(x)
    PROVE  LET s == Unsynced(x)
           IN  /\ SameLock(x.rx, s.x.rx) /\ s.x.rx.frag = x.rx.frag
               /\ s.x.rx.count = x.rx.count + 1
               /\ s.x.framer = x.framer /\ s.x.out = x.out
               /\ s = [x |-> s.x, excess |-> 0]
  <1> DEFINE n == x.rx.count + 1
             r == [x.rx EXCEPT !.count = n]
             y == [x EXCEPT !.rx = r]
  <1>1. x \in Receiver /\ x.rx \in Registers  BY DEF Sound, Receiver
  <1>2. Unsynced(x) = [x |-> y, excess |-> 0]  BY DEF Unsynced
  <1> HIDE DEF n
  <1>3. SameLock(x.rx, r) /\ r.frag = x.rx.frag /\ r.count = n  BY <1>1, Keeps
  <1> HIDE DEF r
  <1>4. y.rx = r /\ y.framer = x.framer /\ y.out = x.out  BY <1>1 DEF Receiver
  <1> HIDE DEF y
  <1> QED  BY <1>2, <1>3, <1>4 DEF n

(* The ways of a symbol of a receiver that is not idle. *)
LEMMA SymbolWays ==
    ASSUME NEW x, x.rx.mask # Idle, NEW t, NEW dist, NEW nids, NEW decoded,
           NEW z \in RxSym(x, t, dist, nids, decoded)
    PROVE  \/ /\ t # "NONE" /\ Seen(x.rx, t, dist)
              /\ z \in Collected(Synced(Tick(x), t), nids, decoded)
           \/ /\ ~(t # "NONE" /\ Seen(x.rx, t, dist)) /\ x.rx.type = "NONE"
              /\ z = Search(Tick(x))
           \/ /\ ~(t # "NONE" /\ Seen(x.rx, t, dist)) /\ x.rx.type # "NONE"
              /\ z \in Collected(Unsynced(Tick(x)), nids, decoded)
  BY DEF RxSym, Tick

(* A symbol without a sync: the lock is dropped, keeps counting down or,   *)
(* on a DMR channel, is renewed by the sync inside the frame.              *)
Counted(r, s) ==
    /\ s.mask = r.mask /\ s.type = r.type /\ s.exp = r.exp
    /\ s.sc = (r.sc + 1) % CounterMod /\ s.sc < s.exp

LEMMA UnsyncedSymbol ==
    ASSUME NEW x, Sound(x), Measured(x.rx, x.framer), x.rx.type # "NONE",
           NEW nids \in SUBSET (Kinds \cup {"refused"}), NEW decoded \in SUBSET BOOLEAN,
           NEW z \in Collected(Unsynced(Tick(x)), nids, decoded)
    PROVE  /\ \/ Dropped(x.rx, z.rx)
              \/ Counted(x.rx, z.rx)
              \/ /\ TRUE \in decoded /\ x.rx.type = "DMR"
                 /\ \E r \in Registers : r.mask = x.rx.mask /\ Renewed(r, z.rx, "DMR")
           /\ Measured(z.rx, z.framer)
  <1> DEFINE y == Tick(x)
             s == Unsynced(y)
  <1>1. /\ Sound(y) /\ y.rx.sc = (x.rx.sc + 1) % CounterMod
        /\ y.rx.mask = x.rx.mask /\ y.rx.type = x.rx.type /\ y.rx.exp = x.rx.exp
        /\ y.rx.frag = x.rx.frag /\ y.framer = x.framer
    BY TickDoes
  <1> HIDE DEF y
  <1>2. /\ SameLock(y.rx, s.x.rx) /\ s.x.rx.frag = y.rx.frag /\ s.x.framer = y.framer
        /\ s = [x |-> s.x, excess |-> 0]
    BY <1>1, UnsyncedDoes
  <1>3. Sound(s.x)  BY <1>1, UnsyncedIsSound
  <1>4. z \in Collected(s, nids, decoded)  BY DEF y
  <1> HIDE DEF s
  <1> DEFINE w == s.x
  <1>5. Measured(w.rx, w.framer)  BY <1>1, <1>2 DEF Measured, SameLock
  <1>6. z \in Collected([x |-> w, excess |-> 0], nids, decoded)  BY <1>2, <1>4
  <1>7. Sound(w) /\ SameLock(y.rx, w.rx)  BY <1>2, <1>3
  <1> HIDE DEF w
  <1>8. Settled(w.rx, z.rx, decoded) /\ Measured(z.rx, z.framer)
    BY <1>5, <1>6, <1>7, CollectedDoes
  <1>9. CASE Dropped(w.rx, z.rx)
    BY <1>1, <1>7, <1>8, <1>9 DEF Dropped, SameLock
  <1>10. CASE w.rx.sc < w.rx.exp /\ SameLock(w.rx, z.rx)
    BY <1>1, <1>7, <1>8, <1>10 DEF Counted, SameLock
  <1>11. CASE TRUE \in decoded /\ w.rx.type = "DMR" /\ Renewed(w.rx, z.rx, "DMR")
    <2>1. w.rx \in Registers /\ w.rx.mask = x.rx.mask /\ x.rx.type = "DMR"
      BY <1>1, <1>7, <1>11 DEF Sound, Receiver, SameLock
    <2> QED  BY <1>8, <1>11, <2>1
  <1>12. w.rx.type # "NONE"  BY <1>1, <1>7 DEF SameLock
  <1> QED  BY <1>8, <1>9, <1>10, <1>11, <1>12 DEF Settled

(* A symbol that completes a sync of type t. *)
LEMMA SyncedSymbol ==
    ASSUME NEW x, Sound(x), NEW t \in Types \ {"NONE"},
           NEW nids \in SUBSET (Kinds \cup {"refused"}), NEW decoded \in SUBSET BOOLEAN,
           NEW z \in Collected(Synced(Tick(x), t), nids, decoded)
    PROVE  /\ \/ Dropped(x.rx, z.rx)
              \/ \E r \in Registers : r.mask = x.rx.mask /\ Renewed(r, z.rx, t)
           /\ Measured(z.rx, z.framer)
  <1> DEFINE y == Tick(x)
             s == Synced(y, t)
  <1>1. /\ Sound(y) /\ y.rx.mask = x.rx.mask
    BY TickDoes
  <1> HIDE DEF y
  <1>2. /\ SyncOutcome(y.rx, s.x.rx, s.excess, t)
        /\ s = [x |-> s.x, excess |-> s.excess]
    BY <1>1, SyncedDoes
  <1>3. Sound(s.x) /\ s.excess \in Nat  BY <1>1, SyncedIsSound
  <1>4. z \in Collected(s, nids, decoded)  BY DEF y
  <1> HIDE DEF s
  <1> DEFINE w == s.x
             n == s.excess
  <1>5. Sound(w) /\ n \in Nat /\ SyncOutcome(y.rx, w.rx, n, t)
        /\ z \in Collected([x |-> w, excess |-> n], nids, decoded)
    BY <1>2, <1>3, <1>4
  <1> HIDE DEF w, n
  <1>6. w.rx.count \in Nat /\ w.rx.frag \in Int /\ w.rx \in Registers /\ y.rx \in Registers
    BY <1>1, <1>5 DEF Sound, Receiver, Registers
  <1>7. Dropped(y.rx, w.rx) \/ Renewed(y.rx, w.rx, t)
    BY <1>5 DEF SyncOutcome, InPlace
  <1>8. w.rx.count < w.rx.frag => Measured(w.rx, w.framer)
    BY <1>5, <1>6 DEF SyncOutcome, InPlace, Measured, Dropped, Renewed, Nid
  <1>9. Settled(w.rx, z.rx, decoded) /\ Measured(z.rx, z.framer)
    BY <1>5, <1>8, CollectedDoes
  <1>10. CASE Dropped(w.rx, z.rx)
    BY <1>1, <1>7, <1>9, <1>10 DEF Dropped, Renewed
  <1>11. CASE SameLock(w.rx, z.rx)
    <2>1. CASE Dropped(y.rx, w.rx)
      BY <1>1, <1>9, <1>11, <2>1 DEF Dropped, SameLock
    <2>2. CASE Renewed(y.rx, w.rx, t)
      <3>1. Renewed(y.rx, z.rx, t)  BY <1>11, <2>2 DEF Renewed, SameLock
      <3> QED  BY <1>1, <1>6, <1>9, <3>1
    <2> QED  BY <1>7, <2>1, <2>2
  <1>12. CASE w.rx.type = "DMR" /\ Renewed(w.rx, z.rx, "DMR")
    <2>1. w.rx.mask = x.rx.mask /\ t = "DMR"
      BY <1>1, <1>7, <1>12 DEF Dropped, Renewed
    <2> QED  BY <1>6, <1>9, <1>12, <2>1
  <1> QED  BY <1>9, <1>10, <1>11, <1>12 DEF Settled

(* The clock of the lock and the length of a body survive every symbol. *)
LEMMA SymbolRests ==
    ASSUME NEW x, Sound(x), Measured(x.rx, x.framer),
           NEW t \in Types, NEW dist,
           NEW nids \in SUBSET (Kinds \cup {"refused"}), NEW decoded \in SUBSET BOOLEAN,
           NEW z \in RxSym(x, t, dist, nids, decoded)
    PROVE  /\ Clocked(x.rx) => Clocked(z.rx)
           /\ Measured(z.rx, z.framer) /\ z.rx.mask = x.rx.mask
           /\ z.rx.type \in {"NONE", x.rx.type, t}
  <1>1. x \in Receiver /\ x.rx \in Registers /\ "DMR" \in Types \ {"NONE"}
    BY DEF Sound, Receiver, Types
  <1>2. CASE x.rx.mask = Idle
    <2> DEFINE l == Later(x.age)
    <2>1. z = [x EXCEPT !.age = l]  BY <1>2 DEF RxSym
    <2> HIDE DEF l
    <2>2. z.rx = x.rx /\ z.framer = x.framer  BY <1>1, <2>1 DEF Receiver
    <2> QED  BY <2>2
  <1>3. CASE /\ x.rx.mask # Idle /\ t # "NONE"
             /\ z \in Collected(Synced(Tick(x), t), nids, decoded)
    <2>1. /\ \/ Dropped(x.rx, z.rx)
             \/ \E r \in Registers : r.mask = x.rx.mask /\ Renewed(r, z.rx, t)
          /\ Measured(z.rx, z.framer)
      BY <1>3, SyncedSymbol
    <2>2. CASE Dropped(x.rx, z.rx)  BY <2>1, <2>2 DEF Dropped, Clocked
    <2>3. CASE \E r \in Registers : r.mask = x.rx.mask /\ Renewed(r, z.rx, t)
      <3>1. PICK r \in Registers : r.mask = x.rx.mask /\ Renewed(r, z.rx, t)  BY <2>3
      <3>2. Clocked(z.rx)  BY <1>3, <3>1, RenewedClock
      <3> QED  BY <2>1, <3>1, <3>2 DEF Renewed
    <2> QED  BY <2>1, <2>2, <2>3
  <1>4. CASE x.rx.mask # Idle /\ x.rx.type = "NONE" /\ z = Search(Tick(x))
    <2> DEFINE y == Tick(x)
    <2>1. /\ Sound(y) /\ y.rx.mask = x.rx.mask /\ y.rx.type = x.rx.type
          /\ y \in Receiver
      BY TickDoes
    <2> HIDE DEF y
    <2>2. z.rx = y.rx  BY <1>4, <2>1, SearchDoes DEF y
    <2> QED  BY <1>4, <2>1, <2>2 DEF Clocked, Measured
  <1>5. CASE /\ x.rx.type # "NONE"
             /\ z \in Collected(Unsynced(Tick(x)), nids, decoded)
    <2>1. /\ \/ Dropped(x.rx, z.rx)
             \/ Counted(x.rx, z.rx)
             \/ /\ TRUE \in decoded /\ x.rx.type = "DMR"
                /\ \E r \in Registers : r.mask = x.rx.mask /\ Renewed(r, z.rx, "DMR")
          /\ Measured(z.rx, z.framer)
      BY <1>5, UnsyncedSymbol
    <2>2. CASE Dropped(x.rx, z.rx)  BY <2>1, <2>2 DEF Dropped, Clocked
    <2>3. CASE Counted(x.rx, z.rx)
      <3>1. Clocked(x.rx) => Clocked(z.rx)  BY <1>1, <1>5, <2>3, Ticks DEF Counted
      <3> QED  BY <2>1, <2>3, <3>1 DEF Counted
    <2>4. CASE /\ x.rx.type = "DMR"
               /\ \E r \in Registers : r.mask = x.rx.mask /\ Renewed(r, z.rx, "DMR")
      <3>1. PICK r \in Registers : r.mask = x.rx.mask /\ Renewed(r, z.rx, "DMR")  BY <2>4
      <3>2. Clocked(z.rx)  BY <1>1, <3>1, RenewedClock
      <3> QED  BY <2>1, <2>4, <3>1, <3>2 DEF Renewed
    <2> QED  BY <2>1, <2>2, <2>3, <2>4
  <1>6. CASE x.rx.mask # Idle  BY <1>3, <1>4, <1>5, <1>6, SymbolWays
  <1> QED  BY <1>2, <1>6

(* A symbol of a silent channel brings the report one nearer, whether the  *)
(* receiver is locked or searches.                                         *)
LEMMA SilentSymbol ==
    ASSUME NEW x, Sound(x), Clocked(x.rx), Measured(x.rx, x.framer), x.rx.mask # Idle,
           NEW dist, NEW nids \in SUBSET (Kinds \cup {"refused"}),
           NEW z \in RxSym(x, "NONE", dist, nids, {FALSE})
    PROVE  /\ x.rx.type = "NONE" =>
                 /\ z.rx.type = "NONE"
                 /\ \/ z.out.report = "timeout"
                    \/ x.age.sync < Second /\ z.age.sync = x.age.sync + 1
           /\ x.rx.type # "NONE" =>
                 \/ z.rx.type = "NONE"
                 \/ z.rx.type = x.rx.type /\ Left(z.rx) = Left(x.rx) - 1
  <1>1. x \in Receiver /\ x.rx \in Registers  BY DEF Sound, Receiver
  <1>2. CASE x.rx.type = "NONE"
    <2> DEFINE y == Tick(x)
    <2>1. /\ y \in Receiver /\ y.rx.type = x.rx.type
          /\ x.age.sync < Second => y.age.sync = x.age.sync + 1
          /\ x.age.sync >= Second => y.age.sync = Second
      BY TickDoes
    <2> HIDE DEF y
    <2>2. z = Search(y)
      <3>1. z = Search(Tick(x))  BY <1>2, SymbolWays
      <3> QED  BY <3>1 DEF y
    <2>3. /\ z.rx = y.rx
          /\ y.age.sync < Second => z = y
          /\ ~(y.age.sync < Second) => z.out.report = "timeout"
      BY <2>1, <2>2, SearchDoes
    <2>4. x.age.sync \in Nat /\ Second \in Nat  BY <1>1, ModeTypes DEF Receiver, Ages
    <2> QED  BY <1>2, <2>1, <2>3, <2>4
  <1>3. CASE x.rx.type # "NONE"
    <2>1. z \in Collected(Unsynced(Tick(x)), nids, {FALSE})  BY <1>3, SymbolWays
    <2> DEFINE never == {FALSE}
    <2>2. never \in SUBSET BOOLEAN /\ TRUE \notin never  OBVIOUS
    <2>3. z \in Collected(Unsynced(Tick(x)), nids, never)  BY <2>1
    <2> HIDE DEF never
    <2>4. Dropped(x.rx, z.rx) \/ Counted(x.rx, z.rx)
      BY <1>3, <2>2, <2>3, UnsyncedSymbol
    <2>5. CASE Dropped(x.rx, z.rx)  BY <1>3, <2>5 DEF Dropped
    <2>6. CASE Counted(x.rx, z.rx)  BY <1>1, <1>3, <2>6, Ticks DEF Counted
    <2> QED  BY <2>4, <2>5, <2>6
  <1> QED  BY <1>2, <1>3

-----------------------------------------------------------------------------
(* A channel that carries good frames. *)

(* A frame was begun with the sync that has just been recognised. *)
Begun(r) ==
    /\ r.type = "P25P1" /\ r.sc < r.exp /\ r.exp - r.sc = Mode["P25P1"].life
    /\ r.frag = Nid /\ r.count = SyncEnd("P25P1")

WholeFrame(o) == o.frame \in Kinds /\ o.body = "whole"

LEMMA SearchSymbol ==
    ASSUME NEW x, Sound(x), x.rx.mask # Idle, x.rx.type = "NONE",
           NEW dist, NEW nids, NEW decoded,
           NEW z \in RxSym(x, "NONE", dist, nids, decoded)
    PROVE  z.rx.type = "NONE" /\ z.rx.sc = (x.rx.sc + 1) % CounterMod
  <1> DEFINE y == Tick(x)
  <1>1. /\ y \in Receiver /\ y.rx.type = x.rx.type
        /\ y.rx.sc = (x.rx.sc + 1) % CounterMod
    BY TickDoes
  <1>2. z = Search(Tick(x))  BY SymbolWays
  <1> HIDE DEF y
  <1>3. z.rx = y.rx  BY <1>1, <1>2, SearchDoes DEF y
  <1> QED  BY <1>1, <1>3

LEMMA CollectedUnexpired ==
    ASSUME NEW x \in Receiver, NEW n, NEW nids, NEW decoded,
           x.rx.type = "P25P1", x.rx.sc < x.rx.exp,
           NEW z \in Collected([x |-> x, excess |-> n], nids, decoded)
    PROVE  /\ x.rx.count < x.rx.frag => z = x
           /\ ~(x.rx.count < x.rx.frag) =>
                 z \in Dispatch([x EXCEPT !.rx.count = n], nids, decoded)
  <1>1. x.rx.sc \in Nat /\ x.rx.exp \in Nat  BY DEF Receiver, Registers
  <1>2. ~Expired(x.rx)  BY <1>1 DEF Expired
  <1> QED  BY <1>2 DEF Collected

(* A fragment of a P25 phase 1 frame is complete; count is what already    *)
(* belongs to the next.                                                    *)
LEMMA FragmentDone ==
    ASSUME NEW x, Sound(x), NEW n \in Nat, x.rx.type = "P25P1",
           NEW nids \in SUBSET (Kinds \cup {"refused"}), NEW decoded \in SUBSET BOOLEAN,
           NEW z \in Dispatch([x EXCEPT !.rx.count = n], nids, decoded)
    PROVE  /\ x.rx.frag = Nid /\ nids = {"refused"} => Dropped(x.rx, z.rx)
           /\ \A k \in Kinds : x.rx.frag = Nid /\ nids = {k} =>
                 /\ SameLock(x.rx, z.rx) /\ z.rx.frag = BodyLen[k] /\ z.rx.count = n
                 /\ z.framer.duid = k /\ z.framer.rest = "due"
           /\ x.rx.frag # Nid =>
                 /\ SameLock(x.rx, z.rx) /\ z.rx.frag = Nid /\ z.rx.count = n
                 /\ Measured(x.rx, x.framer) => WholeFrame(z.out)
  <1> DEFINE y == [x EXCEPT !.rx.count = n]
  <1>1. x \in Receiver /\ x.rx \in Registers  BY DEF Sound, Receiver
  <1>2. y.rx = [x.rx EXCEPT !.count = n]  BY <1>1 DEF Receiver
  <1>3. /\ y \in Receiver /\ y.rx.frag = x.rx.frag /\ y.rx.type = x.rx.type
        /\ y.rx.count = n /\ y.framer = x.framer /\ y.out = x.out
    BY <1>1, PutCount
  <1>4. Sound(y)  BY <1>3 DEF Sound, Fits
  <1>5. SameLock(x.rx, y.rx)  BY <1>1, <1>2, Keeps
  <1> HIDE DEF y
  <1>6. z \in Dispatch(y, nids, decoded)  BY DEF y
  <1>7. /\ Dropped(y.rx, z.rx) => Dropped(x.rx, z.rx)
        /\ SameLock(y.rx, z.rx) => SameLock(x.rx, z.rx)
    BY <1>5 DEF Dropped, SameLock
  <1>8. CASE x.rx.frag = Nid
    <2>1. PICK nid \in nids : z = LoadNid(y, nid)
      BY <1>3, <1>6, <1>8 DEF Dispatch, Nid
    <2>2. /\ nid = "refused" => Dropped(y.rx, z.rx)
          /\ nid # "refused" =>
                /\ SameLock(y.rx, z.rx) /\ z.rx.frag = BodyLen[nid] /\ z.rx.count = n
                /\ z.framer.duid = nid /\ z.framer.rest = "due"
      BY <1>3, <2>1, LoadNidDoes
    <2>3. "refused" \notin Kinds  BY RxSyncAssumption DEF RxSyncAssumption
    <2> QED  BY <1>7, <1>8, <2>1, <2>2, <2>3
  <1>9. CASE x.rx.frag # Nid
    <2>1. PICK ok \in BOOLEAN : z = LoadBody(y, ok)
      <3> DEFINE S == IF y.framer.duid = "HDU" THEN {FALSE}
                      ELSE IF y.framer.duid \in {"TSBK", "PDU"} THEN decoded
                      ELSE {TRUE}
      <3>1. Dispatch(y, nids, decoded) = {LoadBody(y, ok) : ok \in S}
        BY <1>3, <1>9 DEF Dispatch, Nid
      <3>2. S \subseteq BOOLEAN  OBVIOUS
      <3> HIDE DEF S
      <3> QED  BY <1>6, <3>1, <3>2
    <2>2. /\ SameLock(y.rx, z.rx) /\ z.rx.frag = Nid /\ z.rx.count = n
          /\ y.rx.frag = BodyLen[y.framer.duid] =>
                z.out.frame \in Kinds /\ z.out.body = "whole"
      BY <1>3, <1>4, <1>9, <2>1, LoadBodyDoes
    <2> QED  BY <1>3, <1>7, <1>9, <2>2 DEF Measured, WholeFrame
  <1> QED  BY <1>8, <1>9

(* One symbol of a frame that is followed from its sync on. *)
LEMMA TrackSymbol ==
    ASSUME NEW x, Sound(x), Measured(x.rx, x.framer), x.rx.mask # Idle,
           x.rx.type = "P25P1", Clocked(x.rx), x.rx.sc < x.rx.exp, x.rx.exp - x.rx.sc >= 2,
           NEW dist,
           NEW nids \in SUBSET (Kinds \cup {"refused"}), NEW decoded \in SUBSET BOOLEAN,
           NEW z \in RxSym(x, "NONE", dist, nids, decoded)
    PROVE  /\ x.rx.count + 1 < x.rx.frag =>
                 /\ Counted(x.rx, z.rx) /\ z.rx.frag = x.rx.frag
                 /\ z.rx.count = x.rx.count + 1 /\ z.framer = x.framer
           /\ \A k \in Kinds : x.rx.frag = Nid /\ x.rx.count + 1 = Nid /\ nids = {k} =>
                 /\ Counted(x.rx, z.rx) /\ z.rx.frag = BodyLen[k] /\ z.rx.count = 0
                 /\ z.framer.duid = k /\ z.framer.rest = "due"
           /\ x.rx.frag # Nid /\ x.rx.count + 1 >= x.rx.frag => WholeFrame(z.out)
  <1> DEFINE y == Tick(x)
             s == Unsynced(y)
  <1>1. /\ Sound(y) /\ y.rx.sc = (x.rx.sc + 1) % CounterMod
        /\ y.rx.mask = x.rx.mask /\ y.rx.type = x.rx.type /\ y.rx.exp = x.rx.exp
        /\ y.rx.frag = x.rx.frag /\ y.rx.count = x.rx.count /\ y.framer = x.framer
    BY TickDoes
  <1> HIDE DEF y
  <1>2. /\ SameLock(y.rx, s.x.rx) /\ s.x.rx.frag = y.rx.frag
        /\ s.x.rx.count = y.rx.count + 1 /\ s.x.framer = y.framer
        /\ s = [x |-> s.x, excess |-> 0]
    BY <1>1, UnsyncedDoes
  <1>3. Sound(s.x)  BY <1>1, UnsyncedIsSound
  <1>4. z \in Collected(s, nids, decoded)
    <2>1. z \in Collected(Unsynced(Tick(x)), nids, decoded)  BY SymbolWays
    <2> QED  BY <2>1 DEF y
  <1> HIDE DEF s
  <1> DEFINE w == s.x
             n == 0
  <1>5. /\ Sound(w) /\ w \in Receiver /\ SameLock(y.rx, w.rx) /\ w.rx.type = "P25P1"
        /\ w.rx.frag = x.rx.frag /\ w.rx.count = x.rx.count + 1 /\ w.framer = x.framer
        /\ z \in Collected([x |-> w, excess |-> n], nids, decoded)
        /\ n \in Nat /\ n = 0
    BY <1>1, <1>2, <1>3, <1>4 DEF SameLock, Sound
  <1> HIDE DEF w, n
  <1>6. /\ x.rx \in Registers /\ x.rx.sc \in Nat /\ x.rx.exp \in Nat
        /\ x.rx.count \in Nat /\ x.rx.frag \in Int
    BY DEF Sound, Receiver, Registers
  <1>7. /\ w.rx.sc = (x.rx.sc + 1) % CounterMod /\ w.rx.exp = x.rx.exp /\ w.rx.mask = x.rx.mask
    BY <1>1, <1>5 DEF SameLock
  <1>8. w.rx.sc < w.rx.exp
    <2>1. Left(x.rx) >= 2  BY <1>6 DEF Left
    <2> QED  BY <1>5, <1>6, <1>7, <2>1, Ticks
  <1>9. \A r : SameLock(w.rx, r) => Counted(x.rx, r)
    BY <1>5, <1>7, <1>8 DEF SameLock, Counted
  <1>10. SameLock(w.rx, w.rx)  BY DEF SameLock
  <1>11. CASE w.rx.count < w.rx.frag
    <2>1. /\ w \in Receiver /\ w.rx.type = "P25P1" /\ w.rx.sc < w.rx.exp
          /\ z \in Collected([x |-> w, excess |-> n], nids, decoded)
      BY <1>5, <1>8
    <2>10. w.rx.count < w.rx.frag => z = w  
      <3>1. w.rx.sc \in Nat /\ w.rx.exp \in Nat  BY <2>1 DEF Receiver, Registers
      <3>2. ~Expired(w.rx)  BY <2>1, <3>1 DEF Expired
      <3> QED  BY <2>1, <3>2 DEF Collected
    <2>11. z = w  BY <1>11, <2>10
    <2>2. /\ Counted(x.rx, z.rx) /\ z.rx.frag = x.rx.frag
          /\ z.rx.count = x.rx.count + 1 /\ z.framer = x.framer
      BY <1>5, <1>9, <1>10, <2>11
    <2>3. x.rx.count + 1 < x.rx.frag  BY <1>5, <1>11
    <2>4. x.rx.count + 1 # x.rx.frag /\ ~(x.rx.count + 1 >= x.rx.frag)  BY <1>6, <2>3
    <2> QED  BY <2>2, <2>4
  <1>12. CASE ~(w.rx.count < w.rx.frag)
    <2>1. z \in Dispatch([w EXCEPT !.rx.count = n], nids, decoded)
      BY <1>5, <1>8, <1>12, CollectedUnexpired
    <2>2. Sound(w) /\ w.rx.type = "P25P1" /\ n \in Nat  BY <1>5
    <2>3. /\ w.rx.frag = Nid /\ nids = {"refused"} => Dropped(w.rx, z.rx)
          /\ \A k \in Kinds : w.rx.frag = Nid /\ nids = {k} =>
                 /\ SameLock(w.rx, z.rx) /\ z.rx.frag = BodyLen[k] /\ z.rx.count = n
                 /\ z.framer.duid = k /\ z.framer.rest = "due"
          /\ w.rx.frag # Nid =>
                 /\ SameLock(w.rx, z.rx) /\ z.rx.frag = Nid /\ z.rx.count = n
                 /\ Measured(w.rx, w.framer) => WholeFrame(z.out)
      BY <2>1, <2>2, FragmentDone
    <2>4. Measured(w.rx, w.framer)  BY <1>5 DEF Measured
    <2>5. ~(x.rx.count + 1 < x.rx.frag)  BY <1>5, <1>12
    <2>6. x.rx.frag # Nid => WholeFrame(z.out)  BY <1>5, <2>3, <2>4
    <2>7. \A k \in Kinds : x.rx.frag = Nid /\ nids = {k} =>
             /\ Counted(x.rx, z.rx) /\ z.rx.frag = BodyLen[k] /\ z.rx.count = 0
             /\ z.framer.duid = k /\ z.framer.rest = "due"
      BY <1>5, <1>9, <2>3
    <2> QED  BY <2>5, <2>6, <2>7
  <1> QED  BY <1>11, <1>12

(* The sync of a good frame begins it, unless it comes where the receiver  *)
(* does not expect one or ends the body it was collecting.                 *)
LEMMA SyncSymbol ==
    ASSUME NEW x, Sound(x), Measured(x.rx, x.framer), x.rx.mask # Idle,
           NEW decoded \in SUBSET BOOLEAN,
           NEW z \in RxSym(x, "P25P1", 0, {"refused"}, decoded)
    PROVE  /\ \/ Begun(z.rx)
              \/ z.rx.type = "NONE" /\ z.rx.sc = 0
              \/ WholeFrame(z.out)
           /\ x.rx.type = "NONE" /\ x.rx.sc + 1 + Mode["P25P1"].life < CounterMod => Begun(z.rx)
  <1> DEFINE y == Tick(x)
             t == "P25P1"
             s == Synced(y, t)
             none == {"refused"}
  <1>1. /\ Sound(y) /\ y.rx.sc = (x.rx.sc + 1) % CounterMod /\ y.rx.type = x.rx.type
        /\ y.rx.frag = x.rx.frag /\ y.framer = x.framer
    BY TickDoes
  <1>2. z \in Collected(Synced(Tick(x), "P25P1"), {"refused"}, decoded)
    <2>1. x.rx.thr >= 0  BY DEF Sound, Receiver, Registers
    <2>2. Seen(x.rx, "P25P1", 0)  BY <2>1 DEF Seen
    <2> QED  BY <2>2, SymbolWays
  <1> HIDE DEF y
  <1>3. t \in Types \ {"NONE"} /\ t = "P25P1"  BY DEF Types
  <1>4. none \in SUBSET (Kinds \cup {"refused"})  OBVIOUS
  <1>5. z \in Collected(s, none, decoded)  BY <1>2 DEF y
  <1> HIDE DEF t
  <1>6. /\ SyncOutcome(y.rx, s.x.rx, s.excess, t)
        /\ y.rx.type # t => InPlace(y.rx, s.x.rx, s.excess, t)
        /\ s.x.framer = y.framer
        /\ s = [x |-> s.x, excess |-> s.excess]
    BY <1>1, <1>3, SyncedDoes
  <1>7. Sound(s.x) /\ s.excess \in Nat  BY <1>1, <1>3, SyncedIsSound
  <1> HIDE DEF s
  <1> DEFINE w == s.x
             n == s.excess
             v == [w EXCEPT !.rx.count = n]
  <1>8. /\ Sound(w) /\ n \in Nat /\ SyncOutcome(y.rx, w.rx, n, t) /\ w.framer = x.framer
        /\ x.rx.type # "P25P1" => InPlace(y.rx, w.rx, n, t)
        /\ z \in Collected([x |-> w, excess |-> n], none, decoded)
    BY <1>1, <1>3, <1>5, <1>6, <1>7
  <1> HIDE DEF w, n
  <1>9. /\ w \in Receiver /\ w.rx \in Registers /\ y.rx \in Registers
        /\ w.rx.count \in Nat /\ w.rx.frag \in Int /\ w.rx.sc \in Nat /\ w.rx.exp \in Nat
    BY <1>1, <1>8 DEF Sound, Receiver, Registers
  <1>10. SyncEnd("P25P1") < Nid /\ SyncEnd("P25P1") \in Nat /\ Nid = Mode["P25P1"].frag /\ Nid \in Nat
    BY LifeFacts DEF Nid
  <1>11. CASE Dropped(y.rx, w.rx) /\ w.rx.frag = 0 /\ w.rx.count = 0
    <2>1. Settled(w.rx, z.rx, decoded)
      <3>1. w.rx.count < w.rx.frag => Measured(w.rx, w.framer)  BY <1>9, <1>11
      <3> QED  BY <1>4, <1>8, <3>1, CollectedDoes
    <2>2. z.rx.type = "NONE" /\ z.rx.sc = 0
      BY <1>11, <2>1 DEF Settled, Dropped, SameLock
    <2>3. x.rx.type = "P25P1"  BY <1>3, <1>8, <1>11 DEF InPlace, Renewed, Dropped
    <2> QED  BY <2>2, <2>3
  <1>12. CASE Renewed(y.rx, w.rx, t)
    <2>1. /\ w.rx.sc < w.rx.exp <=> y.rx.sc + Mode["P25P1"].life < CounterMod
          /\ w.rx.sc < w.rx.exp => w.rx.exp - w.rx.sc = Mode["P25P1"].life
      BY <1>3, <1>9, <1>12, RenewedClock
    <2>2. w.rx.type = "P25P1"  BY <1>3, <1>12 DEF Renewed
    <2>3. CASE ~(w.rx.sc < w.rx.exp)
      <3>1. Expired(w.rx)  BY <1>9, <2>2, <2>3 DEF Expired
      <3>2. z = LoseLock(w)  BY <1>8, <3>1 DEF Collected
      <3>3. z.rx.type = "NONE" /\ z.rx.sc = 0  BY <1>9, <3>2, LoseLockDrops DEF Dropped
      <3>4. ASSUME x.rx.sc + 1 + Mode["P25P1"].life < CounterMod PROVE FALSE
        <4>1. /\ x.rx.sc \in Nat /\ CounterMod \in Nat /\ 1 < CounterMod
              /\ Mode["P25P1"].life \in Nat /\ x.rx.sc < CounterMod
          BY LifeFacts DEF Sound, Receiver, Registers
        <4>2. y.rx.sc = x.rx.sc + 1  BY <1>1, <3>4, <4>1, WrapsOnce
        <4> QED  BY <2>1, <2>3, <3>4, <4>2
      <3> QED  BY <3>3, <3>4
    <2>4. CASE w.rx.sc < w.rx.exp
      <3>1. \A r : SameLock(w.rx, r) /\ r.frag = Nid /\ r.count = SyncEnd("P25P1") => Begun(r)
        BY <1>10, <2>1, <2>2, <2>4 DEF SameLock, Begun
      <3>2. SameLock(w.rx, w.rx)  BY DEF SameLock
      <3>3. CASE InPlace(y.rx, w.rx, n, t)
        <4>1. w.rx.frag = Nid /\ w.rx.count = SyncEnd("P25P1")
          BY <1>3, <1>10, <3>3 DEF InPlace
        <4>2. z = w  BY <1>8, <1>9, <1>10, <2>2, <2>4, <4>1, CollectedUnexpired
        <4> QED  BY <3>1, <3>2, <4>1, <4>2
      <3>4. ASSUME ~InPlace(y.rx, w.rx, n, t)
            PROVE  /\ \/ Begun(z.rx)
                      \/ z.rx.type = "NONE" /\ z.rx.sc = 0
                      \/ WholeFrame(z.out)
                   /\ x.rx.type = "P25P1"
        <4>1. /\ w.rx.frag <= w.rx.count
              /\ \/ n = SyncEnd("P25P1")
                 \/ w.rx.frag # Nid /\ w.rx.frag = y.rx.frag /\ y.rx.type = "P25P1"
          <5>1. w.rx.frag <= w.rx.count
            BY <1>8, <1>9, <1>3, <2>2, <3>4 DEF SyncOutcome, Dropped
          <5> QED  BY <1>3, <1>8, <1>10, <2>2, <3>4, <5>1 DEF SyncOutcome, Dropped
        <4>2. ~(w.rx.count < w.rx.frag)  BY <1>9, <4>1
        <4>3. z \in Dispatch(v, none, decoded)
          BY <1>8, <1>9, <2>2, <2>4, <4>2, CollectedUnexpired
        <4>4. /\ w.rx.frag = Nid => Dropped(w.rx, z.rx)
              /\ w.rx.frag # Nid =>
                    /\ SameLock(w.rx, z.rx) /\ z.rx.frag = Nid /\ z.rx.count = n
                    /\ Measured(w.rx, w.framer) => WholeFrame(z.out)
          BY <1>4, <1>8, <2>2, <4>3, FragmentDone
        <4>5. CASE w.rx.frag = Nid
          <5>1. z.rx.type = "NONE" /\ z.rx.sc = 0  BY <4>4, <4>5 DEF Dropped
          <5> QED  BY <1>8, <3>4, <5>1
        <4>6. CASE w.rx.frag # Nid /\ n = SyncEnd("P25P1")
          BY <1>8, <3>1, <3>4, <4>4, <4>6
        <4>7. CASE w.rx.frag # Nid /\ w.rx.frag = y.rx.frag /\ y.rx.type = "P25P1"
          <5>1. Measured(w.rx, w.framer)  BY <1>1, <1>8, <4>7 DEF Measured
          <5> QED  BY <1>1, <4>4, <4>7, <5>1
        <4> QED  BY <4>1, <4>5, <4>6, <4>7
      <3> QED  BY <3>3, <3>4
    <2> QED  BY <2>3, <2>4
  <1> QED  BY <1>8, <1>11, <1>12 DEF SyncOutcome, InPlace

(* Of the stores of sync_reset() the first five drop the lock; those after *)
(* them leave its clock alone.                                             *)
LEMMA StoreRests ==
    ASSUME NEW r \in Registers, NEW f, Measured(r, f), NEW n \in 0 .. 7
    PROVE  /\ LET s == Store(r, 1, n)
              IN  /\ Measured(s, f) /\ s.type \in {"NONE", r.type}
                  /\ n >= 5 => s.type = "NONE"
           /\ LET s == Store(r, n + 1, 7)
              IN  /\ Measured(s, f) /\ s.type \in {"NONE", r.type}
                  /\ n >= 5 => (Clocked(r) => Clocked(s))
                  /\ n < 5 => Clocked(s)
  <1>1. LET s == Store(r, 1, n)
        IN  /\ Measured(s, f) /\ s.type \in {"NONE", r.type}
            /\ n >= 5 => s.type = "NONE"
    <2> DEFINE s == Store(r, 1, n)
    <2>1. /\ Within(5, 1, n) <=> n >= 5
          /\ n < 6 => ~ Within(6, 1, n)
      BY SMT DEF Within
    <2>2. 1 \in 1 .. 8  OBVIOUS
    <2>3. /\ s.type = IF Within(5, 1, n) THEN "NONE" ELSE r.type
          /\ s.frag = IF Within(6, 1, n) THEN Mode[s.type].frag ELSE r.frag
      BY <2>2, StoreFields, SMTT(60)
    <2> HIDE DEF s
    <2>4. /\ s.type = IF n >= 5 THEN "NONE" ELSE r.type
          /\ n < 6 => s.frag = r.frag
      BY <2>1, <2>3
    <2> QED  BY <2>4 DEF Measured, s
  <1>2. LET s == Store(r, n + 1, 7)
        IN  /\ Measured(s, f) /\ s.type \in {"NONE", r.type}
            /\ n >= 5 => (Clocked(r) => Clocked(s))
            /\ n < 5 => Clocked(s)
    <2> DEFINE s == Store(r, n + 1, 7)
    <2>1. /\ s.type = IF n < 5 THEN "NONE" ELSE r.type
          /\ s.frag = IF n < 6 THEN Mode[s.type].frag ELSE r.frag
      <3> DEFINE from == n + 1
      <3>1. /\ from \in 1 .. 8 /\ 7 \in 0 .. 7
            /\ Within(5, from, 7) <=> n < 5
            /\ Within(6, from, 7) <=> n < 6
        BY SMT DEF Within
      <3>2. s = Store(r, from, 7)  OBVIOUS
      <3> HIDE DEF s, from
      <3>3. /\ s.type = IF Within(5, from, 7) THEN "NONE" ELSE r.type
            /\ s.frag = IF Within(6, from, 7) THEN Mode[s.type].frag ELSE r.frag
        BY <3>1, <3>2, StoreFields, SMTT(60)
      <3> QED  BY <3>1, <3>3
    <2>2. n >= 5 => s.sc = r.sc /\ s.exp = r.exp
      <3> DEFINE some == {Stores[i] : i \in n + 1 .. 7}
                 z == Reset(r)
                 w == [g \in DOMAIN r |-> IF g \in some THEN z[g] ELSE r[g]]
                 m == IF "frag" \in some THEN Mode[w.type].frag ELSE w.frag
      <3>1. n >= 5 => "sc" \notin some /\ "exp" \notin some
        BY SMT DEF Stores
      <3>2. s = [w EXCEPT !.frag = m]  BY DEF Store
      <3> HIDE DEF some, z, s
      <3>3. /\ "sc" \notin some => w.sc = r.sc
            /\ "exp" \notin some => w.exp = r.exp
            /\ DOMAIN w = DOMAIN r
        BY DEF Registers
      <3> HIDE DEF w, m
      <3>4. s.sc = w.sc /\ s.exp = w.exp  BY <3>2, <3>3 DEF Registers
      <3> QED  BY <3>1, <3>3, <3>4
    <2> HIDE DEF s
    <2>3. Measured(s, f)  BY <2>1 DEF Measured, Nid
    <2>4. n >= 5 => (Clocked(r) => Clocked(s))  BY <2>1, <2>2 DEF Clocked, Left
    <2>5. n < 5 => Clocked(s)  BY <2>1 DEF Clocked
    <2> QED  BY <2>1, <2>3, <2>4, <2>5 DEF s
  <1> QED  BY <1>1, <1>2

-----------------------------------------------------------------------------
(* A bounded set of numbers has a greatest. *)
LEMMA LongestIs ==
    ASSUME NEW S \in SUBSET Nat, S # {}, NEW M \in Nat, \A n \in S : n <= M
    PROVE  Longest(S) \in S /\ \A m \in S : m <= Longest(S)
  <1> DEFINE T == {M - n : n \in S}
             R == OpToRel(<, Nat)
  <1>1. T \subseteq Nat /\ T # {}
    <2>1. \A n \in S : M - n \in Nat  OBVIOUS
    <2> QED  BY <2>1
  <1>2. IsWellFoundedOn(R, Nat)  BY NatLessThanWellFounded
  <1>3. \A a, b \in Nat : <<a, b>> \in R <=> a < b  BY DEF OpToRel
  <1> HIDE DEF R
  <1>4. PICK a \in T : \A b \in T : ~ (<<b, a>> \in R)
    <2>1. T \in SUBSET Nat  BY <1>1
    <2> HIDE DEF T
    <2> QED  BY <1>1, <1>2, <2>1, WFMin, Zenon
  <1>5. PICK g \in S : a = M - g  BY <1>4
  <1>6. ASSUME NEW m \in S PROVE m <= g
    <2> DEFINE b == M - m
    <2>1. b \in T  OBVIOUS
    <2>2. b \in Nat /\ a \in Nat  BY <1>1, <1>4, <2>1
    <2> HIDE DEF b
    <2>3. ~ (b < a)  BY <1>3, <1>4, <2>1, <2>2, Zenon
    <2> QED  BY <1>5, <2>2, <2>3 DEF b
  <1> QED  BY <1>5, <1>6 DEF Longest

LongestFrame == Longest({FrameLen(k) : k \in Kinds})

LongestLife == Longest({Mode[t].life : t \in OnAir})

LEMMA LongestFacts ==
    /\ LongestFrame \in Nat /\ \A k \in Kinds : FrameLen(k) <= LongestFrame
    /\ LongestLife \in Nat /\ \A t \in OnAir : Mode[t].life <= LongestLife
  <1>1. Kinds # {} /\ OnAir # {} /\ OnAir \subseteq Types \ {"NONE"}
    BY RxSyncAssumption DEF RxSyncAssumption
  <1>2. LongestFrame \in Nat /\ \A k \in Kinds : FrameLen(k) <= LongestFrame
    <2> DEFINE S == {FrameLen(k) : k \in Kinds}
               M == Mode["P25P1"].life
    <2>1. M \in Nat /\ \A k \in Kinds : FrameLen(k) \in Nat /\ FrameLen(k) <= M
      BY LifeFacts
    <2> HIDE DEF M
    <2>2. S \in SUBSET Nat /\ S # {} /\ \A n \in S : n <= M  BY <1>1, <2>1
    <2>3. \A k \in Kinds : FrameLen(k) \in S  OBVIOUS
    <2> HIDE DEF S
    <2>4. Longest(S) \in S /\ \A m \in S : m <= Longest(S)  BY <2>1, <2>2, LongestIs
    <2> QED  BY <2>2, <2>3, <2>4 DEF LongestFrame, S
  <1>3. LongestLife \in Nat /\ \A t \in OnAir : Mode[t].life <= LongestLife
    <2> DEFINE S == {Mode[t].life : t \in OnAir}
    <2>1. CounterMod \in Nat /\ \A t \in OnAir : Mode[t].life \in Nat /\ Mode[t].life <= CounterMod
      BY <1>1, LifeFacts
    <2>2. S \in SUBSET Nat /\ S # {} /\ \A n \in S : n <= CounterMod  BY <1>1, <2>1
    <2>3. \A t \in OnAir : Mode[t].life \in S  OBVIOUS
    <2> HIDE DEF S
    <2>4. Longest(S) \in S /\ \A m \in S : m <= Longest(S)  BY <2>1, <2>2, LongestIs
    <2> QED  BY <2>2, <2>3, <2>4 DEF LongestLife, S
  <1> QED  BY <1>2, <1>3

(* The channel while a symbol passes. *)
LEMMA AirProgress ==
    ASSUME AirType, AirMoves
    PROVE  /\ AirType' /\ air'.how = air.how
           /\ air'.wait <= air.wait + 1
           /\ air.how = "rough" \/ Answered => air'.wait = 0
           /\ air.how = "good" =>
                 IF air.pos + 1 < FrameLen(air.kind)
                 THEN air'.kind = air.kind /\ air'.pos = air.pos + 1
                 ELSE air'.pos = 0
  <1> DEFINE w == IF air.how = "rough" \/ Answered THEN 0
                  ELSE IF air.wait < Patience THEN air.wait + 1 ELSE air.wait
  <1>1. PICK n \in NextOnAir :
          air' = [air EXCEPT !.kind = n[1], !.pos = n[2], !.wait = w]
    BY DEF AirMoves
  <1>2. air.wait \in Nat /\ Patience \in Nat /\ air.pos \in Nat
    BY RxSyncAssumption DEF AirType, RxSyncAssumption
  <1>3. w <= air.wait + 1 /\ (air.how = "rough" \/ Answered => w = 0)  BY <1>2
  <1> DEFINE k == n[1]
             p == n[2]
  <1>4. air.how = "good" =>
          IF air.pos + 1 < FrameLen(air.kind) THEN k = air.kind /\ p = air.pos + 1 ELSE p = 0
    <2>1. CASE air.how = "good" /\ air.pos + 1 < FrameLen(air.kind)
      <3>1. n \in {<<air.kind, air.pos + 1>>}  BY <1>1, <2>1 DEF NextOnAir
      <3> QED  BY <2>1, <3>1
    <2>2. CASE air.how = "good" /\ ~(air.pos + 1 < FrameLen(air.kind))
      <3>1. n \in Kinds \X {0}  BY <1>1, <2>2 DEF NextOnAir
      <3> QED  BY <2>2, <3>1
    <2> QED  BY <2>1, <2>2
  <1>5. air' = [air EXCEPT !.kind = k, !.pos = p, !.wait = w]  BY <1>1
  <1> HIDE DEF w, k, p
  <1>6. air'.how = air.how /\ air'.kind = k /\ air'.pos = p /\ air'.wait = w
    BY <1>5 DEF AirType
  <1>7. AirType'  BY AirMovesType
  <1> QED  BY <1>3, <1>4, <1>6, <1>7

(* What the next symbol brings. *)
LEMMA Hearing ==
    ASSUME AirType, NEW h \in Heard
    PROVE  /\ air.how = "rough" => h[1] \in OnAir \cup {"NONE"}
           /\ air.how = "silent" => h[1] = "NONE" /\ Decodable = {FALSE}
           /\ air.how = "good" =>
                 IF air.pos + 1 = SyncEnd("P25P1") THEN h[1] = "P25P1" /\ h[2] = 0
                 ELSE h[1] = "NONE"
           /\ air.how = "good" =>
                 Nids = IF air.pos + 1 = Nid THEN {air.kind} ELSE {"refused"}
  <1>1. CASE air.how = "rough"
    <2>1. h \in {<<"NONE", 0>>} \cup (OnAir \X (0 .. 2))  BY <1>1 DEF Heard
    <2> QED  BY <1>1, <2>1
  <1>2. CASE air.how = "silent"
    <2>1. h \in {<<"NONE", 0>>}  BY <1>2 DEF Heard
    <2>2. Decodable = {FALSE}  BY <1>2 DEF Decodable
    <2> QED  BY <1>2, <2>1, <2>2
  <1>3. CASE air.how = "good"
    <2>1. h \in IF air.pos + 1 = SyncEnd("P25P1") THEN {<<"P25P1", 0>>} ELSE {<<"NONE", 0>>}
      BY <1>3 DEF Heard
    <2>2. Nids = IF air.pos + 1 = Nid THEN {air.kind} ELSE {"refused"}
      BY <1>3 DEF Nids, Nid
    <2> QED  BY <1>3, <2>1, <2>2
  <1> QED  BY <1>1, <1>2, <1>3 DEF AirType, Conditions

-----------------------------------------------------------------------------
(* On a silent channel: a lock has its life to go, a search its second.    *)
Waiting ==
    IF rx.type = "NONE" THEN air.wait <= LongestLife + age.sync
    ELSE air.wait + Left(rx) <= Mode[rx.type].life

(* When the frame on the channel ends, n of the longest have passed since  *)
(* the last was decoded.                                                   *)
Spent(n) == air.wait + FrameLen(air.kind) - air.pos <= n * LongestFrame

(* The receiver has followed the frame on the channel since its sync. *)
Tracking ==
    /\ rx.type = "P25P1" /\ rx.sc < rx.exp
    /\ rx.exp - rx.sc = Mode["P25P1"].life - (air.pos - SyncEnd("P25P1"))
    /\ IF air.pos < Nid THEN rx.frag = Nid /\ rx.count = air.pos
       ELSE /\ rx.frag = BodyLen[air.kind] /\ rx.count = air.pos - Nid
            /\ framer.duid = air.kind /\ framer.rest = "due"

(* On a good channel: before the sync of its frame the receiver has had at *)
(* most one whole frame to lose a stale lock and, if it lost it, searches  *)
(* with a young symbol count; after it, it tracks the frame or searches.   *)
Following ==
    /\ air.pos < FrameLen(air.kind)
    /\ IF air.pos < SyncEnd("P25P1")
       THEN \/ Spent(2)
            \/ /\ Spent(3) /\ rx.type = "NONE"
               /\ rx.sc + SyncEnd("P25P1") <= Mode["P25P1"].life + air.pos
       ELSE \/ Spent(1)
            \/ Spent(2) /\ rx.type = "NONE" /\ rx.sc = air.pos - SyncEnd("P25P1")
            \/ Spent(3) /\ Tracking

Lock ==
    /\ Clocked(rx) /\ Measured(rx, framer)
    /\ air.how # "good" => rx.type \in OnAir \cup {"NONE"}
    /\ IF air.how = "rough" THEN air.wait = 0 ELSE rx.mask # Idle

Prompt ==
    /\ Lock
    /\ air.how = "silent" => Waiting
    /\ air.how = "good" => Following

LEMMA PromptTypes ==
    ASSUME IInv
    PROVE  /\ Sound(State) /\ State.rx = rx /\ State.framer = framer /\ State.age = age
           /\ rx.sc \in Nat /\ rx.exp \in Nat /\ rx.count \in Nat /\ rx.frag \in Int
           /\ rx.sc < CounterMod /\ rx.exp < CounterMod /\ rx.type \in Types
           /\ Left(rx) \in Int
           /\ age.sync \in Nat /\ age.sync <= Second
           /\ air.wait \in Nat /\ air.pos \in Nat /\ air.kind \in Kinds
           /\ air.how \in {"rough", "good", "silent"}
           /\ FrameLen(air.kind) \in Nat /\ FrameLen(air.kind) <= LongestFrame
           /\ FrameLen(air.kind) = Nid + BodyLen[air.kind] /\ BodyLen[air.kind] \in Nat
           /\ FrameLen(air.kind) <= Mode["P25P1"].life
           /\ BodyLen[air.kind] # Nid /\ BodyLen[air.kind] >= 1
  <1>1. Core /\ AirType  BY DEF IInv
  <1>2. Sound(State) /\ State.rx = rx  BY <1>1, StateIsSound
  <1>3. State.framer = framer /\ State.age = age  BY DEF State
  <1>4. /\ rx.sc \in Nat /\ rx.exp \in Nat /\ rx.count \in Nat /\ rx.frag \in Int
        /\ rx.sc < CounterMod /\ rx.exp < CounterMod /\ rx.type \in Types
    BY <1>1, LifeFacts DEF Core, Registers
  <1>5. Left(rx) \in Int  BY <1>4, LifeFacts DEF Left
  <1>6. age.sync \in Nat /\ age.sync <= Second  BY <1>1, ModeTypes DEF Core, Ages
  <1>7. /\ air.wait \in Nat /\ air.pos \in Nat /\ air.kind \in Kinds
        /\ air.how \in {"rough", "good", "silent"}
    BY <1>1, RxSyncAssumption DEF AirType, RxSyncAssumption, Conditions
  <1> QED  BY <1>2, <1>3, <1>4, <1>5, <1>6, <1>7, LifeFacts, LongestFacts

LEMMA PromptInit ==
    ASSUME Init
    PROVE  Prompt
  <1>1. rx.type = "NONE" /\ air.how = "rough" /\ air.wait = 0
    BY DEF Init, Reset
  <1> QED  BY <1>1 DEF Prompt, Lock, Clocked, Measured

(* The channel settles. *)
LEMMA PromptSettle ==
    ASSUME IInv, Prompt, NEW how \in Conditions \ {"rough"}, Settle(how)
    PROVE  Prompt'
  <1>1. /\ AirType' /\ air'.how = how /\ air'.wait = 0
        /\ how = "good" => air'.pos < FrameLen(air'.kind)
    BY SettleMoves DEF IInv, Prompt, Lock, Settle
  <1>2. rx' = rx /\ framer' = framer /\ age' = age /\ rx.mask # Idle /\ air.how = "rough"
    BY DEF Settle
  <1>3. Lock'  BY <1>1, <1>2 DEF Prompt, Lock
  <1>4. how = "silent" => Waiting'
    <2>1. rx.type # "NONE" => Left(rx) <= Mode[rx.type].life
      BY DEF Prompt, Lock, Clocked
    <2>3. 0 <= LongestLife + age.sync  BY PromptTypes, LongestFacts
    <2>4. rx.type = "NONE" => Waiting'
      BY <1>1, <1>2, <2>3 DEF Waiting, LongestLife
    <2>5. rx.type # "NONE" => Waiting'
      <3>1. 0 + Left(rx) = Left(rx)  BY PromptTypes
      <3>2. Left(rx)' = Left(rx)  BY <1>2 DEF Left
      <3> QED  BY <1>1, <1>2, <2>1, <3>1, <3>2 DEF Waiting
    <2> QED  BY <2>4, <2>5
  <1>5. how = "good" => Following'
    <2> SUFFICES ASSUME how = "good" PROVE Following'  OBVIOUS
    <2>1. air'.kind \in Kinds /\ air'.pos \in Nat  BY <1>1 DEF AirType
    <2>2. FrameLen(air'.kind) \in Nat /\ FrameLen(air'.kind) <= LongestFrame /\ LongestFrame \in Nat
      BY <2>1, LifeFacts, LongestFacts
    <2>3. Spent(1)' /\ Spent(2)'
      BY <1>1, <2>1, <2>2 DEF Spent, FrameLen, LongestFrame, Longest
    <2>4. (air.pos < FrameLen(air.kind))'  BY <1>1 DEF FrameLen
    <2> QED  BY <2>3, <2>4 DEF Following
  <1> QED  BY <1>1, <1>3, <1>4, <1>5 DEF Prompt

(* sync_reset() of the message thread, which only a rough channel sees. *)
LEMMA PromptControl ==
    ASSUME IInv, Prompt, Control
    PROVE  Prompt'
  <1>1. air' = air /\ air.how = "rough"  BY DEF Control
  <1>2. /\ Clocked(rx) /\ Measured(rx, framer) /\ rx.type \in OnAir \cup {"NONE"}
        /\ air.wait = 0
    BY <1>1 DEF Prompt, Lock
  <1>3. /\ Sound(State) /\ State \in Receiver /\ State.rx = rx /\ State.framer = framer
        /\ rx \in Registers
    BY PromptTypes DEF Sound, IInv, Core
  <1>4. Clocked(rx') /\ Measured(rx', framer') /\ rx'.type \in OnAir \cup {"NONE"}
    <2>1. CASE \E mask \in Masks : SetSlotMask(mask)
      <3>1. PICK mask \in Masks : SetSlotMask(mask)  BY <2>1
      <3> DEFINE x == IF rx.mask = Idle THEN LoseLock(State) ELSE State
                 r == [x.rx EXCEPT !.mask = mask]
                 y == [x EXCEPT !.rx = r]
      <3>2. Becomes(y)  BY <3>1 DEF SetSlotMask
      <3>3. /\ Sound(x) /\ Clocked(x.rx) /\ Measured(x.rx, x.framer)
            /\ x.rx.type \in OnAir \cup {"NONE"}
        <4>1. CASE rx.mask = Idle
          <5>1. x = LoseLock(State)  BY <4>1
          <5> HIDE DEF x
          <5>2. Dropped(State.rx, x.rx)  BY <1>3, <5>1, LoseLockDrops
          <5>3. Sound(x)  BY <1>3, <5>1, LoseLockIsSound
          <5> QED  BY <5>2, <5>3 DEF Dropped, Clocked, Measured
        <4>2. CASE rx.mask # Idle
          <5>1. x = State  BY <4>2
          <5> QED  BY <1>2, <1>3, <5>1
        <4> QED  BY <4>1, <4>2
      <3> HIDE DEF x
      <3>4. x \in Receiver /\ x.rx \in Registers  BY <3>3 DEF Sound, Receiver
      <3>5. /\ r.type = x.rx.type /\ r.frag = x.rx.frag /\ r.sc = x.rx.sc /\ r.exp = x.rx.exp
        BY <3>4 DEF Registers
      <3> HIDE DEF r
      <3>6. y.rx = r /\ y.framer = x.framer  BY <3>4 DEF Receiver
      <3> HIDE DEF y
      <3>7. rx' = r /\ framer' = x.framer  BY <3>2, <3>6 DEF Becomes
      <3> QED  BY <3>3, <3>5, <3>7 DEF Clocked, Left, Measured
    <2>2. CASE \E n \in 0 .. Len(Stores) : SyncReset(n)
      <3>1. Len(Stores) = 7  BY SMT DEF Stores
      <3>2. PICK n \in 0 .. 7 : SyncReset(n)  BY <2>2, <3>1
      <3> DEFINE r == Store(rx, 1, n)
                 y == [State EXCEPT !.rx = r]
      <3>3. PICK h \in Heard :
              \E x \in RxSym(y, h[1], h[2], Nids, Decodable) :
                Becomes([x EXCEPT !.rx = Store(x.rx, n + 1, 7), !.age = Fresh])
        BY <3>1, <3>2 DEF SyncReset
      <3>4. PICK x \in RxSym(y, h[1], h[2], Nids, Decodable) :
                Becomes([x EXCEPT !.rx = Store(x.rx, n + 1, 7), !.age = Fresh])
        BY <3>3
      <3>5. /\ r \in Registers /\ Fits(r, framer)
            /\ Measured(r, framer) /\ r.type \in {"NONE", rx.type}
            /\ n >= 5 => r.type = "NONE"
        <4>1. Fits(rx, framer)  BY DEF IInv, Core
        <4> QED  BY <1>2, <1>3, <4>1, StoreBefore, StoreRests
      <3> HIDE DEF r
      <3>6. /\ y \in Receiver /\ y.rx = r /\ y.framer = framer /\ y.out = State.out
        BY <1>3, <3>5, PutRx
      <3> HIDE DEF y
      <3>7. Sound(y)  BY <1>3, <3>5, <3>6 DEF Sound
      <3>8. /\ AirType /\ h[1] \in Types /\ h[1] \in OnAir \cup {"NONE"}
            /\ Nids \in SUBSET (Kinds \cup {"refused"}) /\ Decodable \in SUBSET BOOLEAN
        BY <1>1, HeardTypes, Hearing DEF IInv
      <3>9. /\ Clocked(y.rx) => Clocked(x.rx)
            /\ Measured(x.rx, x.framer)
            /\ x.rx.type \in {"NONE", y.rx.type, h[1]}
        BY <3>4, <3>5, <3>6, <3>7, <3>8, SymbolRests
      <3>10. x.rx.type \in OnAir \cup {"NONE"}
        BY <1>2, <3>5, <3>6, <3>8, <3>9
      <3>11. Sound(x) /\ x \in Receiver /\ x.rx \in Registers
        <4>1. Sound(x)  BY <3>4, <3>7, <3>8, RxSymIsSound
        <4> QED  BY <4>1 DEF Sound, Receiver
      <3> DEFINE q == Store(x.rx, n + 1, 7)
                 v == [x EXCEPT !.rx = q, !.age = Fresh]
      <3>12. /\ Measured(q, x.framer) /\ q.type \in {"NONE", x.rx.type}
             /\ n >= 5 => (Clocked(x.rx) => Clocked(q))
             /\ n < 5 => Clocked(q)
        BY <3>9, <3>11, StoreRests
      <3>13. Becomes(v)  BY <3>4
      <3> HIDE DEF q
      <3>14. v.rx = q /\ v.framer = x.framer  BY <3>11 DEF Receiver
      <3> HIDE DEF v
      <3>15. rx' = q /\ framer' = x.framer  BY <3>13, <3>14 DEF Becomes
      <3>16. Clocked(q)
        <4>1. CASE n >= 5
          <5>1. Clocked(y.rx)  BY <3>5, <3>6, <4>1 DEF Clocked
          <5> QED  BY <3>9, <3>12, <4>1, <5>1
        <4>2. CASE n < 5  BY <3>12, <4>2
        <4> QED  BY <4>1, <4>2
      <3> QED  BY <3>10, <3>12, <3>15, <3>16
    <2> QED  BY <2>1, <2>2 DEF Control
  <1>5. Lock'
    <2>1. Clocked(rx)' /\ Measured(rx, framer)'  BY <1>4 DEF Clocked, Left, Measured
    <2> QED  BY <1>1, <1>2, <1>4, <2>1 DEF Lock
  <1> QED  BY <1>1, <1>5 DEF Prompt

(* What every symbol keeps, whatever it brings. *)
LEMMA LockSymbol ==
    ASSUME IInv, Prompt, Symbol
    PROVE  Lock'
  <1>1. PICK h \in Heard : \E x \in RxSym(State, h[1], h[2], Nids, Decodable) : Becomes(x)
    BY DEF Symbol
  <1>2. PICK z \in RxSym(State, h[1], h[2], Nids, Decodable) : Becomes(z)  BY <1>1
  <1>3. /\ Sound(State) /\ State.rx = rx /\ State.framer = framer
        /\ air.how \in {"rough", "good", "silent"}
    BY PromptTypes
  <1>4. /\ AirType /\ h[1] \in Types
        /\ Nids \in SUBSET (Kinds \cup {"refused"}) /\ Decodable \in SUBSET BOOLEAN
        /\ air.how = "rough" => h[1] \in OnAir \cup {"NONE"}
        /\ air.how = "silent" => h[1] = "NONE"
    BY HeardTypes, Hearing DEF IInv
  <1>5. Measured(rx, framer) /\ Clocked(rx)  BY DEF Prompt, Lock
  <1>6. /\ Clocked(z.rx) /\ Measured(z.rx, z.framer) /\ z.rx.mask = rx.mask
        /\ z.rx.type \in {"NONE", rx.type, h[1]}
    BY <1>2, <1>3, <1>4, <1>5, SymbolRests
  <1>7. rx' = z.rx /\ framer' = z.framer  BY <1>2 DEF Becomes
  <1>8. air'.how = air.how /\ (air.how = "rough" => air'.wait = 0)
    BY <1>4, AirProgress DEF Symbol
  <1>9. Clocked(rx)' /\ Measured(rx, framer)'
    BY <1>6, <1>7 DEF Clocked, Left, Measured
  <1>10. air.how # "good" => rx'.type \in OnAir \cup {"NONE"}
    BY <1>3, <1>4, <1>6, <1>7 DEF Prompt, Lock
  <1> QED  BY <1>6, <1>7, <1>8, <1>9, <1>10 DEF Prompt, Lock

(* On a silent channel the report comes nearer. *)
LEMMA WaitingSymbol ==
    ASSUME IInv, Prompt, Symbol, air.how = "silent"
    PROVE  Waiting'
  <1>1. PICK h \in Heard : \E x \in RxSym(State, h[1], h[2], Nids, Decodable) : Becomes(x)
    BY DEF Symbol
  <1>2. PICK z \in RxSym(State, h[1], h[2], Nids, Decodable) : Becomes(z)  BY <1>1
  <1>3. /\ Sound(State) /\ State.rx = rx /\ State.framer = framer /\ State.age = age
        /\ air.wait \in Nat /\ age.sync \in Nat /\ rx.type \in Types /\ Left(rx) \in Int
    BY PromptTypes
  <1>4. /\ AirType /\ h[1] = "NONE" /\ Decodable = {FALSE}
        /\ Nids \in SUBSET (Kinds \cup {"refused"})
    BY HeardTypes, Hearing DEF IInv
  <1>5. Measured(rx, framer) /\ Clocked(rx) /\ rx.mask # Idle /\ rx.type \in OnAir \cup {"NONE"}
    BY DEF Prompt, Lock
  <1>6. /\ rx.type = "NONE" =>
              /\ z.rx.type = "NONE"
              /\ \/ z.out.report = "timeout"
                 \/ age.sync < Second /\ z.age.sync = age.sync + 1
        /\ rx.type # "NONE" =>
              \/ z.rx.type = "NONE"
              \/ z.rx.type = rx.type /\ Left(z.rx) = Left(rx) - 1
    <2>1. z \in RxSym(State, "NONE", h[2], Nids, {FALSE})  BY <1>2, <1>4
    <2> QED  BY <1>3, <1>4, <1>5, <2>1, SilentSymbol
  <1>7. rx' = z.rx /\ age' = z.age /\ out' = z.out  BY <1>2 DEF Becomes
  <1>8. /\ AirType' /\ air'.wait <= air.wait + 1 /\ (Answered => air'.wait = 0)
        /\ air'.wait \in Nat
    <2>1. AirType' /\ air'.wait <= air.wait + 1 /\ (Answered => air'.wait = 0)
      BY <1>4, AirProgress DEF Symbol
    <2> QED  BY <2>1, RxSyncAssumption DEF AirType, RxSyncAssumption
  <1>9. Sound(z)
    <2>1. "NONE" \in Types /\ h[1] \in Types  BY <1>4 DEF Types
    <2>2. {FALSE} \in SUBSET BOOLEAN  OBVIOUS
    <2> QED  BY <1>2, <1>3, <1>4, <2>1, <2>2, RxSymIsSound
  <1>10. age'.sync \in Nat /\ age'.sync >= 0 /\ LongestLife \in Nat
    BY <1>7, <1>9, LongestFacts DEF Sound, Receiver, Ages
  <1>11. LongestLife' = LongestLife /\ Left(rx)' = Left(rx')
    BY DEF LongestLife, Left
  <1>12. CASE rx.type = "NONE"
    <2>1. air.wait <= LongestLife + age.sync  BY <1>12 DEF Prompt, Waiting
    <2>2. rx'.type = "NONE"  BY <1>6, <1>7, <1>12
    <2>3. CASE z.out.report = "timeout"
      <3>1. Answered  BY <1>7, <2>3 DEF Answered
      <3>2. air'.wait <= LongestLife + age'.sync  BY <1>8, <1>10, <3>1
      <3> QED  BY <1>11, <2>2, <3>2 DEF Waiting
    <2>4. CASE z.age.sync = age.sync + 1
      <3>1. air'.wait <= LongestLife + age'.sync  BY <1>3, <1>7, <1>8, <1>10, <2>1, <2>4
      <3> QED  BY <1>11, <2>2, <3>1 DEF Waiting
    <2> QED  BY <1>6, <1>12, <2>3, <2>4
  <1>13. CASE rx.type # "NONE"
    <2>1. air.wait + Left(rx) <= Mode[rx.type].life  BY <1>13 DEF Prompt, Waiting
    <2>2. /\ Mode[rx.type].life \in Nat /\ Mode[rx.type].life <= LongestLife /\ Left(rx) >= 1
      BY <1>3, <1>5, <1>13, ModeTypes, LongestFacts DEF Clocked
    <2>3. CASE z.rx.type = "NONE"
      <3>1. air'.wait <= LongestLife + age'.sync  BY <1>3, <1>8, <1>10, <2>1, <2>2
      <3> QED  BY <1>7, <1>11, <2>3, <3>1 DEF Waiting
    <2>4. CASE z.rx.type = rx.type /\ Left(z.rx) = Left(rx) - 1
      <3>1. air'.wait + Left(z.rx) <= Mode[rx.type].life  BY <1>3, <1>8, <2>1, <2>2, <2>4
      <3> QED  BY <1>7, <1>11, <1>13, <2>4, <3>1 DEF Waiting
    <2> QED  BY <1>6, <1>13, <2>3, <2>4
  <1> QED  BY <1>12, <1>13

(* A symbol of a good frame adds one to the wait and one to the position:  *)
(* when the frame ends is known in advance, unless one is decoded first.   *)
LEMMA SpentSymbol ==
    ASSUME AirType, air.how = "good", air.pos < FrameLen(air.kind), AirMoves
    PROVE  /\ AirType' /\ (air.pos < FrameLen(air.kind))'
           /\ air.pos + 1 < FrameLen(air.kind) =>
                 /\ air'.pos = air.pos + 1 /\ air'.kind = air.kind
                 /\ \A n \in {1, 2, 3} : Spent(n) => Spent(n)'
           /\ air.pos + 1 >= FrameLen(air.kind) =>
                 /\ air'.pos = 0
                 /\ \A n \in {1, 2} : Spent(n) => Spent(n + 1)'
           /\ Answered => Spent(1)' /\ Spent(2)'
  <1>1. /\ AirType'
        /\ air'.wait <= air.wait + 1
        /\ Answered => air'.wait = 0
        /\ IF air.pos + 1 < FrameLen(air.kind)
           THEN air'.kind = air.kind /\ air'.pos = air.pos + 1
           ELSE air'.pos = 0
    BY AirProgress
  <1>2. /\ air.kind \in Kinds /\ air'.kind \in Kinds
        /\ air.pos \in Nat /\ air'.pos \in Nat /\ air.wait \in Nat /\ air'.wait \in Nat
    BY <1>1, RxSyncAssumption DEF AirType, RxSyncAssumption
  <1> DEFINE l == FrameLen(air.kind)
             m == FrameLen(air'.kind)
  <1>3. l \in Nat /\ m \in Nat /\ l >= 1 /\ m >= 1 /\ l <= LongestFrame /\ m <= LongestFrame
        /\ LongestFrame \in Nat
    BY <1>2, LifeFacts, LongestFacts
  <1>4. \A n : /\ Spent(n) <=> air.wait + l - air.pos <= n * LongestFrame
               /\ Spent(n)' <=> air'.wait + m - air'.pos <= n * LongestFrame
    BY DEF Spent, LongestFrame, Longest, FrameLen
  <1>5. (air.pos < FrameLen(air.kind))' <=> air'.pos < m  BY DEF FrameLen
  <1>6. air'.kind = air.kind => m = l  OBVIOUS
  <1> HIDE DEF l, m
  <1>7. air.pos < l /\ (IF air.pos + 1 < l THEN air'.kind = air.kind /\ air'.pos = air.pos + 1
                        ELSE air'.pos = 0)
    BY <1>1 DEF l
  <1>8. air'.pos < m  BY <1>2, <1>3, <1>6, <1>7
  <1>9. ASSUME air.pos + 1 < l
        PROVE  /\ air'.pos = air.pos + 1 /\ air'.kind = air.kind
               /\ \A n \in {1, 2, 3} : Spent(n) => Spent(n)'
    <2>1. air'.wait + m - air'.pos <= air.wait + l - air.pos
      BY <1>1, <1>2, <1>3, <1>6, <1>7, <1>9
    <2>2. ASSUME NEW n \in {1, 2, 3}, Spent(n) PROVE Spent(n)'
      <3> DEFINE b == n * LongestFrame
      <3>1. b \in Int  BY <1>3
      <3>2. air.wait + l - air.pos <= b /\ (Spent(n)' <=> air'.wait + m - air'.pos <= b)
        BY <1>4, <2>2
      <3> HIDE DEF b
      <3>3. air'.wait + m - air'.pos <= b  BY <1>2, <1>3, <2>1, <3>1, <3>2
      <3> QED  BY <3>2, <3>3
    <2> QED  BY <1>7, <1>9, <2>2
  <1>10. ASSUME air.pos + 1 >= l
         PROVE  /\ air'.pos = 0
                /\ \A n \in {1, 2} : Spent(n) => Spent(n + 1)'
    <2>1. air'.pos = 0  BY <1>2, <1>3, <1>7, <1>10
    <2>2. ASSUME NEW n \in {1, 2}, Spent(n) PROVE Spent(n + 1)'
      <3> DEFINE b == n * LongestFrame
                 c == (n + 1) * LongestFrame
      <3>1. b \in Int /\ c = b + LongestFrame  BY <1>3
      <3>2. air.wait + l - air.pos <= b /\ (Spent(n + 1)' <=> air'.wait + m - air'.pos <= c)
        BY <1>4, <2>2
      <3> HIDE DEF b, c
      <3>3. air'.wait <= b  BY <1>1, <1>2, <1>3, <1>7, <1>10, <3>1, <3>2
      <3>4. air'.wait + m - air'.pos <= c  BY <1>2, <1>3, <2>1, <3>1, <3>3
      <3> QED  BY <3>2, <3>4
    <2> QED  BY <2>1, <2>2
  <1>11. ASSUME Answered PROVE Spent(1)' /\ Spent(2)'
    <2>1. air'.wait = 0  BY <1>1, <1>11
    <2>2. /\ air'.wait + m - air'.pos <= 1 * LongestFrame
          /\ air'.wait + m - air'.pos <= 2 * LongestFrame
      BY <1>2, <1>3, <2>1
    <2> QED  BY <1>4, <2>2
  <1> QED  BY <1>1, <1>5, <1>8, <1>9, <1>10, <1>11 DEF l

LEMMA SpentMore ==
    ASSUME AirType
    PROVE  (Spent(1) => Spent(2)) /\ (Spent(2) => Spent(3))
  <1>1. air.wait \in Nat /\ air.pos \in Nat /\ FrameLen(air.kind) \in Nat /\ LongestFrame \in Nat
    BY RxSyncAssumption, LifeFacts, LongestFacts DEF AirType, RxSyncAssumption
  <1> QED  BY <1>1 DEF Spent

(* What one symbol makes of a receiver on a good channel. *)
LEMMA GoodSymbol ==
    ASSUME IInv, Prompt, Symbol, air.how = "good"
    PROVE  /\ air.pos + 1 = SyncEnd("P25P1") =>
                 /\ \/ Begun(rx')
                    \/ rx'.type = "NONE" /\ rx'.sc = 0
                    \/ Answered
                 /\ rx.type = "NONE" /\ rx.sc + 1 + Mode["P25P1"].life < CounterMod => Begun(rx')
           /\ air.pos + 1 # SyncEnd("P25P1") =>
                 /\ rx.type = "NONE" => rx'.type = "NONE" /\ rx'.sc = (rx.sc + 1) % CounterMod
                 /\ rx.type = "P25P1" /\ rx.sc < rx.exp /\ rx.exp - rx.sc >= 2 =>
                       /\ rx.count + 1 < rx.frag =>
                             /\ Counted(rx, rx') /\ rx'.frag = rx.frag
                             /\ rx'.count = rx.count + 1 /\ framer' = framer
                       /\ rx.frag = Nid /\ rx.count + 1 = Nid /\ air.pos + 1 = Nid =>
                             /\ Counted(rx, rx') /\ rx'.frag = BodyLen[air.kind]
                             /\ rx'.count = 0
                             /\ framer'.duid = air.kind /\ framer'.rest = "due"
                       /\ rx.frag # Nid /\ rx.count + 1 >= rx.frag => Answered
  <1>1. PICK h \in Heard : \E x \in RxSym(State, h[1], h[2], Nids, Decodable) : Becomes(x)
    BY DEF Symbol
  <1>2. PICK z \in RxSym(State, h[1], h[2], Nids, Decodable) : Becomes(z)  BY <1>1
  <1>3. /\ Sound(State) /\ State.rx = rx /\ State.framer = framer /\ air.kind \in Kinds
    BY PromptTypes
  <1>4. /\ AirType
        /\ Nids \in SUBSET (Kinds \cup {"refused"}) /\ Decodable \in SUBSET BOOLEAN
        /\ IF air.pos + 1 = SyncEnd("P25P1") THEN h[1] = "P25P1" /\ h[2] = 0
           ELSE h[1] = "NONE"
        /\ Nids = IF air.pos + 1 = Nid THEN {air.kind} ELSE {"refused"}
    BY HeardTypes, Hearing DEF IInv
  <1>5. Measured(rx, framer) /\ Clocked(rx) /\ rx.mask # Idle  BY DEF Prompt, Lock
  <1>6. rx' = z.rx /\ framer' = z.framer /\ out' = z.out  BY <1>2 DEF Becomes
  <1>7. WholeFrame(z.out) => Answered  BY <1>6 DEF WholeFrame, Answered
  <1>8. CASE air.pos + 1 = SyncEnd("P25P1")
    <2>1. SyncEnd("P25P1") < Nid /\ SyncEnd("P25P1") \in Nat /\ Nid \in Nat  BY LifeFacts
    <2>2. Nids = {"refused"}  BY <1>4, <1>8, <2>1
    <2>3. z \in RxSym(State, "P25P1", 0, {"refused"}, Decodable)
      BY <1>2, <1>4, <1>8, <2>2
    <2>4. /\ \/ Begun(z.rx)
             \/ z.rx.type = "NONE" /\ z.rx.sc = 0
             \/ WholeFrame(z.out)
          /\ State.rx.type = "NONE" /\ State.rx.sc + 1 + Mode["P25P1"].life < CounterMod
                => Begun(z.rx)
      BY <1>3, <1>4, <1>5, <2>3, SyncSymbol
    <2> QED  BY <1>3, <1>6, <1>7, <1>8, <2>4
  <1>9. CASE air.pos + 1 # SyncEnd("P25P1")
    <2>1. z \in RxSym(State, "NONE", h[2], Nids, Decodable)  BY <1>2, <1>4, <1>9
    <2>2. rx.type = "NONE" => rx'.type = "NONE" /\ rx'.sc = (rx.sc + 1) % CounterMod
      BY <1>3, <1>5, <1>6, <2>1, SearchSymbol
    <2>3. ASSUME rx.type = "P25P1", rx.sc < rx.exp, rx.exp - rx.sc >= 2
          PROVE  /\ rx.count + 1 < rx.frag =>
                       /\ Counted(rx, rx') /\ rx'.frag = rx.frag
                       /\ rx'.count = rx.count + 1 /\ framer' = framer
                 /\ rx.frag = Nid /\ rx.count + 1 = Nid /\ air.pos + 1 = Nid =>
                       /\ Counted(rx, rx') /\ rx'.frag = BodyLen[air.kind]
                       /\ rx'.count = 0
                       /\ framer'.duid = air.kind /\ framer'.rest = "due"
                 /\ rx.frag # Nid /\ rx.count + 1 >= rx.frag => Answered
      <3> DEFINE x == State
      <3>1. /\ Sound(x) /\ Measured(x.rx, x.framer) /\ x.rx.mask # Idle
            /\ x.rx.type = "P25P1" /\ Clocked(x.rx)
            /\ x.rx.sc < x.rx.exp /\ x.rx.exp - x.rx.sc >= 2
            /\ z \in RxSym(x, "NONE", h[2], Nids, Decodable)
            /\ x.rx = rx /\ x.framer = framer
        BY <1>3, <1>5, <2>1, <2>3
      <3> HIDE DEF x
      <3>2. /\ x.rx.count + 1 < x.rx.frag =>
                 /\ Counted(x.rx, z.rx) /\ z.rx.frag = x.rx.frag
                 /\ z.rx.count = x.rx.count + 1 /\ z.framer = x.framer
            /\ \A k \in Kinds : x.rx.frag = Nid /\ x.rx.count + 1 = Nid /\ Nids = {k} =>
                 /\ Counted(x.rx, z.rx) /\ z.rx.frag = BodyLen[k] /\ z.rx.count = 0
                 /\ z.framer.duid = k /\ z.framer.rest = "due"
            /\ x.rx.frag # Nid /\ x.rx.count + 1 >= x.rx.frag => WholeFrame(z.out)
        BY <1>4, <3>1, TrackSymbol
      <3>3. air.pos + 1 = Nid => Nids = {air.kind}  BY <1>4
      <3> QED  BY <1>3, <1>6, <1>7, <3>1, <3>2, <3>3
    <2> QED  BY <1>9, <2>2, <2>3
  <1> QED  BY <1>8, <1>9

(* A good frame is followed, or the receiver is ready for the next. *)
LEMMA FollowingSymbol ==
    ASSUME IInv, Prompt, Symbol, air.how = "good"
    PROVE  Following'
  <1> DEFINE End == SyncEnd("P25P1")
             Life == Mode["P25P1"].life
             Len0 == FrameLen(air.kind)
  <1>1. /\ rx.sc \in Nat /\ rx.exp \in Nat /\ rx.count \in Nat /\ rx.frag \in Int
        /\ rx.sc < CounterMod /\ rx.exp < CounterMod
        /\ air.pos \in Nat /\ air.kind \in Kinds
        /\ Len0 \in Nat /\ Len0 = Nid + BodyLen[air.kind] /\ Len0 <= Life
        /\ BodyLen[air.kind] \in Nat /\ BodyLen[air.kind] # Nid /\ BodyLen[air.kind] >= 1
    BY PromptTypes
  <1>2. /\ End \in Nat /\ End >= 1 /\ End < Nid /\ Nid \in Nat /\ Life \in Nat
        /\ CounterMod \in Nat /\ 3 * Life < CounterMod /\ 1 < CounterMod
    BY LifeFacts
  <1>3. air.pos < Len0 /\ Following  BY DEF Prompt, Following
  <1>4. AirType /\ AirMoves  BY DEF IInv, Symbol
  <1>5. /\ AirType' /\ (air.pos < FrameLen(air.kind))'
        /\ air.pos + 1 < Len0 =>
              /\ air'.pos = air.pos + 1 /\ air'.kind = air.kind
              /\ \A n \in {1, 2, 3} : Spent(n) => Spent(n)'
        /\ air.pos + 1 >= Len0 =>
              /\ air'.pos = 0
              /\ \A n \in {1, 2} : Spent(n) => Spent(n + 1)'
        /\ Answered => Spent(1)' /\ Spent(2)'
    BY <1>3, <1>4, SpentSymbol
  <1>6. (Spent(1) => Spent(2)) /\ (Spent(2) => Spent(3))  BY <1>4, SpentMore
  <1>7. Following' <=>
          IF air'.pos < End
          THEN \/ Spent(2)'
               \/ Spent(3)' /\ rx'.type = "NONE" /\ rx'.sc + End <= Life + air'.pos
          ELSE \/ Spent(1)'
               \/ Spent(2)' /\ rx'.type = "NONE" /\ rx'.sc = air'.pos - End
               \/ Spent(3)' /\ Tracking'
    BY <1>5 DEF Following, SyncEnd
  <1>8. Tracking' <=>
          /\ rx'.type = "P25P1" /\ rx'.sc < rx'.exp
          /\ rx'.exp - rx'.sc = Life - (air'.pos - End)
          /\ IF air'.pos < Nid THEN rx'.frag = Nid /\ rx'.count = air'.pos
             ELSE /\ rx'.frag = BodyLen[air'.kind] /\ rx'.count = air'.pos - Nid
                  /\ framer'.duid = air'.kind /\ framer'.rest = "due"
    BY DEF Tracking, SyncEnd, Nid
  <1>9. CASE Answered  BY <1>5, <1>7, <1>9
  <1>10. CASE air.pos + 1 < End
    <2>1. air'.pos = air.pos + 1 /\ air'.kind = air.kind
          /\ (Spent(2) => Spent(2)') /\ (Spent(3) => Spent(3)')
      BY <1>1, <1>2, <1>5, <1>10
    <2>2. CASE Spent(2)  BY <1>7, <1>10, <2>1, <2>2
    <2>3. CASE Spent(3) /\ rx.type = "NONE" /\ rx.sc + End <= Life + air.pos
      <3>1. rx'.type = "NONE" /\ rx'.sc = (rx.sc + 1) % CounterMod
        BY <1>1, <1>2, <1>10, <2>3, GoodSymbol
      <3>2. rx.sc + 1 < CounterMod  BY <1>1, <1>2, <1>10, <2>3
      <3>3. rx'.sc = rx.sc + 1  BY <1>1, <1>2, <3>1, <3>2, WrapsOnce
      <3>4. rx'.sc + End <= Life + air'.pos  BY <1>1, <1>2, <2>1, <2>3, <3>3
      <3> QED  BY <1>7, <1>10, <2>1, <2>3, <3>1, <3>4
    <2>4. air.pos < End  BY <1>1, <1>2, <1>10
    <2> QED  BY <1>3, <2>2, <2>3, <2>4 DEF Following
  <1>11. CASE air.pos + 1 = End
    <2>1. /\ air'.pos = air.pos + 1 /\ air'.kind = air.kind
          /\ (Spent(2) => Spent(2)') /\ (Spent(3) => Spent(3)')
          /\ air'.pos = End
      BY <1>1, <1>2, <1>5, <1>11
    <2>2. Begun(rx') => Tracking'
      BY <1>1, <1>2, <1>8, <2>1 DEF Begun
    <2>3. /\ \/ Begun(rx')
             \/ rx'.type = "NONE" /\ rx'.sc = 0
             \/ Answered
          /\ rx.type = "NONE" /\ rx.sc + 1 + Life < CounterMod => Begun(rx')
      BY <1>11, GoodSymbol
    <2>4. CASE Spent(2)
      <3>1. Spent(2)' /\ Spent(3)'  BY <1>6, <2>1, <2>4
      <3>2. CASE Begun(rx')  BY <1>2, <1>7, <2>1, <2>2, <3>1, <3>2
      <3>3. CASE rx'.type = "NONE" /\ rx'.sc = 0
        BY <1>2, <1>7, <2>1, <3>1, <3>3
      <3> QED  BY <1>9, <2>3, <3>2, <3>3
    <2>5. CASE Spent(3) /\ rx.type = "NONE" /\ rx.sc + End <= Life + air.pos
      <3>1. rx.sc + 1 + Life < CounterMod  BY <1>1, <1>2, <1>11, <2>5
      <3> QED  BY <1>2, <1>7, <2>1, <2>2, <2>3, <2>5, <3>1
    <2>6. air.pos < End  BY <1>1, <1>2, <1>11
    <2> QED  BY <1>3, <2>4, <2>5, <2>6 DEF Following
  <1>12. CASE air.pos >= End
    <2>1. \/ Spent(1)
          \/ Spent(2) /\ rx.type = "NONE" /\ rx.sc = air.pos - End
          \/ Spent(3) /\ Tracking
      BY <1>1, <1>2, <1>3, <1>12 DEF Following
    <2>2. air.pos + 1 # End /\ ~(air.pos < End)  BY <1>1, <1>2, <1>12
    <2>3. ASSUME rx.type = "NONE", rx.sc = air.pos - End
          PROVE  rx'.type = "NONE" /\ rx'.sc = air.pos - End + 1
      <3>1. rx'.type = "NONE" /\ rx'.sc = (rx.sc + 1) % CounterMod
        BY <2>2, <2>3, GoodSymbol
      <3>2. rx.sc + 1 < CounterMod  BY <1>1, <1>2, <1>3, <1>12, <2>3
      <3>3. rx'.sc = rx.sc + 1  BY <1>1, <1>2, <3>1, <3>2, WrapsOnce
      <3> QED  BY <2>3, <3>1, <3>3
    <2>4. ASSUME Tracking
          PROVE  /\ rx.type = "P25P1" /\ rx.sc < rx.exp /\ rx.exp - rx.sc >= 2
                 /\ rx.exp - rx.sc = Life - (air.pos - End)
                 /\ IF air.pos < Nid THEN rx.frag = Nid /\ rx.count = air.pos
                    ELSE /\ rx.frag = BodyLen[air.kind] /\ rx.count = air.pos - Nid
                         /\ framer.duid = air.kind /\ framer.rest = "due"
      <3>1. /\ rx.type = "P25P1" /\ rx.sc < rx.exp
            /\ rx.exp - rx.sc = Life - (air.pos - End)
            /\ IF air.pos < Nid THEN rx.frag = Nid /\ rx.count = air.pos
               ELSE /\ rx.frag = BodyLen[air.kind] /\ rx.count = air.pos - Nid
                    /\ framer.duid = air.kind /\ framer.rest = "due"
        BY <2>4 DEF Tracking
      <3>2. rx.exp - rx.sc >= 2  BY <1>1, <1>2, <1>3, <1>12, <3>1
      <3> QED  BY <3>1, <3>2
    <2>5. CASE air.pos + 1 < Len0
      <3>1. /\ air'.pos = air.pos + 1 /\ air'.kind = air.kind
            /\ (Spent(1) => Spent(1)') /\ (Spent(2) => Spent(2)') /\ (Spent(3) => Spent(3)')
            /\ ~(air'.pos < End)
        BY <1>1, <1>2, <1>5, <1>12, <2>5
      <3>2. CASE Spent(1)  BY <1>7, <3>1, <3>2
      <3>3. CASE Spent(2) /\ rx.type = "NONE" /\ rx.sc = air.pos - End
        <4>1. rx'.sc = air'.pos - End  BY <1>1, <1>2, <2>3, <3>1, <3>3
        <4> QED  BY <1>7, <2>3, <3>1, <3>3, <4>1
      <3>4. CASE Spent(3) /\ Tracking
        <4>1. ASSUME Counted(rx, rx')
              PROVE  /\ rx'.type = "P25P1" /\ rx'.sc < rx'.exp
                     /\ rx'.exp - rx'.sc = Life - (air'.pos - End)
          <5>1. rx.sc + 1 < CounterMod  BY <1>1, <1>2, <2>4, <3>4
          <5>2. rx'.sc = rx.sc + 1
            BY <1>1, <1>2, <4>1, <5>1, WrapsOnce DEF Counted
          <5>3. rx'.type = "P25P1" /\ rx'.exp = rx.exp /\ rx'.sc < rx'.exp
            BY <2>4, <3>4, <4>1 DEF Counted
          <5>4. rx.exp - rx.sc = Life - (air.pos - End)  BY <2>4, <3>4
          <5>5. rx'.exp - rx'.sc = Life - (air'.pos - End)
            BY <1>1, <1>2, <3>1, <5>2, <5>3, <5>4
          <5> QED  BY <5>3, <5>5
        <4>2. CASE air.pos + 1 < Nid
          <5>1. rx.frag = Nid /\ rx.count = air.pos  BY <1>1, <1>2, <2>4, <3>4, <4>2
          <5>2. /\ Counted(rx, rx') /\ rx'.frag = rx.frag
                /\ rx'.count = rx.count + 1 /\ framer' = framer
            BY <2>2, <2>4, <3>4, <4>2, <5>1, GoodSymbol
          <5>3. Tracking'  BY <1>8, <3>1, <4>1, <4>2, <5>1, <5>2
          <5> QED  BY <1>7, <3>1, <3>4, <5>3
        <4>3. CASE air.pos + 1 = Nid
          <5>1. rx.frag = Nid /\ rx.count + 1 = Nid  BY <1>1, <1>2, <2>4, <3>4, <4>3
          <5>2. /\ Counted(rx, rx') /\ rx'.frag = BodyLen[air.kind]
                /\ rx'.count = 0
                /\ framer'.duid = air.kind /\ framer'.rest = "due"
            BY <2>2, <2>4, <3>4, <4>3, <5>1, GoodSymbol
          <5>3. ~(air'.pos < Nid) /\ rx'.count = air'.pos - Nid  BY <1>2, <3>1, <4>3, <5>2
          <5>4. Tracking'  BY <1>8, <3>1, <4>1, <5>2, <5>3
          <5> QED  BY <1>7, <3>1, <3>4, <5>4
        <4>4. CASE air.pos >= Nid
          <5>1. /\ rx.frag = BodyLen[air.kind] /\ rx.count = air.pos - Nid
                /\ framer.duid = air.kind /\ framer.rest = "due"
            BY <1>1, <1>2, <2>4, <3>4, <4>4
          <5>2. rx.count + 1 < rx.frag  BY <1>1, <1>2, <2>5, <5>1
          <5>3. /\ Counted(rx, rx') /\ rx'.frag = rx.frag
                /\ rx'.count = rx.count + 1 /\ framer' = framer
            BY <2>2, <2>4, <3>4, <5>2, GoodSymbol
          <5>4. ~(air'.pos < Nid) /\ rx'.count = air'.pos - Nid
            BY <1>1, <1>2, <3>1, <4>4, <5>1, <5>3
          <5>5. Tracking'  BY <1>8, <3>1, <4>1, <5>1, <5>3, <5>4
          <5> QED  BY <1>7, <3>1, <3>4, <5>5
        <4> QED  BY <1>1, <1>2, <4>2, <4>3, <4>4
      <3> QED  BY <2>1, <3>2, <3>3, <3>4
    <2>6. CASE air.pos + 1 >= Len0
      <3>1. /\ air'.pos = 0 /\ (Spent(1) => Spent(2)') /\ (Spent(2) => Spent(3)')
            /\ air'.pos < End
        <4>1. 1 + 1 = 2 /\ 2 + 1 = 3  OBVIOUS
        <4> QED  BY <1>2, <1>5, <2>6, <4>1
      <3>2. CASE Spent(1)  BY <1>7, <3>1, <3>2
      <3>3. CASE Spent(2) /\ rx.type = "NONE" /\ rx.sc = air.pos - End
        <4>1. rx'.type = "NONE" /\ rx'.sc = air.pos - End + 1  BY <2>3, <3>3
        <4>2. rx'.sc + End <= Life + air'.pos  BY <1>1, <1>2, <1>3, <3>1, <4>1
        <4> QED  BY <1>7, <3>1, <3>3, <4>1, <4>2
      <3>4. CASE Spent(3) /\ Tracking
        <4>1. air.pos >= Nid  BY <1>1, <1>2, <2>6
        <4>2. rx.frag = BodyLen[air.kind] /\ rx.count = air.pos - Nid
          BY <1>1, <1>2, <2>4, <3>4, <4>1
        <4>3. rx.frag # Nid /\ rx.count + 1 >= rx.frag  BY <1>1, <1>2, <2>6, <4>2
        <4>4. Answered  BY <2>2, <2>4, <3>4, <4>3, GoodSymbol
        <4> QED  BY <1>9, <4>4
      <3> QED  BY <2>1, <3>2, <3>3, <3>4
    <2> QED  BY <1>1, <2>5, <2>6
  <1> QED  BY <1>1, <1>2, <1>10, <1>11, <1>12

(* Prompt is inductive on top of IInv.  It is what makes a wait bounded: a *)
(* lock, whatever noise, slips and resets left of it, expires in at most   *)
(* its life even if d_symbol_count is about to wrap; a lost lock leaves    *)
(* the timer running and the symbol count young; and a frame whose sync    *)
(* was accepted is followed register by register to its end.               *)
THEOREM Promptness == Spec => []Prompt
  <1>1. Init => Prompt  BY PromptInit
  <1>2. IInv /\ Prompt /\ [Next]_vars => Prompt'
    <2> SUFFICES ASSUME IInv, Prompt, [Next]_vars PROVE Prompt'  OBVIOUS
    <2>1. CASE Symbol
      <3>1. air'.how = air.how  BY <2>1, AirProgress DEF IInv, Symbol
      <3> QED  BY <2>1, <3>1, LockSymbol, WaitingSymbol, FollowingSymbol DEF Prompt
    <2>2. CASE Control  BY <2>2, PromptControl
    <2>3. CASE \E how \in Conditions \ {"rough"} : Settle(how)  BY <2>3, PromptSettle
    <2>4. CASE UNCHANGED vars
      <3>1. rx' = rx /\ framer' = framer /\ age' = age /\ air' = air
        BY <2>4 DEF vars
      <3>2. Lock' <=> Lock  BY <3>1 DEF Lock, Clocked, Left, Measured
      <3>3. Waiting' <=> Waiting
        BY <3>1 DEF Waiting, Left, LongestLife, Longest
      <3>4. Following' <=> Following
        BY <3>1 DEF Following, Spent, Tracking, FrameLen, LongestFrame, Longest, SyncEnd, Nid
      <3> QED  BY <3>1, <3>2, <3>3, <3>4 DEF Prompt
    <2> QED  BY <2>1, <2>2, <2>3, <2>4 DEF Next
  <1> QED  BY <1>1, <1>2, Invariance, PTL DEF Spec

(* A channel gone silent is reported within a second of the longest life   *)
(* of a lock, and so on for as long as it is silent: the control channel   *)
(* hunt and the end of a call by framing timeouts depend on it.            *)
THEOREM QuietReported == Spec => []QuietChannelReports
  <1>1. IInv /\ Prompt => QuietChannelReports
    <2> SUFFICES ASSUME IInv, Prompt, air.how = "silent"
                 PROVE  air.wait <= Second + LongestLife
      BY DEF QuietChannelReports, LongestLife
    <2>1. /\ air.wait \in Nat /\ age.sync \in Nat /\ age.sync <= Second /\ rx.type \in Types
          /\ Left(rx) \in Int
      BY PromptTypes
    <2>2. LongestLife \in Nat /\ Second \in Nat  BY LongestFacts, ModeTypes
    <2>3. CASE rx.type = "NONE"
      BY <2>1, <2>2, <2>3 DEF Prompt, Waiting
    <2>4. CASE rx.type # "NONE"
      <3>1. Left(rx) >= 1 /\ rx.type \in OnAir  BY <2>4 DEF Prompt, Lock, Clocked
      <3>2. Mode[rx.type].life \in Nat /\ Mode[rx.type].life <= LongestLife
        BY <2>1, <3>1, LongestFacts, ModeTypes
      <3>3. air.wait + Left(rx) <= Mode[rx.type].life  BY <2>4 DEF Prompt, Waiting
      <3> QED  BY <2>1, <2>2, <3>1, <3>2, <3>3
    <2> QED  BY <2>3, <2>4
  <1> QED  BY <1>1, Invariance, Promptness, PTL

(* On a channel that carries good frames a whole one is decoded before     *)
(* three of the longest have passed, from every state noise and resets can *)
(* have left the receiver in, from wherever in a frame the channel becomes *)
(* good, and so on for as long as it is.                                   *)
THEOREM GoodDecoded == Spec => []GoodSignalDecodes
  <1>1. IInv /\ Prompt => GoodSignalDecodes
    <2> SUFFICES ASSUME IInv, Prompt, air.how = "good"
                 PROVE  air.wait < 3 * LongestFrame
      BY DEF GoodSignalDecodes, LongestFrame
    <2>1. /\ air.wait \in Nat /\ air.pos \in Nat /\ FrameLen(air.kind) \in Nat /\ AirType
      BY PromptTypes DEF IInv
    <2>2. Following /\ air.pos < FrameLen(air.kind)  BY DEF Prompt, Following
    <2>3. Spent(3)
      <3>1. Spent(1) \/ Spent(2) \/ Spent(3)  BY <2>2 DEF Following
      <3> QED  BY <2>1, <3>1, SpentMore
    <2> QED  BY <2>1, <2>2, <2>3, LongestFacts DEF Spent
  <1> QED  BY <1>1, Invariance, Promptness, PTL
=============================================================================
