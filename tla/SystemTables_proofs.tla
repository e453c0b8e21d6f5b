------------------------ MODULE SystemTables_proofs --------------------------
(***************************************************************************)
(* SystemTables is well typed, its tables agree and its lookups resolve,   *)
(* for any units, addresses, frequencies and talkgroups.                   *)
(*                                                                         *)
(* A step of one table leaves the others alone: the invariant is a part    *)
(* per table, each of which says what a thread in the middle of a job      *)
(* still knows, as long as the other has not crossed it.                   *)
(***************************************************************************)
EXTENDS SystemTables, TLAPS

(* Units with one address are all known to share it. *)
SharedDisplaced ==
    \A u, v \in Units : u # v /\ Registered(u) /\ suids[u] = suids[v] => u \in displaced

UnitMsgKnows ==
    /\ msg.at \in {"known", "drop", "add"} => msg.unit \in Units
    /\ msg.at \in {"add", "find", "touch"} => msg.addr \in Addrs
    /\ msg.at \in {"known", "drop"} /\ msg.next = "add" => msg.addr \in Addrs
    /\ msg.at = "drop" => msg.crossed \/ Registered(msg.unit)
    /\ msg.at = "add" => suids[msg.unit] \in {NoAddr, msg.addr}
    /\ msg.at = "find" => msg.crossed \/ wuids[msg.addr] # NoUnit
    /\ msg.at = "touch" => \/ msg.crossed
                           \/ /\ wuids[msg.addr] # NoUnit
                              /\ msg.unit = wuids[msg.addr]

UnitUiKnows ==
    /\ ui.at = "ages" => ui.crossed \/ \A u \in ui.todo \cup ui.list : Registered(u)
    /\ ui.at = "purge" => ui.crossed \/ \A u \in ui.list : Registered(u)

UnitInv ==
    /\ AddressesResolve /\ UnitsReachable /\ SharedDisplaced
    /\ about = "units" => UnitMsgKnows /\ UnitUiKnows

(* A name of a talkgroup is in the table or a reload has removed it. *)
NamesKnown ==
    /\ \A p \in Places : voice[p] \in talkgroups \cup wiped \cup {NoTg}
    /\ call \in talkgroups \cup wiped \cup {NoTg}

VoiceMsgKnows ==
    /\ msg.at \in {"stamp", "log", "insert", "enter"} =>
          {p \in Places : voice[p] = msg.tg} \subseteq msg.prev
    /\ msg.at \in {"log", "insert", "enter"} => msg.tg \in talkgroups \cup wiped
    /\ msg.at = "log" => msg.crossed \/ msg.tg \in booked
    /\ msg.at = "end" => msg.crossed \/ call # NoTg

VoiceUiKnows ==
    /\ ui.at \in {"look", "clear"} /\ ui.torn => ui.crossed
    /\ ui.at = "clear" => ui.place \in Places
    /\ ui.at = "end" => ui.crossed \/ call # NoTg

VoiceInv ==
    /\ OneFrequency /\ NamesKnown
    /\ about = "voice" => VoiceMsgKnows /\ VoiceUiKnows

PatchInv ==
    /\ PatchesSound
    /\ about = "patches" =>
          /\ msg.at = "unpatch" => msg.crossed \/ Patched(msg.sg)
          /\ ui.at = "list" => ui.crossed \/ \A sg \in ui.todo : Patched(sg)

IInv == TypeOK /\ UnitInv /\ VoiceInv /\ PatchInv

-----------------------------------------------------------------------------
(* Every table starts empty. *)
LEMMA StartsSound == Init => IInv
<1> SUFFICES ASSUME Init PROVE IInv
  OBVIOUS
<1> USE TablesAssumption DEF TablesAssumption, Init
<1>1. TypeOK
  BY DEF TypeOK, Idle, Dead
<1>2. UnitInv
  BY DEF UnitInv, AddressesResolve, UnitsReachable, SharedDisplaced, Registered,
         UnitMsgKnows, UnitUiKnows, Idle
<1>3. VoiceInv
  BY DEF VoiceInv, OneFrequency, NamesKnown, VoiceMsgKnows, VoiceUiKnows, Idle
<1>4. PatchInv
  BY DEF PatchInv, PatchesSound, Patched, Idle
<1> QED
  BY <1>1, <1>2, <1>3, <1>4 DEF IInv

(* The fields of a job, by the table it is about. *)
LEMMA UnitFields ==
    ASSUME TypeOK, about = "units"
    PROVE  /\ msg \in {Idle, Dead} \cup UnitMsg
           /\ ui \in {Idle, Dead} \cup UnitUi
  BY DEF TypeOK

(* The threads of a behaviour about voice frequencies are in jobs about    *)
(* them.                                                                   *)
LEMMA VoiceFields ==
    ASSUME TypeOK, about = "voice"
    PROVE  /\ msg \in {Idle, Dead} \cup VoiceMsg \cup CallEnd
           /\ ui \in {Idle, Dead} \cup VoiceUi \cup CallEnd
  BY DEF TypeOK

(* The threads of a behaviour about patches are in jobs about patches.     *)
LEMMA PatchFields ==
    ASSUME TypeOK, about = "patches"
    PROVE  /\ msg \in {Idle, Dead} \cup PatchMsg
           /\ ui \in {Idle, Dead} \cup PatchUi
  BY DEF TypeOK

-----------------------------------------------------------------------------
(* Units. *)

(* The tables of the other parts. *)
OtherThanUnits == <<about, talkgroups, booked, call, freqs, voice, patches, wiped>>

(* A step about units disturbs nothing that is said of the other tables.   *)
LEMMA UnitFrame ==
    ASSUME TypeOK, VoiceInv, PatchInv, about = "units", UNCHANGED OtherThanUnits
    PROVE  VoiceInv' /\ PatchInv'
  BY DEF OtherThanUnits, VoiceInv, PatchInv, OneFrequency, NamesKnown, PatchesSound,
         Places, Patched

(* What a step about units has to keep. *)
UnitsSound ==
    /\ suids \in [Units -> Addrs \cup {NoAddr}]
    /\ wuids \in [Addrs -> Units \cup {NoUnit}]
    /\ old \subseteq Units \cup Places \cup Tgids
    /\ msg \in {Idle, Dead} \cup UnitMsg
    /\ ui \in {Idle, Dead} \cup UnitUi
    /\ displaced \subseteq Units
    /\ AddressesResolve /\ UnitsReachable /\ SharedDisplaced
    /\ UnitMsgKnows /\ UnitUiKnows

(* The invariant gives what a step about units starts from.                *)
LEMMA UnitsSoundIs ==
    ASSUME IInv, about = "units" PROVE UnitsSound
  BY UnitFields DEF IInv, TypeOK, UnitInv, UnitsSound

(* A step about units restores the invariant by keeping its own part.      *)
LEMMA UnitsSoundGives ==
    ASSUME IInv, about = "units", UNCHANGED OtherThanUnits, UnitsSound'
    PROVE  IInv'
<1>1. TypeOK'
  BY DEF IInv, TypeOK, UnitsSound, OtherThanUnits, Places, Idle, Dead, UnitMsg, UnitUi
<1>2. UnitInv'
  BY DEF UnitInv, UnitsSound
<1> QED
  BY <1>1, <1>2, UnitFrame DEF IInv

(* Removing units keeps what the tables say of the others. *)
LEMMA Removed ==
    ASSUME UnitsSound, NEW gone \in SUBSET Units, RemoveUnits(gone)
    PROVE  /\ suids' \in [Units -> Addrs \cup {NoAddr}]
           /\ wuids' \in [Addrs -> Units \cup {NoUnit}]
           /\ old' \subseteq Units \cup Places \cup Tgids
           /\ displaced' \subseteq Units
           /\ AddressesResolve' /\ UnitsReachable' /\ SharedDisplaced'
<1> USE TablesAssumption DEF TablesAssumption, RemoveUnits, UnitsSound
<1>1. suids' \in [Units -> Addrs \cup {NoAddr}] /\ wuids' \in [Addrs -> Units \cup {NoUnit}]
  OBVIOUS
<1>2. old' \subseteq Units \cup Places \cup Tgids /\ displaced' \subseteq Units
  BY DEF Places
<1>3. AddressesResolve'
  BY DEF AddressesResolve
<1>4. SharedDisplaced'
  BY DEF SharedDisplaced, Registered
<1>5. UnitsReachable'
  <2> SUFFICES ASSUME NEW u \in Units \ displaced', Registered(u)'
               PROVE  (wuids[suids[u]] = u)'
    BY DEF UnitsReachable
  <2>1. u \notin gone /\ suids'[u] = suids[u] /\ suids[u] \in Addrs /\ u \notin displaced
    BY DEF Registered
  <2>2. wuids[suids[u]] = u
    BY <2>1 DEF UnitsReachable, Registered
  <2>3. \A g \in gone : suids[g] # suids[u]
    BY <2>1 DEF SharedDisplaced, Registered
  <2> QED
    BY <2>1, <2>2, <2>3
<1> QED
  BY <1>1, <1>2, <1>3, <1>4, <1>5

(* What the threads know depends on nothing but their own table. *)
LEMMA UnitBegins ==
    ASSUME UnitsSound, UNCHANGED <<tables, old, displaced>>,
           \/ \E u \in Units, w \in Addrs : Register(u, w)
           \/ \E u \in Units : Deregister(u)
           \/ \E w \in Addrs, rounds \in {1, 2} : Mention(w, rounds)
           \/ ExpireRegistrations
    PROVE  UnitsSound'
<1> USE TablesAssumption DEF TablesAssumption
<1>1. suids' = suids /\ wuids' = wuids /\ old' = old /\ displaced' = displaced
  BY DEF tables
<1>2. CASE \E u \in Units, w \in Addrs : Register(u, w)
  BY <1>1, <1>2 DEF Register, Registering, MsgBegins, UnitsSound, UnitMsg, UnitMsgKnows, UnitUiKnows,
     AddressesResolve, UnitsReachable, SharedDisplaced, Registered, Places, Idle, Dead
<1>3. CASE \E u \in Units : Deregister(u)
  BY <1>1, <1>3 DEF Deregister, MsgBegins, UnitsSound, UnitMsg, UnitMsgKnows, UnitUiKnows,
     AddressesResolve, UnitsReachable, SharedDisplaced, Registered, Places, Idle, Dead
<1>4. CASE \E w \in Addrs, rounds \in {1, 2} : Mention(w, rounds)
  BY <1>1, <1>4 DEF Mention, Registering, MsgBegins, UnitsSound, UnitMsg, UnitMsgKnows, UnitUiKnows,
     AddressesResolve, UnitsReachable, SharedDisplaced, Registered, Places, Idle, Dead
<1>5. CASE ExpireRegistrations
  BY <1>1, <1>5 DEF ExpireRegistrations, UiBegins, UnitsSound, UnitUi, UnitMsgKnows, UnitUiKnows,
     AddressesResolve, UnitsReachable, SharedDisplaced, Registered, Places, Idle, Dead
<1> QED
  BY <1>2, <1>3, <1>4, <1>5

(* deregister_suid() goes on, or comes back to register_suid().            *)
LEMMA KnownSound == ASSUME UnitsSound, Known PROVE UnitsSound'
  BY TablesAssumption
  DEF TablesAssumption, Known, Proceeds, tables, UnitsSound, UnitMsg, UnitMsgKnows, UnitUiKnows,
      AddressesResolve, UnitsReachable, SharedDisplaced, Registered, Places, Idle, Dead

(* The unit found for an address has it.                                   *)
LEMMA FindSound == ASSUME UnitsSound, Find PROVE UnitsSound'
<1>1. msg \in UnitMsg /\ msg.addr \in Addrs
  BY DEF UnitsSound, UnitMsgKnows, Find, Idle, Dead
<1>2. UNCHANGED <<suids, wuids, old, ui, displaced>>
  BY DEF Find, tables
<1>3. msg' \in {Idle, Dead} \cup UnitMsg
  BY <1>1 DEF Find, UnitsSound, UnitMsg, Idle, Dead
<1>4. UnitMsgKnows'
  BY <1>1, <1>2 DEF Find, UnitMsgKnows, UnitMsg, Idle, Dead
<1> QED
  BY <1>2, <1>3, <1>4
  DEF UnitsSound, AddressesResolve, UnitsReachable, SharedDisplaced, Registered, UnitUiKnows, Places

(* Refreshing a unit moves nothing in the tables.                          *)
LEMMA TouchSound == ASSUME UnitsSound, Touch PROVE UnitsSound'
<1>1. msg \in UnitMsg /\ msg.addr \in Addrs
  BY DEF UnitsSound, UnitMsgKnows, Touch, Idle, Dead
<1>2. UNCHANGED <<suids, wuids, ui, displaced>> /\ old' \subseteq old
  BY DEF Touch, tables
<1>3. msg' \in {Idle, Dead} \cup UnitMsg
  <2>1. msg.rounds \in 0 .. 2 /\ (msg.rounds > 1 => msg.rounds - 1 \in 0 .. 2)
    BY <1>1 DEF UnitMsg
  <2>2. CASE msg' = [msg EXCEPT !.at = "find", !.rounds = @ - 1] /\ msg.rounds > 1
    BY <1>1, <2>1, <2>2 DEF UnitMsg
  <2>3. CASE msg' \in {Idle, Dead}
    BY <2>3
  <2> QED
    BY <2>2, <2>3 DEF Touch
<1>4. UnitMsgKnows'
  BY <1>1, <1>2 DEF Touch, UnitMsgKnows, UnitMsg, Idle, Dead
<1> QED
  BY <1>2, <1>3, <1>4
  DEF UnitsSound, AddressesResolve, UnitsReachable, SharedDisplaced, Registered, UnitUiKnows, Places

(* The list of expired units holds registered ones until it is crossed.    *)
LEMMA AgesSound == ASSUME UnitsSound, Ages PROVE UnitsSound'
<1>1. ui.at = "ages"
  BY Zenon DEF Ages
<1>2. ui \in UnitUi
  BY <1>1 DEF UnitsSound, Idle, Dead
<1>3. UNCHANGED <<suids, wuids, old, msg, displaced>>
  BY DEF Ages, tables
<1>4. CASE ui.todo = {} /\ ui' = [ui EXCEPT !.at = "purge"]
  <2>1. ui' \in UnitUi /\ ui'.at = "purge" /\ ui'.list = ui.list /\ ui'.crossed = ui.crossed
    BY <1>2, <1>4 DEF UnitUi
  <2> QED
    BY <1>1, <1>3, <2>1
    DEF UnitsSound, UnitUiKnows, AddressesResolve, UnitsReachable, SharedDisplaced, Registered,
        UnitMsgKnows, Places
<1>5. CASE \E u \in ui.todo :
              /\ Registered(u)
              /\ ui' = [ui EXCEPT !.todo = @ \ {u}, !.list = @ \cup ({u} \cap old)]
  <2>1. PICK u \in ui.todo :
              /\ Registered(u)
              /\ ui' = [ui EXCEPT !.todo = @ \ {u}, !.list = @ \cup ({u} \cap old)]
    BY <1>5
  <2>2. ui.todo \subseteq Units /\ ui.list \cup ({u} \cap old) \subseteq Units
    BY <1>2, <2>1 DEF UnitUi
  <2>3. /\ ui' \in UnitUi /\ ui'.at = "ages" /\ ui'.crossed = ui.crossed
        /\ ui'.todo \cup ui'.list \subseteq ui.todo \cup ui.list
    BY <1>1, <1>2, <2>1, <2>2 DEF UnitUi
  <2> QED
    BY <1>1, <1>3, <2>3
    DEF UnitsSound, UnitUiKnows, AddressesResolve, UnitsReachable, SharedDisplaced, Registered,
        UnitMsgKnows, Places
<1>6. CASE ui' = Dead
  BY <1>3, <1>6
  DEF UnitsSound, UnitUiKnows, AddressesResolve, UnitsReachable, SharedDisplaced, Registered,
      UnitMsgKnows, Places, Dead
<1> QED
  BY Zenon, <1>4, <1>5, <1>6 DEF Ages

(* Removing one unit crosses the UI thread and leaves the tables sound.    *)
LEMMA DropSound == ASSUME UnitsSound, Drop PROVE UnitsSound'
<1> USE TablesAssumption DEF TablesAssumption, Drop
<1>1. CASE ~ Registered(msg.unit)
  BY <1>1 DEF UnitsSound, UnitMsg, UnitMsgKnows, UnitUiKnows,
      AddressesResolve, UnitsReachable, SharedDisplaced, Registered, Places, Idle, Dead
<1>2. CASE Registered(msg.unit)
  <2>1. RemoveUnits({msg.unit}) /\ ui' = Crossed(ui) /\ msg' = Proceeds(msg.next)
    BY <1>2
  <2>2. msg \in UnitMsg /\ msg.unit \in Units
    BY DEF UnitsSound, UnitMsgKnows, Idle, Dead
  <2>3. msg' \in {Idle, Dead} \cup UnitMsg /\ UnitMsgKnows'
    BY <2>1, <2>2 DEF Proceeds, UnitsSound, UnitMsg, UnitMsgKnows, RemoveUnits, Idle, Dead
  <2>4. ui' \in {Idle, Dead} \cup UnitUi /\ UnitUiKnows'
    <3>1. CASE ui \in {Idle, Dead}
      BY <2>1, <3>1 DEF Crossed, Busy, UnitUiKnows, Idle, Dead
    <3>2. CASE ui \in UnitUi
      BY <2>1, <3>2 DEF Crossed, Busy, UnitUi, UnitUiKnows
    <3> QED
      BY <3>1, <3>2 DEF UnitsSound
  <2> QED
    BY <2>1, <2>2, <2>3, <2>4, Removed DEF UnitsSound
<1> QED
  BY <1>1, <1>2

(* Removing the expired units crosses the message thread, if there are     *)
(* any.                                                                    *)
LEMMA PurgeSound == ASSUME UnitsSound, Purge PROVE UnitsSound'
<1> USE TablesAssumption DEF TablesAssumption
<1>1. ui \in UnitUi
  BY DEF UnitsSound, Purge, Idle, Dead
<1>2. PICK gone \in SUBSET ui.list : RemoveUnits(gone)
  BY DEF Purge
<1>3. gone \subseteq Units
  BY <1>1, <1>2 DEF UnitUi
<1>4. ui' \in {Idle, Dead} /\ UnitUiKnows'
  BY DEF Purge, UnitUiKnows, Idle, Dead
<1>5. msg' \in {Idle, Dead} \cup UnitMsg /\ UnitMsgKnows'
  <2>1. CASE ui.list = {}
    BY <1>2, <2>1 DEF Purge, UnitsSound, UnitMsg, UnitMsgKnows, RemoveUnits, Registered, Idle, Dead
  <2>2. CASE ui.list # {}
    <3>1. CASE msg \in {Idle, Dead}
      BY <2>2, <3>1 DEF Purge, Crossed, Busy, UnitMsgKnows, Idle, Dead
    <3>2. CASE msg \in UnitMsg
      <4>1. msg.at \notin {"idle", "dead"} /\ msg' = [msg EXCEPT !.crossed = TRUE]
        BY <2>2, <3>2 DEF Purge, Crossed, Busy, UnitMsg
      <4>2. msg' \in UnitMsg /\ msg'.crossed /\ msg'.at = msg.at
            /\ msg'.unit = msg.unit /\ msg'.addr = msg.addr /\ msg'.next = msg.next
        BY <3>2, <4>1 DEF UnitMsg
      <4> QED
        BY <1>2, <4>2 DEF UnitsSound, UnitMsgKnows, RemoveUnits
    <3> QED
      BY <3>1, <3>2 DEF UnitsSound
  <2> QED
    BY <2>1, <2>2
<1> QED
  BY <1>2, <1>3, <1>4, <1>5, Removed DEF UnitsSound

(* register_suid() under its lock: a unit that takes an address others     *)
(* have is displaced together with them.                                   *)
LEMMA AddSound == ASSUME UnitsSound, Add PROVE UnitsSound'
<1> USE TablesAssumption DEF TablesAssumption
<1>1. msg \in UnitMsg /\ msg.unit \in Units /\ msg.addr \in Addrs /\ ui' = ui
  BY DEF UnitsSound, UnitMsgKnows, Add, Idle, Dead
<1>2. msg' \in {Idle, Dead} \cup UnitMsg
  BY <1>1 DEF Add, LooksUp, Proceeds, UnitMsg, Idle, Dead
<1>3. old' \subseteq Units \cup Places \cup Tgids
  BY DEF Add, UnitsSound
<1>4. CASE Registered(msg.unit)
  <2>1. suids' = suids /\ wuids' = wuids /\ displaced' = displaced
    BY <1>4 DEF Add
  <2>2. UnitMsgKnows'
    BY <1>1, <1>4, <2>1
    DEF Add, LooksUp, Proceeds, UnitMsg, UnitMsgKnows, UnitsSound, Registered, Idle, Dead
  <2>3. UnitUiKnows'
    BY <1>1, <2>1 DEF UnitUiKnows, UnitsSound, Registered
  <2> QED
    BY <1>1, <1>2, <1>3, <2>1, <2>2, <2>3
    DEF UnitsSound, AddressesResolve, UnitsReachable, SharedDisplaced, Registered, Places
<1>5. CASE ~ Registered(msg.unit)
  <2>1. Enrol(msg.unit, msg.addr) /\ suids[msg.unit] = NoAddr
    BY <1>5 DEF Add, Registered
  <2>2. displaced \subseteq displaced'
        /\ (Rivals(msg.unit, msg.addr) # {} =>
              {msg.unit} \cup Rivals(msg.unit, msg.addr) \subseteq displaced')
    BY <1>5 DEF Add
  <2>3. displaced' \subseteq Units
    BY <1>1, <1>5 DEF Add, Rivals, UnitsSound
  <2>4. suids' \in [Units -> Addrs \cup {NoAddr}] /\ wuids' \in [Addrs -> Units \cup {NoUnit}]
    BY <1>1, <2>1 DEF Enrol, UnitsSound
  <2>5. AddressesResolve'
    BY <1>1, <2>1 DEF Enrol, UnitsSound, AddressesResolve
  <2>6. SharedDisplaced'
    BY <1>1, <2>1, <2>2 DEF Enrol, UnitsSound, SharedDisplaced, Registered, Rivals
  <2>7. UnitsReachable'
    BY <1>1, <2>1, <2>2 DEF Enrol, UnitsSound, UnitsReachable, Registered, Rivals
  <2>8. UnitMsgKnows'
    BY <1>1, <1>5, <2>1, <2>4
    DEF Add, LooksUp, Proceeds, Enrol, UnitMsg, UnitMsgKnows, UnitsSound, Registered, Idle, Dead
  <2>9. UnitUiKnows'
    BY <1>1, <2>1 DEF UnitUiKnows, UnitsSound, Enrol, Registered, UnitUi
  <2>10. ui' \in {Idle, Dead} \cup UnitUi
    BY <1>1 DEF UnitsSound, UnitUi, Idle, Dead
  <2> QED
    BY <1>2, <1>3, <2>3, <2>4, <2>5, <2>6, <2>7, <2>8, <2>9, <2>10 DEF UnitsSound, Places
<1> QED
  BY <1>4, <1>5

(* Every step about units keeps the invariant.                             *)
LEMMA UnitStepsSound == ASSUME IInv, about = "units", UnitSteps PROVE IInv'
<1>1. UnitsSound
  BY UnitsSoundIs
<1>2. UNCHANGED OtherThanUnits
  BY DEF UnitSteps, OtherThanUnits, tables, Known, Drop, Add, Find, Touch, Ages, Purge
<1>3. UnitsSound'
  BY <1>1, UnitBegins, KnownSound, DropSound, AddSound, FindSound, TouchSound, AgesSound, PurgeSound
  DEF UnitSteps
<1> QED
  BY <1>2, <1>3, UnitsSoundGives

-----------------------------------------------------------------------------
(* Voice frequencies and calls. *)

OtherThanVoice == <<about, suids, wuids, patches, displaced>>

(* A step about voice frequencies disturbs nothing of the other tables.    *)
LEMMA VoiceFrame ==
    ASSUME TypeOK, UnitInv, PatchInv, about = "voice", UNCHANGED OtherThanVoice
    PROVE  UnitInv' /\ PatchInv'
  BY DEF OtherThanVoice, UnitInv, PatchInv, AddressesResolve, UnitsReachable,
         SharedDisplaced, Registered, PatchesSound, Patched

(* What a step about voice frequencies has to keep. *)
VoiceTables ==
    /\ talkgroups \subseteq Tgids /\ booked \subseteq talkgroups
    /\ call \in Tgids \cup {NoTg}
    /\ freqs \in [Freqs -> {"absent", "begun", "made"}]
    /\ voice \in [Places -> Tgids \cup {NoTg}]
    /\ old \subseteq Units \cup Places \cup Tgids
    /\ wiped \subseteq Tgids
    /\ OneFrequency /\ NamesKnown

VoiceMsgSound == msg \in {Idle, Dead} \cup VoiceMsg \cup CallEnd /\ VoiceMsgKnows
VoiceUiSound  == ui \in {Idle, Dead} \cup VoiceUi \cup CallEnd /\ VoiceUiKnows

VoiceSound == VoiceTables /\ VoiceMsgSound /\ VoiceUiSound

(* The invariant gives what a step about voice frequencies starts from.    *)
LEMMA VoiceSoundIs ==
    ASSUME IInv, about = "voice" PROVE VoiceSound
  BY VoiceFields
  DEF IInv, TypeOK, VoiceInv, VoiceSound, VoiceTables, VoiceMsgSound, VoiceUiSound

(* A step about voice frequencies restores the invariant.                  *)
LEMMA VoiceSoundGives ==
    ASSUME IInv, about = "voice", UNCHANGED OtherThanVoice, VoiceSound'
    PROVE  IInv'
<1>1. TypeOK'
  BY DEF IInv, TypeOK, VoiceSound, VoiceTables, VoiceMsgSound, VoiceUiSound, OtherThanVoice
<1>2. VoiceInv'
  BY DEF VoiceInv, VoiceSound, VoiceTables, VoiceMsgSound, VoiceUiSound
<1> QED
  BY <1>1, <1>2, VoiceFrame DEF IInv

(* A crossed job knows no more than that it was crossed. *)
LEMMA CrossedVoiceUi ==
    ASSUME VoiceUiSound, ui' = Crossed(ui) PROVE VoiceUiSound'
<1>1. CASE ui \in {Idle, Dead}
  BY <1>1 DEF VoiceUiSound, VoiceUiKnows, Crossed, Busy, Idle, Dead
<1>2. CASE ui \in VoiceUi
  BY <1>2 DEF VoiceUiSound, VoiceUiKnows, Crossed, Busy, VoiceUi
<1>3. CASE ui \in CallEnd
  BY <1>3 DEF VoiceUiSound, VoiceUiKnows, Crossed, Busy, CallEnd
<1> QED
  BY <1>1, <1>2, <1>3 DEF VoiceUiSound

(* So with the message thread, whose talkgroup a reload may have removed.  *)
LEMMA CrossedVoiceMsg ==
    ASSUME VoiceMsgSound, msg' = Crossed(msg), voice' = voice,
           talkgroups \cup wiped \subseteq talkgroups' \cup wiped'
    PROVE  VoiceMsgSound'
<1>1. CASE msg \in {Idle, Dead}
  BY <1>1 DEF VoiceMsgSound, VoiceMsgKnows, Crossed, Busy, Idle, Dead
<1>2. CASE msg \in VoiceMsg
  <2>1. msg' = [msg EXCEPT !.crossed = TRUE]
    BY <1>2 DEF Crossed, Busy, VoiceMsg
  <2>2. /\ msg' \in VoiceMsg /\ msg'.crossed
        /\ msg'.at = msg.at /\ msg'.tg = msg.tg /\ msg'.prev = msg.prev
    BY <1>2, <2>1 DEF VoiceMsg
  <2>3. msg'.at \notin {"end", "ended"}
    BY <2>2 DEF VoiceMsg
  <2> QED
    BY <2>2, <2>3 DEF VoiceMsgSound, VoiceMsgKnows, Places
<1>3. CASE msg \in CallEnd
  <2>1. msg' = [msg EXCEPT !.crossed = TRUE]
    BY <1>3 DEF Crossed, Busy, CallEnd
  <2>2. msg' \in CallEnd /\ msg'.crossed /\ msg'.at \in {"end", "ended"}
    BY <1>3, <2>1 DEF CallEnd
  <2> QED
    BY <2>2 DEF VoiceMsgSound, VoiceMsgKnows
<1> QED
  BY <1>1, <1>2, <1>3 DEF VoiceMsgSound

(* find_voice_freq() finds every place of a talkgroup, which is on one     *)
(* frequency.                                                              *)
LEMMA FindsAll ==
    ASSUME VoiceTables, NEW tg \in Tgids
    PROVE  /\ FindVoiceFreq(tg) \in SUBSET Places
           /\ {p \in Places : voice[p] = tg} \subseteq FindVoiceFreq(tg)
<1> DEFINE fs == {f \in Freqs : \E t \in {0, 1} : voice[<<f, t>>] = tg}
           first == CHOOSE f \in fs : \A g \in fs : f <= g
<1>1. FindVoiceFreq(tg) = {p \in Places : p[1] \in fs /\ p[1] = first /\ voice[p] = tg}
  BY DEF FindVoiceFreq
<1>2. ASSUME NEW p \in Places, voice[p] = tg PROVE p[1] \in fs /\ p[1] = first
  <2>1. PICK f \in Freqs, t \in {0, 1} : p = <<f, t>>
    BY DEF Places
  <2>2. f \in fs
    BY <1>2, <2>1
  <2>3. \A g \in fs : g = f
    <3> SUFFICES ASSUME NEW g \in Freqs, NEW v \in {0, 1}, voice[<<g, v>>] = tg
                 PROVE  g = f
      OBVIOUS
    <3>1. <<g, v>> \in Places /\ voice[<<g, v>>] = voice[p] /\ voice[p] # NoTg
      BY <1>2, TablesAssumption DEF Places, TablesAssumption
    <3>2. <<g, v>>[1] = p[1]
      BY <3>1 DEF VoiceTables, OneFrequency
    <3> QED
      BY <2>1, <3>2
  <2>4. f \in Nat
    BY TablesAssumption DEF TablesAssumption
  <2>5. \E h \in fs : \A g \in fs : h <= g
    <3>1. f <= f
      BY <2>4
    <3>2. \A g \in fs : f <= g
      BY Zenon, <2>3, <3>1
    <3> QED
      BY Zenon, <2>2, <3>2
  <2>6. first \in fs
    BY <2>5
  <2> QED
    BY <2>1, <2>2, <2>3, <2>6
<1> QED
  BY <1>1, <1>2

(* update_voice_frequency() begins with every place of the talkgroup in    *)
(* hand.                                                                   *)
LEMMA GrantSound ==
    ASSUME VoiceSound, UNCHANGED <<tables, old, wiped>>,
           NEW f \in Freqs, NEW tg \in Tgids, NEW slots \in {{0}, {1}, {0, 1}},
           Grant(f, tg, slots)
    PROVE  VoiceSound'
<1>1. VoiceTables'
  BY DEF VoiceSound, VoiceTables, tables, OneFrequency, NamesKnown, Places
<1>2. VoiceUiSound'
  BY DEF VoiceSound, VoiceUiSound, VoiceUiKnows, Grant, MsgBegins, tables, Places
<1>3. slots \subseteq {0, 1}
  OBVIOUS
<1>4. /\ FindVoiceFreq(tg) \in SUBSET Places
      /\ {p \in Places : voice'[p] = tg} \subseteq FindVoiceFreq(tg)
  BY FindsAll DEF VoiceSound, tables
<1>5. msg' = [at |-> "stamp", freq |-> f, tg |-> tg, slots |-> slots,
              prev |-> FindVoiceFreq(tg), crossed |-> FALSE]
  BY DEF Grant, MsgBegins
<1>6. msg' \in VoiceMsg
  BY <1>3, <1>4, <1>5 DEF VoiceMsg
<1>7. VoiceMsgKnows'
  BY <1>4, <1>5 DEF VoiceMsgKnows, Places
<1> QED
  BY <1>1, <1>2, <1>6, <1>7 DEF VoiceSound, VoiceMsgSound

(* to_json() begins with the frequencies there are.                        *)
LEMMA SnapshotSound ==
    ASSUME VoiceSound, UNCHANGED <<tables, old, wiped>>, Snapshot PROVE VoiceSound'
<1>1. VoiceTables'
  BY DEF VoiceSound, VoiceTables, tables, OneFrequency, NamesKnown, Places
<1>2. VoiceMsgSound'
  BY DEF VoiceSound, VoiceMsgSound, VoiceMsgKnows, Snapshot, UiBegins, tables, Places
<1>3. VoiceUiSound'
  BY DEF VoiceUiSound, VoiceUiKnows, Snapshot, UiBegins, VoiceUi
<1> QED
  BY <1>1, <1>2, <1>3 DEF VoiceSound

(* A job of the message thread that is about a frequency. *)
LEMMA AtVoiceMsg ==
    ASSUME VoiceMsgSound, msg.at \in {"stamp", "log", "insert", "enter"}
    PROVE  /\ msg \in VoiceMsg /\ msg.freq \in Freqs /\ msg.tg \in Tgids
           /\ msg.slots \subseteq {0, 1} /\ msg.prev \subseteq Places
<1>1. msg \in VoiceMsg
  BY DEF VoiceMsgSound, CallEnd, Idle, Dead
<1> QED
  BY <1>1 DEF VoiceMsg

(* The talkgroup of a grant is known from here on.                         *)
LEMMA StampSound == ASSUME VoiceSound, Stamp PROVE VoiceSound'
<1>1. msg \in VoiceMsg /\ msg.tg \in Tgids /\ msg.at = "stamp"
  BY AtVoiceMsg DEF VoiceSound, Stamp
<1>2. UNCHANGED <<booked, call, freqs, voice, old, ui>>
  BY DEF Stamp
<1>3. talkgroups' = talkgroups \cup {msg.tg} /\ wiped' = wiped \ {msg.tg}
  BY DEF Stamp
<1>4. VoiceTables'
  BY <1>1, <1>2, <1>3 DEF VoiceSound, VoiceTables, OneFrequency, NamesKnown, Places
<1>5. VoiceUiSound'
  BY <1>2 DEF VoiceSound, VoiceUiSound, VoiceUiKnows, Places
<1>6. \E at \in {"log", "insert", "enter"} :
        msg' = [msg EXCEPT !.at = at] /\ (at = "log" => msg.tg \in booked)
  BY <1>1 DEF Stamp, Entering
<1>7. /\ msg' \in VoiceMsg /\ msg'.at \in {"log", "insert", "enter"}
      /\ msg'.tg = msg.tg /\ msg'.prev = msg.prev
      /\ msg'.at = "log" => msg.tg \in booked
  BY <1>1, <1>6 DEF VoiceMsg
<1>8. VoiceMsgKnows'
  BY <1>1, <1>2, <1>3, <1>7 DEF VoiceSound, VoiceMsgSound, VoiceMsgKnows, Places
<1> QED
  BY <1>4, <1>5, <1>7, <1>8 DEF VoiceSound, VoiceMsgSound

(* A new source of a followed call is logged, or the thread ends.          *)
LEMMA LogSound == ASSUME VoiceSound, Log PROVE VoiceSound'
<1>1. msg \in VoiceMsg /\ msg.tg \in Tgids /\ msg.at = "log"
  BY AtVoiceMsg DEF VoiceSound, Log
<1>2. VoiceTables' /\ VoiceUiSound'
  BY DEF VoiceSound, VoiceTables, VoiceUiSound, VoiceUiKnows, Log, tables, OneFrequency,
         NamesKnown, Places
<1>3. CASE msg' = Dead
  BY <1>2, <1>3 DEF VoiceSound, VoiceMsgSound, VoiceMsgKnows, Dead
<1>4. CASE msg' = Entering
  <2>1. /\ msg' \in VoiceMsg /\ msg'.at \in {"insert", "enter"}
        /\ msg'.tg = msg.tg /\ msg'.prev = msg.prev
    BY <1>1, <1>4 DEF Entering, VoiceMsg
  <2>2. voice' = voice /\ talkgroups' = talkgroups /\ wiped' = wiped
    BY DEF Log, tables
  <2>3. VoiceMsgKnows'
    BY <1>1, <2>1, <2>2 DEF VoiceSound, VoiceMsgSound, VoiceMsgKnows, Places
  <2> QED
    BY <1>2, <2>1, <2>3 DEF VoiceSound, VoiceMsgSound
<1> QED
  BY <1>3, <1>4 DEF Log

(* A new frequency crosses whatever the UI thread iterates over.           *)
LEMMA InsertSound == ASSUME VoiceSound, Insert PROVE VoiceSound'
<1>1. msg \in VoiceMsg /\ msg.tg \in Tgids /\ msg.freq \in Freqs /\ msg.at = "insert"
  BY AtVoiceMsg DEF VoiceSound, Insert
<1>2. VoiceTables'
  BY <1>1 DEF VoiceSound, VoiceTables, Insert, OneFrequency, NamesKnown, Places
<1>3. /\ msg' \in VoiceMsg /\ msg'.at = "enter"
      /\ msg'.tg = msg.tg /\ msg'.prev = msg.prev
  BY <1>1 DEF Insert, VoiceMsg
<1>4. voice' = voice /\ talkgroups' = talkgroups /\ wiped' = wiped
  BY DEF Insert
<1>5. VoiceMsgKnows'
  BY <1>1, <1>3, <1>4 DEF VoiceSound, VoiceMsgSound, VoiceMsgKnows, Places
<1>6. VoiceUiSound'
  <2>1. CASE ui.at \in {"look", "clear"}
    <3>1. ui \in VoiceUi
      BY <2>1 DEF VoiceSound, VoiceUiSound, CallEnd, Idle, Dead
    <3>2. ui' = [ui EXCEPT !.crossed = TRUE, !.torn = TRUE]
      BY <2>1 DEF Insert
    <3>3. ui' \in VoiceUi /\ ui'.at = ui.at /\ ui'.crossed /\ ui'.place = ui.place
      BY <3>1, <3>2 DEF VoiceUi
    <3> QED
      BY <2>1, <3>3 DEF VoiceSound, VoiceUiSound, VoiceUiKnows, Places
  <2>2. CASE ui.at \notin {"look", "clear"}
    BY <2>2, CrossedVoiceUi DEF Insert, VoiceSound
  <2> QED
    BY <2>1, <2>2
<1> QED
  BY <1>2, <1>3, <1>5, <1>6 DEF VoiceSound, VoiceMsgSound

(* The talkgroup leaves every place it had before, so it is on one         *)
(* frequency.                                                              *)
LEMMA EnterSound == ASSUME VoiceSound, Enter PROVE VoiceSound'
<1> DEFINE now == {msg.freq} \X msg.slots
<1>1. /\ msg \in VoiceMsg /\ msg.tg \in Tgids /\ msg.freq \in Freqs
      /\ msg.slots \subseteq {0, 1} /\ msg.at = "enter"
  BY AtVoiceMsg DEF VoiceSound, Enter
<1>2. voice' = [p \in Places |-> IF p \in now THEN msg.tg
                                 ELSE IF p \in msg.prev THEN NoTg ELSE voice[p]]
  BY DEF Enter
<1>3. /\ {p \in Places : voice[p] = msg.tg} \subseteq msg.prev
      /\ msg.tg \in talkgroups \cup wiped
  BY <1>1 DEF VoiceSound, VoiceMsgSound, VoiceMsgKnows
<1>4. UNCHANGED <<talkgroups, booked, call, ui, wiped>> /\ msg' = Idle /\ old' \subseteq old
  BY DEF Enter
<1>5. voice' \in [Places -> Tgids \cup {NoTg}]
  BY <1>1, <1>2 DEF VoiceSound, VoiceTables
<1>6. freqs' \in [Freqs -> {"absent", "begun", "made"}]
  BY <1>1 DEF Enter, VoiceSound, VoiceTables
<1>7. OneFrequency'
  <2> SUFFICES ASSUME NEW p \in Places, NEW q \in Places,
                      voice'[p] = voice'[q], voice'[p] # NoTg
               PROVE  p[1] = q[1]
    BY DEF OneFrequency, Places
  <2>1. \A r \in now : r[1] = msg.freq
    OBVIOUS
  <2>2. \A r \in Places : voice'[r] = msg.tg => r \in now
    BY <1>1, <1>2, <1>3, TablesAssumption DEF TablesAssumption
  <2>3. CASE voice'[p] = msg.tg
    BY <2>1, <2>2, <2>3
  <2>4. CASE voice'[p] # msg.tg
    <3>1. voice[p] = voice'[p] /\ voice[q] = voice'[q]
      BY <1>2, <2>4
    <3> QED
      BY <3>1 DEF VoiceSound, VoiceTables, OneFrequency
  <2> QED
    BY <2>3, <2>4
<1>8. NamesKnown'
  BY <1>2, <1>3, <1>4 DEF VoiceSound, VoiceTables, NamesKnown, Places
<1>9. VoiceUiSound' /\ VoiceMsgSound'
  BY <1>4 DEF VoiceSound, VoiceUiSound, VoiceUiKnows, VoiceMsgSound, VoiceMsgKnows, Places, Idle
<1> QED
  BY <1>4, <1>5, <1>6, <1>7, <1>8, <1>9 DEF VoiceSound, VoiceTables, Places

(* A job of the UI thread that reads the frequencies. *)
LEMMA AtVoiceUi ==
    ASSUME VoiceUiSound, ui.at \in {"look", "clear", "show"}
    PROVE  ui \in VoiceUi
  BY DEF VoiceUiSound, CallEnd, Idle, Dead

(* Looking at a place may leave it to be cleared.                          *)
LEMMA LookSound == ASSUME VoiceSound, Look PROVE VoiceSound'
<1>1. ui.at = "look"
  BY Zenon DEF Look
<1>2. ui \in VoiceUi
  BY <1>1, AtVoiceUi DEF VoiceSound
<1>3. UNCHANGED <<tables, old, msg, wiped>>
  BY Zenon DEF Look
<1>4. VoiceTables' /\ VoiceMsgSound'
  BY <1>3 DEF VoiceSound, VoiceTables, VoiceMsgSound, VoiceMsgKnows, tables, OneFrequency,
         NamesKnown, Places
<1>5. ui.torn => ui.crossed
  BY <1>1 DEF VoiceSound, VoiceUiSound, VoiceUiKnows
<1>6. CASE ui' = [ui EXCEPT !.at = "show"]
  <2>1. ui' \in VoiceUi /\ ui'.at = "show"
    BY <1>2, <1>6 DEF VoiceUi
  <2> QED
    BY <1>4, <2>1 DEF VoiceSound, VoiceUiSound, VoiceUiKnows
<1>7. CASE ui' = Dead
  BY <1>4, <1>7 DEF VoiceSound, VoiceUiSound, VoiceUiKnows, Dead
<1>8. CASE \E p \in ui.todo :
              ui' = [ui EXCEPT !.todo = @ \ {p}, !.at = "clear", !.place = p]
  <2>1. PICK p \in ui.todo :
              ui' = [ui EXCEPT !.todo = @ \ {p}, !.at = "clear", !.place = p]
    BY Zenon, <1>8
  <2>2. p \in Places /\ ui.todo \ {p} \subseteq Places
    BY <1>2, <2>1 DEF VoiceUi
  <2>3. /\ ui' \in VoiceUi /\ ui'.at = "clear" /\ ui'.place = p
        /\ ui'.torn = ui.torn /\ ui'.crossed = ui.crossed
    BY <1>2, <2>1, <2>2 DEF VoiceUi
  <2> QED
    BY <1>4, <1>5, <2>2, <2>3 DEF VoiceSound, VoiceUiSound, VoiceUiKnows, Places
<1>9. CASE \E p \in ui.todo : ui' = [ui EXCEPT !.todo = @ \ {p}]
  <2>1. PICK p \in ui.todo : ui' = [ui EXCEPT !.todo = @ \ {p}]
    BY Zenon, <1>9
  <2>2. ui.todo \ {p} \subseteq Places
    BY <1>2, <2>1 DEF VoiceUi
  <2>3. /\ ui' \in VoiceUi /\ ui'.at = "look"
        /\ ui'.torn = ui.torn /\ ui'.crossed = ui.crossed
    BY <1>1, <1>2, <2>1, <2>2 DEF VoiceUi
  <2> QED
    BY <1>4, <1>5, <2>3 DEF VoiceSound, VoiceUiSound, VoiceUiKnows
<1> QED
  BY Zenon, <1>6, <1>7, <1>8, <1>9 DEF Look

(* Clearing a place takes a talkgroup away and adds none.                  *)
LEMMA ClearSound == ASSUME VoiceSound, Clear PROVE VoiceSound'
<1>1. ui.at = "clear" /\ ui' = [ui EXCEPT !.at = "look", !.place = <<>>]
  BY Zenon DEF Clear
<1>2. ui \in VoiceUi /\ ui.place \in Places /\ (ui.torn => ui.crossed)
  BY <1>1, AtVoiceUi DEF VoiceSound, VoiceUiSound, VoiceUiKnows
<1>3. /\ ui' \in VoiceUi /\ ui'.at = "look"
      /\ ui'.torn = ui.torn /\ ui'.crossed = ui.crossed
  BY <1>1, <1>2 DEF VoiceUi
<1>4. /\ voice' = [voice EXCEPT ![ui.place] = NoTg] /\ old' \subseteq old
      /\ UNCHANGED <<talkgroups, booked, call, freqs, msg, wiped>>
  BY Zenon, \A S, x : S \ {x} \subseteq S DEF Clear
<1>5. VoiceTables'
  <2>1. voice' \in [Places -> Tgids \cup {NoTg}]
        /\ \A p \in Places : voice'[p] \in {voice[p], NoTg}
    BY <1>2, <1>4 DEF VoiceSound, VoiceTables
  <2>2. OneFrequency'
    BY <2>1 DEF VoiceSound, VoiceTables, OneFrequency, Places
  <2>3. NamesKnown'
    BY <1>4, <2>1 DEF VoiceSound, VoiceTables, NamesKnown, Places
  <2> QED
    BY <1>4, <2>1, <2>2, <2>3 DEF VoiceSound, VoiceTables, Places
<1>6. VoiceMsgSound'
  <2>1. \A p \in Places : voice'[p] \in {voice[p], NoTg}
    BY <1>2, <1>4 DEF VoiceSound, VoiceTables
  <2>2. msg.at \in {"stamp", "log", "insert", "enter"} => msg.tg # NoTg
    BY AtVoiceMsg, TablesAssumption DEF VoiceSound, TablesAssumption
  <2> QED
    BY <1>4, <2>1, <2>2 DEF VoiceSound, VoiceMsgSound, VoiceMsgKnows, Places
<1> QED
  BY <1>3, <1>2, <1>5, <1>6 DEF VoiceSound, VoiceUiSound, VoiceUiKnows

(* Showing the frequencies changes none.                                   *)
LEMMA ShowSound == ASSUME VoiceSound, Show PROVE VoiceSound'
<1>1. UNCHANGED <<tables, old, msg, wiped>> /\ ui' \in {Idle, Dead}
  BY DEF Show
<1>2. VoiceTables' /\ VoiceMsgSound'
  BY <1>1 DEF VoiceSound, VoiceTables, VoiceMsgSound, VoiceMsgKnows, tables, OneFrequency,
         NamesKnown, Places
<1> QED
  BY <1>1, <1>2 DEF VoiceSound, VoiceUiSound, VoiceUiKnows, Idle, Dead

(* A reload forgets talkgroups, and they are remembered as wiped.          *)
LEMMA ReloadSound == ASSUME VoiceSound, Reload PROVE VoiceSound'
<1>1. /\ talkgroups' = TagSet /\ booked' = {} /\ wiped' = wiped \cup (talkgroups \ TagSet)
      /\ UNCHANGED <<call, freqs, voice, old, ui>> /\ msg' = Crossed(msg)
      /\ talkgroups \cup wiped \subseteq talkgroups' \cup wiped'
  BY DEF Reload
<1>2. VoiceMsgSound'
  BY <1>1, CrossedVoiceMsg DEF VoiceSound
<1>3. VoiceTables'
  BY <1>1, TablesAssumption
  DEF VoiceSound, VoiceTables, OneFrequency, NamesKnown, Places, TablesAssumption
<1>4. VoiceUiSound'
  BY <1>1 DEF VoiceSound, VoiceUiSound, VoiceUiKnows, Places
<1> QED
  BY <1>2, <1>3, <1>4 DEF VoiceSound

(* A call is one of a known talkgroup.                                     *)
LEMMA BookSound ==
    ASSUME VoiceSound, NEW tg \in Tgids, Book(tg) PROVE VoiceSound'
<1>1. /\ msg.at = "idle" /\ tg \in talkgroups /\ tg # NoTg
      /\ booked' = booked \cup {tg} /\ call' = tg
      /\ UNCHANGED <<talkgroups, freqs, voice, old, msg, ui, wiped>>
  BY TablesAssumption DEF Book, TablesAssumption
<1>2. VoiceTables'
  BY <1>1 DEF VoiceSound, VoiceTables, OneFrequency, NamesKnown, Places
<1>3. VoiceMsgSound'
  BY <1>1 DEF VoiceSound, VoiceMsgSound, VoiceMsgKnows
<1>4. VoiceUiSound'
  BY <1>1 DEF VoiceSound, VoiceUiSound, VoiceUiKnows, Places
<1> QED
  BY <1>2, <1>3, <1>4 DEF VoiceSound
(* Ending a call, in either thread. *)
LEMMA EndVoiceMsgSound == ASSUME VoiceSound, EndCall, ExpireTalkgroup(msg, ui) PROVE VoiceSound'
<1>1. /\ UNCHANGED <<talkgroups, freqs, voice, old, wiped>>
      /\ booked' \subseteq booked /\ call' \in {call, NoTg}
  BY DEF EndCall, ExpireTalkgroup
<1>2. VoiceTables'
  BY <1>1 DEF VoiceSound, VoiceTables, OneFrequency, NamesKnown, Places
<1>3. VoiceUiSound'
  <2>1. ui' = Crossed(ui) \/ UNCHANGED <<ui, booked, call>>
    <3>1. ASSUME call \notin booked PROVE booked \ {call} = booked
      BY <3>1
    <3> QED
      BY <3>1 DEF ExpireTalkgroup
  <2> QED
    BY <1>1, <2>1, CrossedVoiceUi DEF VoiceSound, VoiceUiSound, VoiceUiKnows, Places
<1>4. VoiceMsgSound'
  <2>1. CASE msg' \in {Idle, Dead}
    BY <2>1 DEF VoiceMsgSound, VoiceMsgKnows, Idle, Dead
  <2>2. CASE msg' = [at |-> "end", crossed |-> FALSE] /\ call # NoTg /\ call' = call
    BY <2>2 DEF VoiceMsgSound, VoiceMsgKnows, CallEnd
  <2>3. CASE msg.at = "end" /\ msg' = [msg EXCEPT !.at = "ended"]
    <3>1. msg \in CallEnd
      BY <2>3 DEF VoiceSound, VoiceMsgSound, VoiceMsg, Idle, Dead
    <3>2. msg' \in CallEnd /\ msg'.at = "ended"
      BY <2>3, <3>1 DEF CallEnd
    <3> QED
      BY <3>2 DEF VoiceMsgSound, VoiceMsgKnows
  <2> QED
    BY Zenon, <2>1, <2>2, <2>3 DEF ExpireTalkgroup
<1> QED
  BY <1>2, <1>3, <1>4 DEF VoiceSound

(* The same in the UI thread.                                              *)
LEMMA EndVoiceUiSound == ASSUME VoiceSound, EndCall, ExpireTalkgroup(ui, msg) PROVE VoiceSound'
<1>1. /\ UNCHANGED <<talkgroups, freqs, voice, old, wiped>>
      /\ booked' \subseteq booked /\ call' \in {call, NoTg}
  BY DEF EndCall, ExpireTalkgroup
<1>2. VoiceTables'
  BY <1>1 DEF VoiceSound, VoiceTables, OneFrequency, NamesKnown, Places
<1>3. VoiceMsgSound'
  <2>1. msg' = Crossed(msg) \/ UNCHANGED <<msg, booked, call>>
    <3>1. ASSUME call \notin booked PROVE booked \ {call} = booked
      BY <3>1
    <3> QED
      BY <3>1 DEF ExpireTalkgroup
  <2> QED
    BY <1>1, <2>1, CrossedVoiceMsg DEF VoiceSound, VoiceMsgSound, VoiceMsgKnows, Places
<1>4. VoiceUiSound'
  <2>1. CASE ui' \in {Idle, Dead}
    BY <2>1 DEF VoiceUiSound, VoiceUiKnows, Idle, Dead
  <2>2. CASE ui' = [at |-> "end", crossed |-> FALSE] /\ call # NoTg /\ call' = call
    BY <2>2 DEF VoiceUiSound, VoiceUiKnows, CallEnd
  <2>3. CASE ui.at = "end" /\ ui' = [ui EXCEPT !.at = "ended"]
    <3>1. ui \in CallEnd
      BY <2>3 DEF VoiceSound, VoiceUiSound, VoiceUi, Idle, Dead
    <3>2. ui' \in CallEnd /\ ui'.at = "ended"
      BY <2>3, <3>1 DEF CallEnd
    <3> QED
      BY <3>2 DEF VoiceUiSound, VoiceUiKnows
  <2> QED
    BY Zenon, <2>1, <2>2, <2>3 DEF ExpireTalkgroup
<1> QED
  BY <1>2, <1>3, <1>4 DEF VoiceSound

(* Every step about voice frequencies and calls keeps the invariant.       *)
LEMMA VoiceStepsSound == ASSUME IInv, about = "voice", VoiceSteps PROVE IInv'
<1>1. VoiceSound
  BY VoiceSoundIs
<1>2. UNCHANGED OtherThanVoice
  BY Zenon DEF VoiceSteps, OtherThanVoice, tables, Stamp, Log, Insert, Enter, Look, Clear, Show,
               Reload, EndCall, Book
<1>3. VoiceSound'
  BY Zenon, <1>1, GrantSound, SnapshotSound, StampSound, LogSound, InsertSound, EnterSound, LookSound,
     ClearSound, ShowSound, ReloadSound, BookSound, EndVoiceMsgSound, EndVoiceUiSound
  DEF VoiceSteps, EndCall
<1> QED
  BY <1>2, <1>3, VoiceSoundGives
-----------------------------------------------------------------------------
(* Patches. *)

OtherThanPatches ==
    <<about, suids, wuids, talkgroups, booked, call, freqs, voice, displaced, wiped>>

(* A step about patches disturbs nothing that is said of the other tables. *)
LEMMA PatchFrame ==
    ASSUME TypeOK, UnitInv, VoiceInv, about = "patches", UNCHANGED OtherThanPatches
    PROVE  UnitInv' /\ VoiceInv'
  BY DEF OtherThanPatches, UnitInv, VoiceInv, AddressesResolve, UnitsReachable,
         SharedDisplaced, Registered, OneFrequency, NamesKnown, Places

PatchMsgSound ==
    /\ msg \in {Idle, Dead} \cup PatchMsg
    /\ msg.at = "unpatch" => msg.crossed \/ Patched(msg.sg)

PatchUiSound ==
    /\ ui \in {Idle, Dead} \cup PatchUi
    /\ ui.at = "list" => ui.crossed \/ \A sg \in ui.todo : Patched(sg)

PatchTables ==
    /\ patches \in [Tgids -> {NoPatch} \cup SUBSET Tgids]
    /\ old \subseteq Units \cup Places \cup Tgids
    /\ PatchesSound

(* What a step about patches has to keep. *)
PatchSound == PatchTables /\ PatchMsgSound /\ PatchUiSound

(* The invariant gives what a step about patches starts from.              *)
LEMMA PatchSoundIs ==
    ASSUME IInv, about = "patches" PROVE PatchSound
  BY PatchFields
  DEF IInv, TypeOK, PatchInv, PatchSound, PatchTables, PatchMsgSound, PatchUiSound

(* A step about patches restores the invariant.                            *)
LEMMA PatchSoundGives ==
    ASSUME IInv, about = "patches", UNCHANGED OtherThanPatches, PatchSound'
    PROVE  IInv'
<1>1. TypeOK'
  BY DEF IInv, TypeOK, PatchSound, PatchTables, PatchMsgSound, PatchUiSound,
         OtherThanPatches, Places
<1>2. PatchInv'
  BY DEF PatchInv, PatchSound, PatchTables, PatchMsgSound, PatchUiSound
<1> QED
  BY <1>1, <1>2, PatchFrame DEF IInv

(* A crossed job knows no more than that it was crossed. *)
LEMMA CrossedPatchUi ==
    ASSUME PatchUiSound, ui' = Crossed(ui) PROVE PatchUiSound'
<1>1. CASE ui \in {Idle, Dead}
  BY <1>1 DEF PatchUiSound, Crossed, Busy, Idle, Dead
<1>2. CASE ui \in PatchUi
  <2>1. ui' = [ui EXCEPT !.crossed = TRUE]
    BY <1>2 DEF Crossed, Busy, PatchUi
  <2>2. ui' \in PatchUi /\ ui'.crossed
    BY <1>2, <2>1 DEF PatchUi
  <2> QED
    BY <2>2 DEF PatchUiSound
<1> QED
  BY <1>1, <1>2 DEF PatchUiSound

(* So with the message thread.                                             *)
LEMMA CrossedPatchMsg ==
    ASSUME PatchMsgSound, msg' = Crossed(msg) PROVE PatchMsgSound'
<1>1. CASE msg \in {Idle, Dead}
  BY <1>1 DEF PatchMsgSound, Crossed, Busy, Idle, Dead
<1>2. CASE msg \in PatchMsg
  <2>1. msg' = [msg EXCEPT !.crossed = TRUE]
    BY <1>2 DEF Crossed, Busy, PatchMsg
  <2>2. msg' \in PatchMsg /\ msg'.crossed
    BY <1>2, <2>1 DEF PatchMsg
  <2> QED
    BY <2>2 DEF PatchMsgSound
<1> QED
  BY <1>1, <1>2 DEF PatchMsgSound

(* Giving a supergroup a set of groups without itself keeps the patches    *)
(* sound, and takes none away unless the set is empty.                     *)
LEMMA SetPatchSound ==
    ASSUME PatchTables, NEW sg \in Tgids, NEW gas \in SUBSET (Tgids \ {sg}),
           SetPatch(sg, gas), old' \subseteq old
    PROVE  /\ PatchTables'
           /\ \A tg \in Tgids : gas # {} /\ Patched(tg) => Patched(tg)'
<1>1. patches' = [patches EXCEPT ![sg] = IF gas = {} THEN NoPatch ELSE gas]
  BY DEF SetPatch
<1>2. gas # {} => gas # NoPatch
  BY TablesAssumption DEF TablesAssumption
<1>3. patches' \in [Tgids -> {NoPatch} \cup SUBSET Tgids]
  BY <1>1 DEF PatchTables
<1>4. PatchesSound'
  BY <1>1 DEF PatchTables, PatchesSound, Patched
<1>5. \A tg \in Tgids : gas # {} /\ Patched(tg) => Patched(tg)'
  BY <1>1, <1>2 DEF PatchTables, Patched
<1> QED
  BY <1>3, <1>4, <1>5 DEF PatchTables, Places

(* add_patch() takes no patch away.                                        *)
LEMMA AddPatchSound ==
    ASSUME PatchSound, NEW sg \in Tgids, NEW gas \in SUBSET Tgids, AddPatch(sg, gas)
    PROVE  PatchSound'
<1> DEFINE all == (gas \ {sg}) \cup IF Patched(sg) THEN patches[sg] ELSE {}
<1>1. all \in SUBSET (Tgids \ {sg}) /\ (Patched(sg) => all # {})
  BY DEF PatchSound, PatchTables, PatchesSound, Patched
<1>2. SetPatch(sg, all) /\ old' \subseteq old /\ UNCHANGED ui
  BY DEF AddPatch, MsgBegins
<1>3. PatchTables' /\ \A tg \in Tgids : all # {} /\ Patched(tg) => Patched(tg)'
  BY <1>1, <1>2, SetPatchSound DEF PatchSound
<1>4. \A tg \in Tgids : Patched(tg) => Patched(tg)'
  <2>1. CASE all # {}
    BY <1>3, <2>1
  <2>2. CASE all = {}
    BY <1>1, <1>2, <2>2 DEF SetPatch, Patched, PatchSound, PatchTables
  <2> QED
    BY <2>1, <2>2
<1>5. PatchMsgSound'
  BY DEF AddPatch, MsgBegins, PatchMsgSound, PatchMsg
<1>6. PatchUiSound'
  BY <1>2, <1>4 DEF PatchSound, PatchUiSound, PatchUi, Idle, Dead
<1> QED
  BY <1>3, <1>5, <1>6 DEF PatchSound

(* del_patch() tests for the supergroup.                                   *)
LEMMA DelPatchSound ==
    ASSUME PatchSound, NEW sg \in Tgids, NEW gas \in SUBSET Tgids, DelPatch(sg, gas)
    PROVE  PatchSound'
<1>1. PatchTables' /\ PatchUiSound'
  BY DEF DelPatch, MsgBegins, PatchSound, PatchTables, PatchUiSound, PatchesSound, Patched, Places
<1>2. PatchMsgSound'
  BY DEF DelPatch, MsgBegins, PatchMsgSound, PatchMsg, Patched
<1> QED
  BY <1>1, <1>2 DEF PatchSound

(* del_patch() under its lock crosses the UI thread.                       *)
LEMMA UnpatchSound == ASSUME PatchSound, Unpatch PROVE PatchSound'
<1>1. msg.at = "unpatch" /\ UNCHANGED old
  BY DEF Unpatch
<1>2. msg \in PatchMsg /\ msg.sg \in Tgids /\ msg.gas \subseteq Tgids
  BY <1>1 DEF PatchSound, PatchMsgSound, PatchMsg, Idle, Dead
<1>3. CASE msg' = Dead /\ UNCHANGED <<patches, ui>>
  BY <1>1, <1>3
  DEF PatchSound, PatchTables, PatchUiSound, PatchMsgSound, PatchesSound, Patched, Places, Dead
<1>4. CASE /\ Patched(msg.sg) /\ msg' = [msg EXCEPT !.at = "expire"]
           /\ SetPatch(msg.sg, IF msg.sg \in msg.gas THEN {} ELSE patches[msg.sg] \ msg.gas)
           /\ ui' = Crossed(ui)
  <2> DEFINE left == IF msg.sg \in msg.gas THEN {} ELSE patches[msg.sg] \ msg.gas
  <2>1. left \in SUBSET (Tgids \ {msg.sg})
    BY <1>2, <1>4 DEF PatchSound, PatchTables, PatchesSound, Patched
  <2>2. PatchTables'
    BY <1>1, <1>2, <1>4, <2>1, SetPatchSound DEF PatchSound
  <2>3. PatchUiSound'
    BY <1>4, CrossedPatchUi DEF PatchSound
  <2>4. msg' \in PatchMsg /\ msg'.at = "expire"
    BY <1>2, <1>4 DEF PatchMsg
  <2> QED
    BY <2>2, <2>3, <2>4 DEF PatchSound, PatchMsgSound
<1> QED
  BY Zenon, <1>3, <1>4 DEF Unpatch

(* Expiry removes what has expired and nothing else. *)
LEMMA ExpirySound ==
    ASSUME PatchTables, ExpirePatches
    PROVE  /\ PatchTables'
           /\ \A sg \in Tgids : Patched(sg)' <=> Patched(sg) /\ sg \notin Expired
<1>1. patches' = [sg \in Tgids |-> IF sg \in Expired THEN NoPatch ELSE patches[sg]]
      /\ old' \subseteq old
  BY DEF ExpirePatches
<1>2. patches' \in [Tgids -> {NoPatch} \cup SUBSET Tgids]
  BY <1>1 DEF PatchTables
<1>3. \A sg \in Tgids : Patched(sg)' <=> Patched(sg) /\ sg \notin Expired
  BY <1>1 DEF Patched
<1>4. PatchesSound'
  BY <1>1 DEF PatchTables, PatchesSound, Patched
<1> QED
  BY <1>1, <1>2, <1>3, <1>4 DEF PatchTables, Places

(* expire_patches() in the message thread crosses the UI thread if it      *)
(* removes any.                                                            *)
LEMMA MsgExpiresSound == ASSUME PatchSound, MsgExpires PROVE PatchSound'
<1>1. PatchTables' /\ \A sg \in Tgids : Patched(sg)' <=> Patched(sg) /\ sg \notin Expired
  BY ExpirySound DEF MsgExpires, PatchSound
<1>2. PatchMsgSound'
  BY DEF MsgExpires, PatchMsgSound, Idle
<1>3. PatchUiSound'
  <2>1. CASE Expired = {}
    <3>1. ui' = ui
      BY <2>1 DEF MsgExpires
    <3> QED
      BY <1>1, <2>1, <3>1 DEF PatchSound, PatchUiSound, PatchUi, Idle, Dead
  <2>2. CASE Expired # {}
    BY <2>2, CrossedPatchUi DEF MsgExpires, PatchSound
  <2> QED
    BY <2>1, <2>2
<1> QED
  BY <1>1, <1>2, <1>3 DEF PatchSound

(* The UI thread lists what is left after expiry.                          *)
LEMMA UiExpiresSound == ASSUME PatchSound, UiExpires PROVE PatchSound'
<1>1. PatchTables' /\ \A sg \in Tgids : Patched(sg)' <=> Patched(sg) /\ sg \notin Expired
  BY ExpirySound DEF UiExpires, PatchSound
<1>2. ui' = [at |-> "list", todo |-> {sg \in Tgids : Patched(sg)} \ Expired, crossed |-> FALSE]
  BY DEF UiExpires
<1>3. PatchUiSound'
  BY <1>1, <1>2 DEF PatchUiSound, PatchUi
<1>4. PatchMsgSound'
  <2>1. CASE Expired = {}
    <3>1. msg' = msg
      BY <2>1 DEF UiExpires
    <3> QED
      BY <1>1, <2>1, <3>1 DEF PatchSound, PatchMsgSound, PatchMsg, Idle, Dead
  <2>2. CASE Expired # {}
    BY <2>2, CrossedPatchMsg DEF UiExpires, PatchSound
  <2> QED
    BY <2>1, <2>2
<1> QED
  BY <1>1, <1>3, <1>4 DEF PatchSound

(* Listing a patch changes none.                                           *)
LEMMA ListSound == ASSUME PatchSound, List PROVE PatchSound'
<1>1. ui.at = "list" /\ UNCHANGED <<patches, old, msg>>
  BY Zenon DEF List
<1>2. ui \in PatchUi
  BY <1>1 DEF PatchSound, PatchUiSound, Idle, Dead
<1>3. PatchTables' /\ PatchMsgSound'
  BY <1>1 DEF PatchSound, PatchTables, PatchMsgSound, PatchesSound, Patched, Places
<1>4. CASE ui' \in {Idle, Dead}
  BY <1>3, <1>4 DEF PatchSound, PatchUiSound, Idle, Dead
<1>5. CASE \E sg \in ui.todo : ui' = [ui EXCEPT !.todo = @ \ {sg}]
  <2>1. PICK sg \in ui.todo : ui' = [ui EXCEPT !.todo = @ \ {sg}]
    BY Zenon, <1>5
  <2>2. ui' \in PatchUi /\ ui'.todo \subseteq ui.todo /\ ui'.crossed = ui.crossed
    BY <1>2, <2>1 DEF PatchUi
  <2> QED
    BY <1>1, <1>3, <2>2 DEF PatchSound, PatchUiSound, Patched
<1> QED
  BY Zenon, <1>4, <1>5 DEF List

(* Every step about patches keeps the invariant.                           *)
LEMMA PatchStepsSound == ASSUME IInv, about = "patches", PatchSteps PROVE IInv'
<1>1. PatchSound
  BY PatchSoundIs
<1>2. UNCHANGED OtherThanPatches
  BY Zenon DEF PatchSteps, OtherThanPatches
<1>3. PatchSound'
  BY Zenon, <1>1, AddPatchSound, DelPatchSound, UnpatchSound, MsgExpiresSound, UiExpiresSound,
     ListSound, \A S : \A gas \in (SUBSET S) \ {{}} : gas \in SUBSET S
  DEF PatchSteps
<1> QED
  BY <1>2, <1>3, PatchSoundGives

-----------------------------------------------------------------------------
(* Time passing makes an entry old and nothing else.                       *)
LEMMA ElapseSound == ASSUME IInv, Elapse PROVE IInv'
<1>1. PICK x \in Entries : old' = old \cup {x}
  BY DEF Elapse
<1>2. UNCHANGED <<about, suids, wuids, talkgroups, booked, call, freqs, voice, patches, msg, ui,
                  displaced, wiped>>
  BY DEF Elapse, tables
<1>3. x \in Units \cup Places \cup Tgids
  BY DEF Entries
<1>4. TypeOK'
  BY <1>1, <1>2, <1>3 DEF IInv, TypeOK, Places
<1>5. UnitInv'
  BY <1>2 DEF IInv, UnitInv, AddressesResolve, UnitsReachable, SharedDisplaced, Registered,
              UnitMsgKnows, UnitUiKnows
<1>6. VoiceInv'
  BY <1>2 DEF IInv, VoiceInv, OneFrequency, NamesKnown, VoiceMsgKnows, VoiceUiKnows, Places
<1>7. PatchInv'
  BY <1>2 DEF IInv, PatchInv, PatchesSound, Patched
<1> QED
  BY <1>4, <1>5, <1>6, <1>7 DEF IInv

(* A stuttering step keeps the invariant.                                  *)
LEMMA StaysSound == ASSUME IInv, UNCHANGED vars PROVE IInv'
<1>1. UNCHANGED <<about, suids, wuids, talkgroups, booked, call, freqs, voice, patches, old, msg,
                  ui, displaced, wiped>>
  BY DEF vars, tables
<1>2. TypeOK'
  BY <1>1 DEF IInv, TypeOK, Places
<1>3. UnitInv'
  BY <1>1 DEF IInv, UnitInv, AddressesResolve, UnitsReachable, SharedDisplaced, Registered,
              UnitMsgKnows, UnitUiKnows
<1>4. VoiceInv'
  BY <1>1 DEF IInv, VoiceInv, OneFrequency, NamesKnown, VoiceMsgKnows, VoiceUiKnows, Places
<1>5. PatchInv'
  BY <1>1 DEF IInv, PatchInv, PatchesSound, Patched
<1> QED
  BY <1>2, <1>3, <1>4, <1>5 DEF IInv

(* The tables agree, and what each thread knows in the middle of a job     *)
(* still holds unless the other thread has crossed it.                     *)
THEOREM Invariance == Spec => []IInv
<1>1. Init => IInv
  BY StartsSound
<1>2. IInv /\ [Next]_vars => IInv'
  BY Zenon, UnitStepsSound, VoiceStepsSound, PatchStepsSound, ElapseSound, StaysSound DEF Next
<1> QED
  BY <1>1, <1>2, PTL DEF Spec

(* The tables and both threads' local variables are what the code keeps. *)
THEOREM TypeCorrect == Spec => []TypeOK
<1>1. IInv => TypeOK
  BY DEF IInv
<1> QED
  BY <1>1, Invariance, PTL

(* Addresses and units, frequencies and talkgroups, supergroups and their  *)
(* members agree, whatever the two threads do in between.                  *)
THEOREM TablesConsistent == Spec => []TablesAgree
<1>1. IInv => TablesAgree
  BY DEF IInv, TablesAgree, UnitInv, VoiceInv, PatchInv
<1> QED
  BY <1>1, Invariance, PTL

-----------------------------------------------------------------------------
MsgDies == msg'.at = "dead" /\ msg.at # "dead"
UiDies  == ui'.at = "dead" /\ ui.at # "dead"

(* Crossing a job does not end it. *)
LEMMA CrossedMsgLives == ASSUME IInv, msg' = Crossed(msg) PROVE ~ MsgDies
<1>1. CASE ~ Busy(msg)
  BY <1>1 DEF MsgDies, Crossed
<1>2. CASE Busy(msg)
  <2>1. msg' = [msg EXCEPT !.crossed = TRUE]
    BY <1>2 DEF Crossed
  <2>2. msg \in UnitMsg \/ msg \in VoiceMsg \/ msg \in CallEnd \/ msg \in PatchMsg
    BY <1>2 DEF IInv, TypeOK, Busy, Idle, Dead
  <2>3. msg'.at = msg.at
    BY <2>1, <2>2 DEF UnitMsg, VoiceMsg, CallEnd, PatchMsg
  <2> QED
    BY <2>3 DEF MsgDies
<1> QED
  BY <1>1, <1>2

(* So with the UI thread.                                                  *)
LEMMA CrossedUiLives == ASSUME IInv, ui' = Crossed(ui) PROVE ~ UiDies
<1>1. CASE ~ Busy(ui)
  BY <1>1 DEF UiDies, Crossed
<1>2. CASE Busy(ui)
  <2>1. ui' = [ui EXCEPT !.crossed = TRUE]
    BY <1>2 DEF Crossed
  <2>2. ui \in UnitUi \/ ui \in VoiceUi \/ ui \in CallEnd \/ ui \in PatchUi
    BY <1>2 DEF IInv, TypeOK, Busy, Idle, Dead
  <2>3. ui'.at = ui.at
    BY <2>1, <2>2 DEF UnitUi, VoiceUi, CallEnd, PatchUi
  <2> QED
    BY <2>3 DEF UiDies
<1> QED
  BY <1>1, <1>2

MsgExcused ==
    \/ msg.crossed
    \/ about = "units" /\ msg.unit \in displaced
    \/ call \in wiped

UiExcused == ui.crossed \/ HalfMade \/ WipedInUse

Excused == (MsgDies => MsgExcused) /\ (UiDies => UiExcused)

(* The unit of a job is known by the address of the job as long as no other *)
(* unit was given that address.                                            *)
LEMMA UnitLookups == ASSUME IInv, about = "units", UnitSteps PROVE Excused
<1>1. UnitsSound
  BY UnitsSoundIs
<1>2. CASE \/ \E u \in Units, w \in Addrs : Register(u, w)
           \/ \E u \in Units : Deregister(u)
           \/ \E w \in Addrs, rounds \in {1, 2} : Mention(w, rounds)
           \/ ExpireRegistrations
  BY <1>2 DEF Register, Registering, Deregister, Mention, ExpireRegistrations, MsgBegins, UiBegins,
              Excused, MsgDies, UiDies
<1>3. CASE Known
  <2>1. msg \in UnitMsg
    BY <1>1, <1>3 DEF Known, UnitsSound, Idle, Dead
  <2>2. msg'.at # "dead" /\ UNCHANGED ui
    BY <1>3, <2>1 DEF Known, Proceeds, UnitMsg, Idle
  <2> QED
    BY <2>2 DEF Excused, MsgDies, UiDies
<1>4. CASE Drop
  <2>1. msg \in UnitMsg /\ (msg.crossed \/ Registered(msg.unit))
    BY <1>1, <1>4 DEF Drop, UnitsSound, UnitMsgKnows, Idle, Dead
  <2>2. Registered(msg.unit) => msg'.at # "dead"
    BY <1>4, <2>1 DEF Drop, Proceeds, UnitMsg, Idle
  <2>3. ~ UiDies
    BY <1>4, CrossedUiLives DEF Drop, UiDies
  <2> QED
    BY <2>1, <2>2, <2>3 DEF Excused, MsgDies, MsgExcused
<1>5. CASE Add
  <2>1. msg \in UnitMsg /\ msg.unit \in Units /\ suids[msg.unit] \in {NoAddr, msg.addr}
    BY <1>1, <1>5 DEF Add, UnitsSound, UnitMsgKnows, Idle, Dead
  <2>2. LooksUp.at # "dead" /\ UNCHANGED ui
    BY <1>5, <2>1 DEF Add, LooksUp, Proceeds, UnitMsg, Idle
  <2>3. Registered(msg.unit) /\ msg.unit \notin displaced => wuids[msg.addr] # NoUnit
    BY <1>1, <2>1, TablesAssumption DEF UnitsSound, UnitsReachable, Registered, TablesAssumption
  <2> QED
    BY <1>5, <2>2, <2>3 DEF Add, Excused, MsgDies, UiDies, MsgExcused
<1>6. CASE Find
  <2>1. msg \in UnitMsg /\ (msg.crossed \/ wuids[msg.addr] # NoUnit)
    BY <1>1, <1>6 DEF Find, UnitsSound, UnitMsgKnows, Idle, Dead
  <2>2. wuids[msg.addr] # NoUnit => msg'.at = "touch"
    BY <1>6, <2>1 DEF Find, UnitMsg
  <2> QED
    BY <1>6, <2>1, <2>2 DEF Find, Excused, MsgDies, UiDies, MsgExcused
<1>7. CASE Touch
  <2>1. /\ msg \in UnitMsg /\ msg.addr \in Addrs
        /\ \/ msg.crossed
           \/ wuids[msg.addr] # NoUnit /\ msg.unit = wuids[msg.addr]
    BY <1>1, <1>7 DEF Touch, UnitsSound, UnitMsgKnows, Idle, Dead
  <2>2. msg.crossed \/ (Registered(msg.unit) /\ wuids[msg.addr] # NoUnit)
    BY <1>1, <2>1, TablesAssumption DEF UnitsSound, AddressesResolve, Registered, TablesAssumption
  <2>3. Registered(msg.unit) /\ wuids[msg.addr] # NoUnit => msg'.at # "dead"
    BY <1>7, <2>1 DEF Touch, UnitMsg, Idle
  <2> QED
    BY <1>7, <2>2, <2>3 DEF Touch, Excused, MsgDies, UiDies, MsgExcused
<1>8. CASE Ages
  <2>1. ui.at = "ages" /\ UNCHANGED msg
    BY Zenon, <1>8 DEF Ages
  <2>2. ui \in UnitUi /\ (ui.crossed \/ \A u \in ui.todo : Registered(u))
    BY <1>1, <2>1 DEF UnitsSound, UnitUiKnows, Idle, Dead
  <2>3. CASE ui' = [ui EXCEPT !.at = "purge"]
    BY <2>1, <2>2, <2>3 DEF UnitUi, Excused, MsgDies, UiDies
  <2>4. CASE \E u \in ui.todo : IF Registered(u)
               THEN ui' = [ui EXCEPT !.todo = @ \ {u}, !.list = @ \cup ({u} \cap old)]
               ELSE ui' = Dead
    <3>1. PICK u \in ui.todo : IF Registered(u)
               THEN ui' = [ui EXCEPT !.todo = @ \ {u}, !.list = @ \cup ({u} \cap old)]
               ELSE ui' = Dead
      BY Zenon, <2>4
    <3>2. CASE Registered(u)
      <4>1. ui'.at = ui.at
        BY <2>2, <3>1, <3>2 DEF UnitUi
      <4> QED
        BY <2>1, <4>1 DEF Excused, MsgDies, UiDies
    <3>3. CASE ~ Registered(u)
      BY <2>1, <2>2, <3>3 DEF Excused, MsgDies, UiDies, UiExcused
    <3> QED
      BY <3>2, <3>3
  <2> QED
    BY Zenon, <1>8, <2>3, <2>4 DEF Ages
<1>9. CASE Purge
  <2>1. ui.crossed \/ \A u \in ui.list : Registered(u)
    BY <1>1, <1>9 DEF Purge, UnitsSound, UnitUiKnows
  <2>2. UiDies => UiExcused
    BY <1>9, <2>1 DEF Purge, UiDies, UiExcused, Idle
  <2>3. ~ MsgDies
    BY <1>9, CrossedMsgLives DEF Purge, MsgDies
  <2> QED
    BY <2>2, <2>3 DEF Excused
<1> QED
  BY Zenon, <1>2, <1>3, <1>4, <1>5, <1>6, <1>7, <1>8, <1>9 DEF UnitSteps

(* The talkgroup of a call is known, or a reload removed it, unless the    *)
(* other thread has ended the call in between.                             *)
LEMMA CallLookups ==
    ASSUME IInv, about = "voice", EndCall PROVE Excused
<1>1. VoiceSound
  BY VoiceSoundIs
<1>2. call \in talkgroups \cup wiped \cup {NoTg}
  BY <1>1 DEF VoiceSound, VoiceTables, NamesKnown
<1>3. CASE ExpireTalkgroup(msg, ui)
  <2>1. ~ UiDies
    BY <1>3, CrossedUiLives DEF ExpireTalkgroup, UiDies
  <2>2. CASE msg' \in {Idle, [at |-> "end", crossed |-> FALSE]}
    BY <2>1, <2>2 DEF Excused, MsgDies, Idle
  <2>3. CASE msg.at = "end" /\ msg' = [msg EXCEPT !.at = "ended"]
    <3>1. msg \in CallEnd
      BY <1>1, <2>3 DEF VoiceSound, VoiceMsgSound, VoiceMsg, Idle, Dead
    <3>2. msg'.at = "ended"
      BY <2>3, <3>1 DEF CallEnd
    <3> QED
      BY <2>1, <3>2 DEF Excused, MsgDies
  <2>4. CASE msg.at = "end" /\ call \notin talkgroups
    BY <1>1, <1>2, <2>1, <2>4
    DEF VoiceSound, VoiceMsgSound, VoiceMsgKnows, Excused, MsgExcused
  <2>5. CASE msg.at = "ended" /\ call \notin talkgroups \cup {NoTg}
    BY <1>2, <2>1, <2>5 DEF Excused, MsgExcused
  <2> QED
    BY Zenon, <1>3, <2>2, <2>3, <2>4, <2>5 DEF ExpireTalkgroup
<1>4. CASE ExpireTalkgroup(ui, msg)
  <2>1. ~ MsgDies
    BY <1>4, CrossedMsgLives DEF ExpireTalkgroup, MsgDies
  <2>2. CASE ui' \in {Idle, [at |-> "end", crossed |-> FALSE]}
    BY <2>1, <2>2 DEF Excused, UiDies, Idle
  <2>3. CASE ui.at = "end" /\ ui' = [ui EXCEPT !.at = "ended"]
    <3>1. ui \in CallEnd
      BY <1>1, <2>3 DEF VoiceSound, VoiceUiSound, VoiceUi, Idle, Dead
    <3>2. ui'.at = "ended"
      BY <2>3, <3>1 DEF CallEnd
    <3> QED
      BY <2>1, <3>2 DEF Excused, UiDies
  <2>4. CASE ui.at = "end" /\ call \notin talkgroups
    BY <1>1, <1>2, <2>1, <2>4
    DEF VoiceSound, VoiceUiSound, VoiceUiKnows, Excused, UiExcused, WipedInUse
  <2>5. CASE ui.at = "ended" /\ call \notin talkgroups \cup {NoTg}
    BY <1>2, <2>1, <2>5 DEF Excused, UiExcused, WipedInUse
  <2> QED
    BY Zenon, <1>4, <2>2, <2>3, <2>4, <2>5 DEF ExpireTalkgroup
<1> QED
  BY <1>3, <1>4 DEF EndCall

(* A voice channel names a talkgroup that is known, or that a reload       *)
(* removed; an entry is half made while the message thread inserts it.     *)
LEMMA VoiceLookups == ASSUME IInv, about = "voice", VoiceSteps PROVE Excused
<1>1. VoiceSound
  BY VoiceSoundIs
<1>2. CASE \/ \E f \in Freqs, tg \in Tgids, slots \in {{0}, {1}, {0, 1}} : Grant(f, tg, slots)
           \/ Snapshot
  BY <1>2 DEF Grant, Snapshot, MsgBegins, UiBegins, Excused, MsgDies, UiDies
<1>3. CASE Stamp
  <2>1. msg \in VoiceMsg /\ UNCHANGED ui
    BY <1>1, <1>3, AtVoiceMsg DEF Stamp, VoiceSound
  <2>2. \E at \in {"log", "insert", "enter"} : msg' = [msg EXCEPT !.at = at]
    BY <1>3 DEF Stamp, Entering
  <2>3. msg'.at # "dead"
    BY <2>1, <2>2 DEF VoiceMsg
  <2> QED
    BY <2>1, <2>3 DEF Excused, MsgDies, UiDies
<1>4. CASE Log
  <2>1. msg \in VoiceMsg /\ UNCHANGED ui /\ (msg.crossed \/ msg.tg \in booked)
    BY <1>1, <1>4, AtVoiceMsg DEF Log, VoiceSound, VoiceMsgSound, VoiceMsgKnows
  <2>2. Entering.at # "dead"
    BY <2>1 DEF Entering, VoiceMsg
  <2> QED
    BY <1>4, <2>1, <2>2 DEF Log, Excused, MsgDies, UiDies, MsgExcused
<1>5. CASE Insert
  <2>1. msg \in VoiceMsg
    BY <1>1, <1>5, AtVoiceMsg DEF Insert, VoiceSound
  <2>2. msg'.at # "dead"
    BY <1>5, <2>1 DEF Insert, VoiceMsg
  <2>3. CASE ui.at \in {"look", "clear"}
    <3>1. ui \in VoiceUi
      BY <1>1, <2>3, AtVoiceUi DEF VoiceSound
    <3>2. ui' = [ui EXCEPT !.crossed = TRUE, !.torn = TRUE]
      BY <1>5, <2>3 DEF Insert
    <3>3. ui'.at = ui.at
      BY <3>1, <3>2 DEF VoiceUi
    <3> QED
      BY <2>2, <3>3 DEF Excused, MsgDies, UiDies
  <2>4. CASE ui.at \notin {"look", "clear"}
    BY <1>5, <2>2, <2>4, CrossedUiLives DEF Insert, Excused, MsgDies
  <2> QED
    BY <2>3, <2>4
<1>6. CASE Enter
  BY <1>6 DEF Enter, Idle, Excused, MsgDies, UiDies
<1>7. CASE Look
  <2>1. ui.at = "look" /\ UNCHANGED msg
    BY Zenon, <1>7 DEF Look
  <2>2. ui \in VoiceUi /\ (ui.torn => ui.crossed)
    BY <1>1, <2>1, AtVoiceUi DEF VoiceSound, VoiceUiSound, VoiceUiKnows
  <2>3. CASE ui' = [ui EXCEPT !.at = "show"]
    BY <2>1, <2>2, <2>3 DEF VoiceUi, Excused, MsgDies, UiDies
  <2>4. CASE \E p \in ui.todo : \/ ui' = [ui EXCEPT !.todo = @ \ {p}, !.at = "clear", !.place = p]
                                \/ ui' = [ui EXCEPT !.todo = @ \ {p}]
    <3>1. PICK p \in ui.todo : \/ ui' = [ui EXCEPT !.todo = @ \ {p}, !.at = "clear", !.place = p]
                               \/ ui' = [ui EXCEPT !.todo = @ \ {p}]
      BY Zenon, <2>4
    <3>2. ui'.at \in {"look", "clear"}
      BY <2>1, <2>2, <3>1 DEF VoiceUi
    <3> QED
      BY <2>1, <3>2 DEF Excused, MsgDies, UiDies
  <2>5. CASE \E p \in ui.todo : \/ ui.torn
                                \/ freqs[p[1]] = "begun"
                                \/ voice[p] \notin talkgroups \cup {NoTg}
    <3>1. PICK p \in ui.todo : \/ ui.torn
                               \/ freqs[p[1]] = "begun"
                               \/ voice[p] \notin talkgroups \cup {NoTg}
      BY Zenon, <2>5
    <3>2. p \in Places
      BY <2>2, <3>1 DEF VoiceUi
    <3>3. p[1] \in Freqs
      BY <3>2 DEF Places
    <3>4. voice[p] \in talkgroups \cup wiped \cup {NoTg}
      BY <1>1, <3>2 DEF VoiceSound, VoiceTables, NamesKnown
    <3>5. voice[p] \notin talkgroups \cup {NoTg} => WipedInUse
      BY <3>2, <3>4 DEF WipedInUse
    <3> QED
      BY <2>1, <2>2, <3>1, <3>3, <3>5 DEF Excused, MsgDies, UiExcused, HalfMade
  <2> QED
    BY Zenon, <1>7, <2>3, <2>4, <2>5 DEF Look
<1>8. CASE Clear
  <2>1. ui.at = "clear" /\ ui' = [ui EXCEPT !.at = "look", !.place = <<>>] /\ UNCHANGED msg
    BY Zenon, <1>8 DEF Clear
  <2>2. ui \in VoiceUi
    BY <1>1, <2>1, AtVoiceUi DEF VoiceSound
  <2>3. ui'.at = "look"
    BY <2>1, <2>2 DEF VoiceUi
  <2> QED
    BY <2>1, <2>3 DEF Excused, MsgDies, UiDies
<1>9. CASE Show
  <2>1. \A p \in Places : voice[p] \in talkgroups \cup wiped \cup {NoTg}
    BY <1>1 DEF VoiceSound, VoiceTables, NamesKnown
  <2>2. (\E p \in Places : voice[p] \notin talkgroups \cup {NoTg}) => WipedInUse
    BY <2>1 DEF WipedInUse
  <2> QED
    BY <1>9, <2>2 DEF Show, Excused, MsgDies, UiDies, UiExcused, Idle
<1>10. CASE Reload
  BY <1>10, CrossedMsgLives DEF Reload, Excused, UiDies
<1>11. CASE EndCall
  BY <1>11, CallLookups
<1>12. CASE \E tg \in Tgids : Book(tg)
  BY <1>12 DEF Book, Excused, MsgDies, UiDies
<1> QED
  BY Zenon, <1>2, <1>3, <1>4, <1>5, <1>6, <1>7, <1>8, <1>9, <1>10, <1>11, <1>12 DEF VoiceSteps

(* A supergroup is looked up after it was seen, and only the other thread  *)
(* removes it in between.                                                  *)
LEMMA PatchLookups == ASSUME IInv, about = "patches", PatchSteps PROVE Excused
<1>1. PatchSound
  BY PatchSoundIs
<1>2. CASE \E sg \in Tgids, gas \in (SUBSET Tgids) \ {{}} : AddPatch(sg, gas) \/ DelPatch(sg, gas)
  BY <1>2 DEF AddPatch, DelPatch, MsgBegins, Excused, MsgDies, UiDies
<1>3. CASE Unpatch
  <2>1. msg \in PatchMsg /\ (msg.crossed \/ Patched(msg.sg))
    BY <1>1, <1>3 DEF Unpatch, PatchSound, PatchMsgSound, Idle, Dead
  <2>2. Patched(msg.sg) => msg'.at = "expire"
    BY <1>3, <2>1 DEF Unpatch, PatchMsg
  <2>3. ~ UiDies
    BY <1>3, CrossedUiLives DEF Unpatch, UiDies
  <2> QED
    BY <2>1, <2>2, <2>3 DEF Excused, MsgDies, MsgExcused
<1>4. CASE MsgExpires
  BY <1>4, CrossedUiLives DEF MsgExpires, Idle, Excused, MsgDies, UiDies
<1>5. CASE UiExpires
  BY <1>5, CrossedMsgLives DEF UiExpires, Excused, MsgDies, UiDies
<1>6. CASE List
  <2>1. ui.at = "list" /\ UNCHANGED msg
    BY Zenon, <1>6 DEF List
  <2>2. ui \in PatchUi /\ (ui.crossed \/ \A sg \in ui.todo : Patched(sg))
    BY <1>1, <2>1 DEF PatchSound, PatchUiSound, Idle, Dead
  <2>3. CASE ui' = Idle
    BY <2>1, <2>3 DEF Idle, Excused, MsgDies, UiDies
  <2>4. CASE \E sg \in ui.todo : IF Patched(sg) THEN ui' = [ui EXCEPT !.todo = @ \ {sg}]
                                 ELSE ui' = Dead
    <3>1. PICK sg \in ui.todo : IF Patched(sg) THEN ui' = [ui EXCEPT !.todo = @ \ {sg}]
                                ELSE ui' = Dead
      BY Zenon, <2>4
    <3>2. CASE Patched(sg)
      <4>1. ui'.at = ui.at
        BY <2>2, <3>1, <3>2 DEF PatchUi
      <4> QED
        BY <2>1, <4>1 DEF Excused, MsgDies, UiDies
    <3>3. CASE ~ Patched(sg)
      BY <2>1, <2>2, <3>3 DEF Excused, MsgDies, UiExcused
    <3> QED
      BY <3>2, <3>3
  <2> QED
    BY Zenon, <1>6, <2>3, <2>4 DEF List
<1> QED
  BY Zenon, <1>2, <1>3, <1>4, <1>5, <1>6 DEF PatchSteps

(* Neither thread ends at a lookup, unless the other cut in, an address    *)
(* was given twice, or a reload removed a talkgroup that is in use.        *)
THEOREM LookupsSafe == Spec => LookupsResolve
<1>1. ASSUME IInv, Next PROVE Excused
  <2>1. CASE Elapse
    BY <2>1 DEF Elapse, Excused, MsgDies, UiDies
  <2> QED
    BY Zenon, <1>1, <2>1, UnitLookups, VoiceLookups, PatchLookups DEF Next
<1>2. IInv /\ [Next]_vars =>
        [ /\ msg'.at = "dead" /\ msg.at # "dead" =>
              \/ msg.crossed
              \/ about = "units" /\ msg.unit \in displaced
              \/ call \in wiped
          /\ ui'.at = "dead" /\ ui.at # "dead" =>
              ui.crossed \/ HalfMade \/ WipedInUse ]_vars
  BY Zenon, <1>1 DEF Excused, MsgDies, UiDies, MsgExcused, UiExcused
<1> QED
  BY <1>2, Invariance, PTL DEF Spec, LookupsResolve
=============================================================================
