---------------------------- MODULE SystemTables -----------------------------
(***************************************************************************)
(* What a p25_system keeps about its system besides the tuning state: the  *)
(* units registered (by unit identity and by the address they were given), *)
(* the voice channels in use and the patches.  The message thread updates  *)
(* them, the UI thread expires and reads them for every snapshot; a lookup *)
(* that fails ends the thread, since du_queue_watcher catches nothing.     *)
(*                                                                         *)
(* One step is a section under its lock, or a statement outside of any;    *)
(* statements are taken together where the other thread could not tell, a  *)
(* switch inside an expression is left out.  The three tables share        *)
(* nothing but the threads, so a behaviour is about one of them.           *)
(***************************************************************************)
EXTENDS Integers

CONSTANTS
    Units,         \* identities, suid
    Addrs,         \* addresses, wuid
    Local,         \* Local[w]: the unit of this system whose ID is w
    Freqs, Tgids,
    TagSet,        \* the talkgroups of the database's tag set
    NoUnit, NoAddr, NoTg, NoPatch      \* no entry

ASSUME TablesAssumption ==
    /\ Freqs \subseteq Nat /\ TagSet \subseteq Tgids
    /\ Local \in [Addrs -> Units]
    /\ NoUnit \notin Units /\ NoAddr \notin Addrs
    /\ NoTg \notin Tgids /\ \A gas \in SUBSET Tgids : NoPatch # gas

VARIABLES
    about,         \* the table this behaviour is about
    suids, wuids,  \* registered_suids[u]['wuid'], registered_wuids[w]['suid']
    talkgroups,    \* the keys of the talkgroup table
    booked,        \* those with a receiver
    call,          \* current_tgid of the receiver
    freqs,         \* keys of voice_frequencies: entry absent, begun, made
    voice,         \* voice_frequencies[f]['tgid'][slot]
    patches,       \* patches[sg]['ga']
    old,           \* entries whose time stamp has expired
    msg, ui,       \* where each thread is, and its local variables
    displaced,     \* ghost: units that were given one address
    wiped          \* ghost: talkgroups a reload removed

tables == <<suids, wuids, talkgroups, booked, call, freqs, voice, patches>>
vars == <<about, tables, old, msg, ui, displaced, wiped>>

Places == Freqs \X {0, 1}

Idle == [at |-> "idle"]
Dead == [at |-> "dead"]
Busy(job) == job.at \notin {"idle", "dead"}

Init ==
    /\ about \in {"units", "voice", "patches"}
    /\ suids = [u \in Units |-> NoAddr] /\ wuids = [w \in Addrs |-> NoUnit]
    /\ talkgroups = TagSet /\ booked = {} /\ call = NoTg
    /\ freqs = [f \in Freqs |-> "absent"] /\ voice = [p \in Places |-> NoTg]
    /\ patches = [sg \in Tgids |-> NoPatch]
    /\ old = {} /\ msg = Idle /\ ui = Idle
    /\ displaced = {} /\ wiped = {}

(* Ghost: a job is crossed when the other thread removes, or inserts, an   *)
(* entry of the table it is working on.                                    *)
Crossed(thread) == IF Busy(thread) THEN [thread EXCEPT !.crossed = TRUE] ELSE thread

MsgBegins(job) == msg.at = "idle" /\ msg' = job /\ UNCHANGED ui
UiBegins(job)  == ui.at = "idle" /\ ui' = job /\ UNCHANGED msg

-----------------------------------------------------------------------------
(* Registrations and affiliations.                                         *)

Registered(u) == suids[u] # NoAddr

RegisteringTwice(u, w, rounds) ==                              \* mutant
    [at |-> "add", unit |-> u, addr |-> w, next |-> "add", rounds |-> rounds,
     crossed |-> FALSE]

(* register_suid(): a unit known under another address is deregistered     *)
(* first.  rounds is how often the address is looked up after that.        *)
Registering(u, w, rounds) ==
    [at |-> IF suids[u] \in {NoAddr, w} THEN "add" ELSE "known",
     unit |-> u, addr |-> w, next |-> "add", rounds |-> rounds, crossed |-> FALSE]

Register(u, w) == MsgBegins(Registering(u, w, 0))

Deregister(u) ==
    MsgBegins([at |-> "known", unit |-> u, addr |-> NoAddr, next |-> "idle", rounds |-> 0,
               crossed |-> FALSE])

(* affiliate_sgid() (one round) and update_wuid_ts(), which calls it for   *)
(* an unknown address (two): the address alone is taken for a local unit.  *)
Mention(w, rounds) ==
    MsgBegins(IF wuids[w] = NoUnit THEN Registering(Local[w], w, rounds)
              ELSE [at |-> "find", unit |-> NoUnit, addr |-> w,
                    next |-> "idle", rounds |-> 1, crossed |-> FALSE])

Proceeds(at) == IF at = "idle" THEN Idle ELSE [msg EXCEPT !.at = at]

(* deregister_suid() tests for the unit, and then takes the lock. *)
Known ==
    /\ msg.at = "known"
    /\ msg' = Proceeds(IF Registered(msg.unit) THEN "drop" ELSE msg.next)
    /\ UNCHANGED <<tables, old, ui, displaced>>

RemoveUnitsOnly(gone) ==                                       \* mutant
    /\ suids' = [u \in Units |-> IF u \in gone THEN NoAddr ELSE suids[u]]
    /\ wuids' = wuids
    /\ old' = old \ gone
    /\ displaced' = displaced \ gone

RemoveUnits(gone) ==
    /\ suids' = [u \in Units |-> IF u \in gone THEN NoAddr ELSE suids[u]]
    /\ wuids' = [w \in Addrs |-> IF \E u \in gone : suids[u] = w THEN NoUnit ELSE wuids[w]]
    /\ old' = old \ gone
    /\ displaced' = displaced \ gone

Drop ==
    /\ msg.at = "drop"
    /\ \/ ~ Registered(msg.unit) /\ msg' = Dead
          /\ UNCHANGED <<suids, wuids, old, ui, displaced>>
       \/ Registered(msg.unit) /\ msg' = Proceeds(msg.next)
          /\ RemoveUnits({msg.unit}) /\ ui' = Crossed(ui)
    /\ UNCHANGED <<talkgroups, booked, call, freqs, voice, patches>>

LooksUp == Proceeds(IF msg.rounds = 0 THEN "idle" ELSE "find")

Rivals(u, w) == {v \in Units \ {u} : suids[v] = w}

EnrolSwapped(u, w) ==                                          \* mutant
    /\ suids' = [suids EXCEPT ![u] = w]
    /\ wuids' = [wuids EXCEPT ![w] = w]

Enrol(u, w) ==
    /\ suids' = [suids EXCEPT ![u] = w]
    /\ wuids' = [wuids EXCEPT ![w] = u]

(* The locked part of register_suid(). *)
Add ==
    /\ msg.at = "add" /\ old' = old \ {msg.unit}
    /\ \/ /\ ~ Registered(msg.unit) /\ msg' = LooksUp
          /\ Enrol(msg.unit, msg.addr)
          /\ displaced' = IF Rivals(msg.unit, msg.addr) = {} THEN displaced
                          ELSE displaced \cup {msg.unit} \cup Rivals(msg.unit, msg.addr)
       \/ /\ Registered(msg.unit)
          /\ msg' = IF wuids[msg.addr] = NoUnit THEN Dead ELSE LooksUp
          /\ UNCHANGED <<suids, wuids, displaced>>
    /\ UNCHANGED <<ui, talkgroups, booked, call, freqs, voice, patches>>

Find ==
    /\ msg.at = "find"
    /\ msg' = IF wuids[msg.addr] = NoUnit THEN Dead
              ELSE [msg EXCEPT !.at = "touch", !.unit = wuids[msg.addr]]
    /\ UNCHANGED <<tables, old, ui, displaced>>

Touch ==
    /\ msg.at = "touch" /\ old' = old \ {msg.unit}
    /\ msg' = IF ~ Registered(msg.unit) \/ wuids[msg.addr] = NoUnit THEN Dead
              ELSE IF msg.rounds > 1 THEN [msg EXCEPT !.at = "find", !.rounds = @ - 1]
              ELSE Idle
    /\ UNCHANGED <<tables, ui, displaced>>

(* expire_registrations(): the list is built without the lock. *)
ExpireRegistrations ==
    UiBegins([at |-> "ages", todo |-> {u \in Units : Registered(u)}, list |-> {},
              crossed |-> FALSE])

Ages ==
    /\ ui.at = "ages" /\ UNCHANGED <<tables, old, msg, displaced>>
    /\ \/ ui.todo = {} /\ ui' = [ui EXCEPT !.at = "purge"]
       \/ \E u \in ui.todo :
            ui' = IF Registered(u)
                  THEN [ui EXCEPT !.todo = @ \ {u}, !.list = @ \cup ({u} \cap old)]
                  ELSE Dead

(* A unit of the list that is gone raises when its turn comes. *)
Purge ==
    /\ ui.at = "purge"
    /\ LET there == {u \in ui.list : Registered(u)} IN
       \/ there = ui.list /\ ui' = Idle /\ RemoveUnits(there)
       \/ there # ui.list /\ ui' = Dead /\ \E gone \in SUBSET there : RemoveUnits(gone)
    /\ msg' = IF ui.list = {} THEN msg ELSE Crossed(msg)
    /\ UNCHANGED <<talkgroups, booked, call, freqs, voice, patches>>

UnitSteps ==
    /\ \/ /\ \/ \E u \in Units, w \in Addrs : Register(u, w)
             \/ \E u \in Units : Deregister(u)
             \/ \E w \in Addrs, rounds \in {1, 2} : Mention(w, rounds)
             \/ ExpireRegistrations
          /\ UNCHANGED <<tables, old, displaced>>
       \/ Known \/ Drop \/ Add \/ Find \/ Touch \/ Ages \/ Purge
    /\ UNCHANGED <<about, wiped>>

-----------------------------------------------------------------------------
(* Voice frequencies.                                                      *)

(* find_voice_freq(): the first frequency with the talkgroup, and its slots *)
FindVoiceFreq(tg) ==
    LET fs == {f \in Freqs : \E s \in {0, 1} : voice[<<f, s>>] = tg}
        first == CHOOSE f \in fs : \A g \in fs : f <= g
    IN  {p \in Places : p[1] \in fs /\ p[1] = first /\ voice[p] = tg}

HalfMade == \E f \in Freqs : freqs[f] = "begun"

(* update_voice_frequency(): slots is {0, 1} for FDMA. *)
Grant(f, tg, slots) ==
    MsgBegins([at |-> "stamp", freq |-> f, tg |-> tg, slots |-> slots,
               prev |-> FindVoiceFreq(tg), crossed |-> FALSE])

Entering == [msg EXCEPT !.at = IF freqs[msg.freq] = "absent" THEN "insert" ELSE "enter"]

(* update_talkgroup() adds the talkgroup; a new source of a call that is   *)
(* followed is logged after the lock is given up.                          *)
Stamp ==
    /\ msg.at = "stamp"
    /\ talkgroups' = talkgroups \cup {msg.tg} /\ wiped' = wiped \ {msg.tg}
    /\ \/ msg' = Entering
       \/ msg.tg \in booked /\ msg' = [msg EXCEPT !.at = "log"]
    /\ UNCHANGED <<suids, wuids, booked, call, freqs, voice, patches, old, ui>>

Log ==
    /\ msg.at = "log"
    /\ msg' = IF msg.tg \in booked THEN Entering ELSE Dead
    /\ UNCHANGED <<tables, old, ui, wiped>>

(* The new key goes into the dictionary before its sorted copy is made. *)
Insert ==
    /\ msg.at = "insert"
    /\ freqs' = [freqs EXCEPT ![msg.freq] = "begun"]
    /\ msg' = [msg EXCEPT !.at = "enter"]
    /\ ui' = IF ui.at \in {"look", "clear"}
             THEN [ui EXCEPT !.crossed = TRUE, !.torn = TRUE] ELSE Crossed(ui)
    /\ UNCHANGED <<suids, wuids, talkgroups, booked, call, voice, patches, old, wiped>>

Enter ==
    LET now == {msg.freq} \X msg.slots IN
    /\ msg.at = "enter" /\ msg' = Idle
    /\ freqs' = [freqs EXCEPT ![msg.freq] = "made"]
    /\ voice' = [p \in Places |-> IF p \in now THEN msg.tg
                                  ELSE IF p \in msg.prev THEN NoTg ELSE voice[p]]
    /\ old' = old \ (now \cup msg.prev)
    /\ UNCHANGED <<suids, wuids, talkgroups, booked, call, patches, ui, wiped>>

(* The receiver is sent to a call by the message thread. *)
Book(tg) ==
    /\ msg.at = "idle" /\ call = NoTg /\ tg \in talkgroups
    /\ booked' = booked \cup {tg} /\ call' = tg
    /\ UNCHANGED <<suids, wuids, talkgroups, freqs, voice, patches, old, msg, ui, wiped>>

(* expire_talkgroup(), in either thread: the test for a call, the release  *)
(* under the lock, and the rest, where a tag is looked up for the display  *)
(* unless the call is preempted.                                           *)
ExpireTalkgroup(thread, other) ==
    \/ /\ thread.at = "idle" /\ call # NoTg
       /\ thread' = [at |-> "end", crossed |-> FALSE] /\ UNCHANGED <<other, booked, call>>
    \/ /\ thread.at = "end"
       /\ thread' = IF call \in talkgroups THEN [thread EXCEPT !.at = "ended"] ELSE Dead
       /\ booked' = booked \ {call} /\ UNCHANGED call
       /\ other' = IF call \in booked THEN Crossed(other) ELSE other
    \/ /\ thread.at = "ended" /\ call' = NoTg
       /\ thread' \in {Idle} \cup IF call \in talkgroups \cup {NoTg} THEN {} ELSE {Dead}
       /\ other' = IF call # NoTg THEN Crossed(other) ELSE other
       /\ UNCHANGED booked

EndCall ==
    /\ ExpireTalkgroup(msg, ui) \/ ExpireTalkgroup(ui, msg)
    /\ UNCHANGED <<suids, wuids, talkgroups, freqs, voice, patches, old, wiped>>

(* reload_from_db() *)
Reload ==
    /\ ui.at = "idle"
    /\ talkgroups' = TagSet /\ booked' = {}
    /\ wiped' = wiped \cup (talkgroups \ TagSet)
    /\ msg' = Crossed(msg)
    /\ UNCHANGED <<suids, wuids, call, freqs, voice, patches, old, ui>>

(* to_json(): expire_voice_frequencies(), then every frequency is shown. *)
Snapshot ==
    UiBegins([at |-> "look", crossed |-> FALSE, torn |-> FALSE, place |-> <<>>,
              todo |-> {p \in Places : freqs[p[1]] # "absent"}])

Later(p, q) == p[1] > q[1] \/ (p[1] = q[1] /\ p[2] > q[2])

(* A frequency inserted meanwhile ends the iteration when it goes on to    *)
(* the next one.                                                           *)
Look ==
    /\ ui.at = "look"
    /\ \/ ui.todo = {} /\ ui' = [ui EXCEPT !.at = "show"]
       \/ \E p \in ui.todo :
            /\ \A q \in ui.todo : ~ Later(p, q)
            /\ ui' = IF \/ ui.torn /\ p[2] = 0
                        \/ freqs[p[1]] = "begun"
                        \/ voice[p] \notin talkgroups \cup {NoTg}
                     THEN Dead
                     ELSE IF voice[p] \in talkgroups \ booked /\ p \in old
                     THEN [ui EXCEPT !.todo = @ \ {p}, !.at = "clear", !.place = p]
                     ELSE [ui EXCEPT !.todo = @ \ {p}]
    /\ UNCHANGED <<tables, old, msg, wiped>>

Clear ==
    /\ ui.at = "clear"
    /\ voice' = [voice EXCEPT ![ui.place] = NoTg]
    /\ ui' = [ui EXCEPT !.at = "look", !.place = <<>>]
    /\ old' = old \ {ui.place}
    /\ UNCHANGED <<suids, wuids, talkgroups, booked, call, freqs, patches, msg, wiped>>

(* Talkgroups heard within the last second are looked up for their tags. *)
Show ==
    /\ ui.at = "show"
    /\ \/ HalfMade /\ ui' = Dead
       \/ ~ HalfMade /\ ui' = Idle
       \/ (\E p \in Places : voice[p] \notin talkgroups \cup {NoTg}) /\ ui' = Dead
    /\ UNCHANGED <<tables, old, msg, wiped>>

VoiceSteps ==
    /\ \/ /\ \/ \E f \in Freqs, tg \in Tgids, slots \in {{0}, {1}, {0, 1}} : Grant(f, tg, slots)
             \/ Snapshot
          /\ UNCHANGED <<tables, old, wiped>>
       \/ Stamp \/ Log \/ Insert \/ Enter \/ Look \/ Clear \/ Show \/ Reload
       \/ EndCall \/ \E tg \in Tgids : Book(tg)
    /\ UNCHANGED <<about, displaced>>

-----------------------------------------------------------------------------
(* Patches.                                                                *)

Patched(sg) == patches[sg] # NoPatch

(* A supergroup is never patched to itself, and no patch is left empty. *)
SetPatch(sg, gas) ==
    patches' = [patches EXCEPT ![sg] = IF gas = {} THEN NoPatch ELSE gas]

AddPatch(sg, gas) ==
    /\ SetPatch(sg, (gas \ {sg}) \cup IF Patched(sg) THEN patches[sg] ELSE {})
    /\ old' = IF gas \subseteq {sg} THEN old ELSE old \ {sg}
    /\ MsgBegins([at |-> "expire", sg |-> sg, gas |-> gas, crossed |-> FALSE])

(* del_patch() tests for the supergroup before it takes the lock. *)
DelPatch(sg, gas) ==
    /\ MsgBegins([at |-> IF Patched(sg) THEN "unpatch" ELSE "expire", sg |-> sg, gas |-> gas,
                  crossed |-> FALSE])
    /\ UNCHANGED <<patches, old>>

Unpatch ==
    /\ msg.at = "unpatch"
    /\ \/ ~ Patched(msg.sg) /\ msg' = Dead /\ UNCHANGED <<patches, ui>>
       \/ /\ Patched(msg.sg) /\ msg' = [msg EXCEPT !.at = "expire"]
          /\ SetPatch(msg.sg, IF msg.sg \in msg.gas THEN {} ELSE patches[msg.sg] \ msg.gas)
          /\ ui' = Crossed(ui)
    /\ UNCHANGED old

Expired == {sg \in old : Patched(sg)}

ExpirePatches ==
    /\ patches' = [sg \in Tgids |-> IF sg \in Expired THEN NoPatch ELSE patches[sg]]
    /\ old' = old \ Expired

(* Every message ends with expire_patches(). *)
MsgExpires ==
    /\ msg.at = "expire" /\ msg' = Idle
    /\ ExpirePatches
    /\ ui' = IF Expired = {} THEN ui ELSE Crossed(ui)

(* to_json() expires and then lists the patches, without the lock. *)
UiExpires ==
    /\ ui.at = "idle"
    /\ ui' = [at |-> "list", todo |-> {sg \in Tgids : Patched(sg)} \ Expired,
              crossed |-> FALSE]
    /\ ExpirePatches
    /\ msg' = IF Expired = {} THEN msg ELSE Crossed(msg)

List ==
    /\ ui.at = "list"
    /\ \/ ui.todo = {} /\ ui' = Idle
       \/ \E sg \in ui.todo :
            ui' = IF Patched(sg) THEN [ui EXCEPT !.todo = @ \ {sg}] ELSE Dead
    /\ UNCHANGED <<patches, old, msg>>

PatchSteps ==
    /\ \/ \E sg \in Tgids, gas \in (SUBSET Tgids) \ {{}} : AddPatch(sg, gas) \/ DelPatch(sg, gas)
       \/ Unpatch \/ MsgExpires \/ UiExpires \/ List
    /\ UNCHANGED <<about, suids, wuids, talkgroups, booked, call, freqs, voice, displaced, wiped>>

-----------------------------------------------------------------------------
Entries ==
    IF about = "units" THEN {u \in Units : Registered(u)}
    ELSE IF about = "voice" THEN {p \in Places : voice[p] # NoTg}
    ELSE {sg \in Tgids : Patched(sg)}

Elapse ==
    /\ \E x \in Entries \ old : old' = old \cup {x}
    /\ UNCHANGED <<about, tables, msg, ui, displaced, wiped>>

Next ==
    \/ about = "units" /\ UnitSteps
    \/ about = "voice" /\ VoiceSteps
    \/ about = "patches" /\ PatchSteps
    \/ Elapse

Spec == Init /\ [][Next]_vars

-----------------------------------------------------------------------------
UnitMsg  == [at : {"known", "drop", "add", "find", "touch"}, unit : Units \cup {NoUnit},
             addr : Addrs \cup {NoAddr}, next : {"add", "idle"}, rounds : 0 .. 2,
             crossed : BOOLEAN]
UnitUi   == [at : {"ages", "purge"}, todo : SUBSET Units, list : SUBSET Units,
             crossed : BOOLEAN]
VoiceMsg == [at : {"stamp", "log", "insert", "enter"}, freq : Freqs, tg : Tgids,
             slots : SUBSET {0, 1}, prev : SUBSET Places, crossed : BOOLEAN]
VoiceUi  == [at : {"look", "clear", "show"}, crossed : BOOLEAN, torn : BOOLEAN,
             todo : SUBSET Places, place : Places \cup {<<>>}]
CallEnd  == [at : {"end", "ended"}, crossed : BOOLEAN]
PatchMsg == [at : {"unpatch", "expire"}, sg : Tgids, gas : SUBSET Tgids, crossed : BOOLEAN]
PatchUi  == [at : {"list"}, todo : SUBSET Tgids, crossed : BOOLEAN]

(* Units and addresses are strings of the same make: none takes the place  *)
(* of the other in the two tables.                                         *)
TypeOK ==
    /\ about \in {"units", "voice", "patches"}
    /\ suids \in [Units -> Addrs \cup {NoAddr}]
    /\ wuids \in [Addrs -> Units \cup {NoUnit}]
    /\ talkgroups \subseteq Tgids /\ booked \subseteq talkgroups
    /\ call \in Tgids \cup {NoTg}
    /\ freqs \in [Freqs -> {"absent", "begun", "made"}]
    /\ voice \in [Places -> Tgids \cup {NoTg}]
    /\ patches \in [Tgids -> {NoPatch} \cup SUBSET Tgids]
    /\ old \subseteq Units \cup Places \cup Tgids
    /\ about = "units"   => /\ msg \in {Idle, Dead} \cup UnitMsg
                            /\ ui \in {Idle, Dead} \cup UnitUi
    /\ about = "voice"   => /\ msg \in {Idle, Dead} \cup VoiceMsg \cup CallEnd
                            /\ ui \in {Idle, Dead} \cup VoiceUi \cup CallEnd
    /\ about = "patches" => /\ msg \in {Idle, Dead} \cup PatchMsg
                            /\ ui \in {Idle, Dead} \cup PatchUi
    /\ displaced \subseteq Units /\ wiped \subseteq Tgids

(* Every address leads to a unit that has it. *)
AddressesResolve == \A w \in Addrs : wuids[w] # NoUnit => suids[wuids[w]] = w

(* Every unit is found by its address, unless that was given to another.   *)
UnitsReachable == \A u \in Units \ displaced : Registered(u) => wuids[suids[u]] = u

(* A talkgroup is on one frequency. *)
OneFrequency == \A p, q \in Places : voice[p] = voice[q] /\ voice[p] # NoTg => p[1] = q[1]

(* No patch is empty or patches a supergroup to itself. *)
PatchesSound == \A sg \in Tgids : Patched(sg) => patches[sg] # {} /\ sg \notin patches[sg]

(* The tables agree with each other however updates, expiry in the other   *)
(* thread and addresses given out twice follow on one another.             *)
TablesAgree == AddressesResolve /\ UnitsReachable /\ OneFrequency /\ PatchesSound

WipedInUse == wiped \cap ({call} \cup {voice[p] : p \in Places}) # {}

(* A lookup fails, and ends its thread, only where the other thread cut in *)
(* between a test and its use, an address was given to two units, or a     *)
(* reload removed a talkgroup that a call or a voice channel still names.  *)
LookupsResolve ==
    [][ /\ msg'.at = "dead" /\ msg.at # "dead" =>
              \/ msg.crossed
              \/ about = "units" /\ msg.unit \in displaced
              \/ call \in wiped
        /\ ui'.at = "dead" /\ ui.at # "dead" =>
              ui.crossed \/ HalfMade \/ WipedInUse ]_vars
=============================================================================
