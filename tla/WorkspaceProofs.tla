--------------------------- MODULE WorkspaceProofs ---------------------------
(***************************************************************************)
(* What the commands may rely on of a home and its profiles, for any       *)
(* number of commands of any kinds side by side, any profiles, and any     *)
(* number of deaths and damaged files.                                     *)
(***************************************************************************)
EXTENDS Workspace, TLAPS

\* Where a command of each kind can be, and what it has read by then.
PathOf(c) ==
  /\ pc[c] = "restore" => knows[c].kind = "import"
  /\ pc[c] \in {"touch", "offer", "attributes", "saveProfile", "saveConfig"} => knows[c].kind # "import"
  /\ pc[c] = "fresh" => ~Readable(knows[c].profile)
  /\ pc[c] \in {"scaffold", "identity", "mint", "touch", "offer", "attributes", "saveProfile"} =>
       \/ knows[c].kind = "import"
       \/ knows[c].profile \in ProfileFiles
  /\ pc[c] = "saveConfig" => knows[c].kind = "use"
  /\ knows[c].named => pc[c] \in {"touch", "offer", "attributes", "saveProfile", "done", "dead"}
  /\ knows[c].left \subseteq Exported
  /\ knows[c].at \in knows[c].left \cup {NoFile}

Paths == \A c \in Callers : PathOf(c)

\* An import that has yet to restore the .gitattributes of profile p, or was cut off
\* before it did.
UnderWay(p) ==
  \E c \in Callers : pc[c] \in {"restore", "dead"} /\ Target(c) = p /\ "attributes" \in knows[c].left

\* Whoever is about to turn sync on, or to restore a profile that has it on, does so
\* with the .gitattributes there, or on its way.
AttributesFirst ==
  \A p \in Profiles :
    (\/ profile[p] # NoFile /\ profile[p].sync
     \/ \E c \in Callers : pc[c] \in {"saveProfile", "restore"} /\ Target(c) = p)
    => p \in attributes \/ UnderWay(p)

\* As long as no id was lost, a command about to touch its machine has the one id.
IdCurrent ==
  displaced = {} => \A c \in Callers : pc[c] = "touch" => identity # NoFile /\ knows[c].id = identity.id

\* A command past its touch has left its record.
Touched ==
  \A c \in Callers :
    /\ knows[c].kind \in {"init", "create", "rename"}
    /\ \/ pc[c] \in {"offer", "attributes", "saveProfile", "done"}
       \/ pc[c] = "touch" /\ knows[c].named
    => machine[Target(c)] \ {Elsewhere} # {}

\* As long as no id was lost, every record of this machine is under the one id.
OneId ==
  displaced = {} => \A p \in Profiles : machine[p] \ {Elsewhere} \subseteq
                                        IF identity = NoFile THEN {} ELSE {identity.id}

\* The inductive invariant.
IInv == TypeOK /\ Paths /\ AttributesFirst /\ IdCurrent /\ Touched /\ OneId

LEMMA Constants ==
  /\ KindsOf \in [Callers -> SUBSET Kinds]
  /\ MaxFaults \in Nat
  /\ NoFile \notin Callers /\ NoFile \notin Profiles /\ NoFile \notin Parts
  /\ Elsewhere \notin Callers /\ Elsewhere # NoFile
  /\ NoFile \notin Configs /\ NoFile \notin ProfileFiles /\ NoFile \notin Identities
  BY WorkspaceAssumption, NoFileAssumption

LEMMA ExportedMeans == Exported \subseteq Parts /\ "attributes" \in Exported /\ "identity" \notin Exported
  BY DEF Exported, Parts

\* What an import does to the home as it removes or copies a file, but for what the
\* file says: its own file in its own profile, and never the identity.
ReplacesOnly(part, p, there) ==
  /\ part \in Parts /\ part # "identity" /\ p \in Profiles
  /\ identity' = identity
  /\ config' \in Configs \cup {NoFile}
  /\ profile' \in [Profiles -> ProfileFiles \cup {NoFile}]
  /\ machine' \in [Profiles -> SUBSET (Callers \cup {Elsewhere})]
  /\ \A q \in Profiles : q # p \/ part # "profile" => profile'[q] = profile[q]
  /\ \A q \in Profiles : machine'[q] \ {Elsewhere} = machine[q] \ {Elsewhere}
  /\ attributes' \subseteq Profiles
  /\ attributes \ {p} \subseteq attributes'
  /\ part # "attributes" => attributes' = attributes
  /\ part = "attributes" /\ there => p \in attributes'

LEMMA Replaces ==
  ASSUME TypeOK, NEW part \in Parts, part # "identity", NEW p \in Profiles, NEW there \in BOOLEAN,
         Becomes(part, p, there)
  PROVE ReplacesOnly(part, p, there)
  <1> USE DEF TypeOK, Becomes
  <1>1. identity' = identity
    OBVIOUS
  <1>2. config' \in Configs \cup {NoFile}
    BY DEF Configs
  <1>3. profile' \in [Profiles -> ProfileFiles \cup {NoFile}]
    BY DEF ProfileFiles
  <1>4. machine' \in [Profiles -> SUBSET (Callers \cup {Elsewhere})]
    OBVIOUS
  <1>5. \A q \in Profiles : q # p \/ part # "profile" => profile'[q] = profile[q]
    OBVIOUS
  <1>6. \A q \in Profiles : machine'[q] \ {Elsewhere} = machine[q] \ {Elsewhere}
    OBVIOUS
  <1>7. /\ attributes' \subseteq Profiles
        /\ attributes \ {p} \subseteq attributes'
        /\ part # "attributes" => attributes' = attributes
        /\ part = "attributes" /\ there => p \in attributes'
    OBVIOUS
  <1>8. QED
    BY <1>1, <1>2, <1>3, <1>4, <1>5, <1>6, <1>7 DEF ReplacesOnly

\* Import c has removed its file part, or copied it.
MadeWay(c, part) ==
  /\ ReplacesOnly(part, Target(c), FALSE)
  /\ part \in knows[c].left /\ pc[c] = "restore" /\ knows[c].at = NoFile
  /\ knows' = [knows EXCEPT ![c].at = part]
  /\ UNCHANGED <<pc, deaths, damage, displaced>>

Copied(c, part) ==
  /\ ReplacesOnly(part, Target(c), TRUE)
  /\ part \in knows[c].left /\ pc[c] = "restore"
  /\ knows' = [knows EXCEPT ![c].left = @ \ {part}, ![c].at = NoFile]
  /\ knows' \in [Callers -> Knowledge]
  /\ \/ pc' = [pc EXCEPT ![c] = "identity"] /\ knows[c].left = {part}
     \/ pc' = [pc EXCEPT ![c] = "restore"]
  /\ UNCHANGED <<deaths, damage, displaced>>

LEMMA MakesWay ==
  ASSUME TypeOK, Paths, NEW c \in Callers, MakeWay(c)
  PROVE \E part \in Parts : MadeWay(c, part)
  <1>1. PICK part \in knows[c].left : Becomes(part, Target(c), FALSE) /\ Learns(c, "at", part)
    BY DEF MakeWay
  <1>2. part \in Parts /\ part # "identity" /\ Target(c) \in Profiles
    BY ExportedMeans DEF TypeOK, Paths, PathOf, Target, Knowledge
  <1>3. ReplacesOnly(part, Target(c), FALSE)
    BY <1>1, <1>2, Replaces
  <1>4. QED
    BY <1>1, <1>2, <1>3 DEF MakeWay, Learns, MadeWay

LEMMA Copies ==
  ASSUME TypeOK, Paths, NEW c \in Callers, CopyFile(c)
  PROVE \E part \in Parts : Copied(c, part)
  <1>1. PICK part \in knows[c].left : CopyOver(c, part)
    BY DEF CopyFile
  <1>2. part \in Parts /\ part # "identity" /\ Target(c) \in Profiles
    BY ExportedMeans DEF TypeOK, Paths, PathOf, Target, Knowledge
  <1>3. ReplacesOnly(part, Target(c), TRUE)
    BY <1>1, <1>2, Replaces DEF CopyOver
  <1>4. knows' \in [Callers -> Knowledge]
    <2>1. [knows[c] EXCEPT !.left = @ \ {part}, !.at = NoFile] \in Knowledge
      <3>1. knows[c] \in Knowledge /\ knows[c].left \ {part} \in SUBSET Parts
        BY DEF TypeOK, Knowledge
      <3>2. QED
        BY <3>1 DEF Knowledge
    <2>2. knows' = [knows EXCEPT ![c] = [knows[c] EXCEPT !.left = @ \ {part}, !.at = NoFile]]
      BY <1>1 DEF CopyOver, TypeOK
    <2>3. QED
      BY <2>1, <2>2 DEF TypeOK
  <1>5. Copied(c, part)
    BY <1>1, <1>3, <1>4 DEF CopyFile, CopyOver, Goes, Copied
  <1>6. QED
    BY <1>2, <1>5

LEMMA After ==
  ASSUME TypeOK, NEW c \in Callers
  PROVE /\ AfterIdentity(c) \in {"saveConfig", "attributes", "done", "touch"}
        /\ AfterIdentity(c) = "saveConfig" => knows[c].kind = "use"
        /\ AfterIdentity(c) = "attributes" => knows[c].kind = "connect"
        /\ AfterIdentity(c) = "done" => knows[c].kind = "import"
        /\ AfterIdentity(c) = "touch" => knows[c].kind \in {"init", "create", "rename"}
  BY DEF AfterIdentity, TypeOK, Knowledge, Kinds

\* A touch adds the machine a command knows to the profile's, and goes on.
TouchedBy(c, named, label) ==
  /\ pc[c] = "touch"
  /\ machine' = [machine EXCEPT ![Target(c)] = @ \cup {knows[c].id}]
  /\ knows' = [knows EXCEPT ![c].named = named]
  /\ knows' \in [Callers -> Knowledge]
  /\ pc' = [pc EXCEPT ![c] = label]
  /\ label \in {"touch", "offer"} => knows[c].kind = "init"
  /\ UNCHANGED <<config, profile, attributes, identity, deaths, damage, displaced>>

LEMMA Touches ==
  ASSUME TypeOK, NEW c \in Callers, TouchMachine(c)
  PROVE \E named \in BOOLEAN, label \in {"touch", "offer", "attributes", "done"} : TouchedBy(c, named, label)
  <1>1. PICK label \in {"touch", "offer", "attributes", "done"} :
          /\ pc' = [pc EXCEPT ![c] = label]
          /\ label \in {"touch", "offer"} => knows[c].kind = "init"
    <2>1. CASE knows[c].kind = "init" /\ ~knows[c].named
      BY <2>1 DEF TouchMachine, Goes
    <2>2. CASE knows[c].kind = "init" /\ knows[c].named
      BY <2>2 DEF TouchMachine, Goes
    <2>3. CASE knows[c].kind # "init"
      BY <2>3 DEF TouchMachine, Goes
    <2>4. QED
      BY <2>1, <2>2, <2>3
  <1>2. PICK named \in BOOLEAN : knows' = [knows EXCEPT ![c].named = named]
    <2>1. knows' = [knows EXCEPT ![c].named = knows[c].kind = "init"]
      BY Zenon DEF TouchMachine
    <2>2. (knows[c].kind = "init") \in BOOLEAN
      OBVIOUS
    <2>3. QED
      BY <2>1, <2>2, Zenon
  <1>3. knows' \in [Callers -> Knowledge]
    <2>1. [knows[c] EXCEPT !.named = named] \in Knowledge
      BY DEF TypeOK, Knowledge
    <2>2. QED
      BY <1>2, <2>1 DEF TypeOK
  <1>4. QED
    BY <1>1, <1>2, <1>3 DEF TouchMachine, TouchedBy

\* What a command does that opens a profile, or reads or mints its identity.
Opened(c) ==
  /\ pc[c] = "openProfile"
  /\ UNCHANGED <<files, deaths, damage, displaced>>
  /\ \/ pc' = [pc EXCEPT ![c] = "failed"] /\ knows' = knows
     \/ \E f \in ProfileFiles : /\ pc' = [pc EXCEPT ![c] = "identity"]
                                /\ knows' = [knows EXCEPT ![c].profile = f]

LEMMA Opens == ASSUME TypeOK, NEW c \in Callers, OpenProfile(c) PROVE Opened(c)
  <1> DEFINE opened == profile[knows[c].opens]
  <1>1. CASE Readable(opened)
    <2>1. opened \in ProfileFiles
      BY <1>1 DEF TypeOK, Readable, Knowledge
    <2>2. QED
      BY <1>1, <2>1 DEF OpenProfile, Goes, Learns, Opened
  <1>2. CASE ~Readable(opened)
    BY <1>2 DEF OpenProfile, Goes, Opened
  <1>3. QED
    BY <1>1, <1>2

\* The identity a command goes on with is the one on disk, or a new one.
Reading(c) ==
  /\ pc[c] = "identity"
  /\ UNCHANGED <<files, deaths, damage, displaced>>
  /\ \/ pc' = [pc EXCEPT ![c] = "mint"] /\ knows' = knows
     \/ /\ identity # NoFile /\ identity.id \in Callers
        /\ pc' = [pc EXCEPT ![c] = AfterIdentity(c)]
        /\ knows' = [knows EXCEPT ![c].id = identity.id]

LEMMA Reads == ASSUME TypeOK, NEW c \in Callers, ReadIdentity(c) PROVE Reading(c)
  <1>1. CASE Readable(identity)
    BY <1>1 DEF ReadIdentity, TypeOK, Readable, Identities, Goes, Learns, Reading
  <1>2. CASE ~Readable(identity)
    BY <1>2 DEF ReadIdentity, Goes, Reading
  <1>3. QED
    BY <1>1, <1>2

Minted(c) ==
  /\ pc[c] = "mint"
  /\ pc' = [pc EXCEPT ![c] = AfterIdentity(c)]
  /\ knows' = [knows EXCEPT ![c].id = c]
  /\ identity' \in Identities /\ identity'.id = c
  /\ displaced \subseteq displaced' /\ displaced' \subseteq Callers
  /\ displaced' = {} => identity = NoFile
  /\ UNCHANGED <<config, profile, attributes, machine, deaths, damage>>

LEMMA Mints == ASSUME TypeOK, NEW c \in Callers, MintIdentity(c) PROVE Minted(c)
  <1>1. pc' = [pc EXCEPT ![c] = AfterIdentity(c)] /\ knows' = [knows EXCEPT ![c].id = c]
    BY DEF MintIdentity, Goes, Learns
  <1>2. identity' \in Identities /\ identity'.id = c
    BY DEF MintIdentity, Identities
  <1>3. CASE identity = NoFile
    BY <1>1, <1>2, <1>3 DEF MintIdentity, TypeOK, Minted
  <1>4. CASE identity # NoFile
    <2>1. identity.id \in Callers
      BY <1>4 DEF TypeOK, Identities
    <2>2. QED
      BY <1>1, <1>2, <1>4, <2>1 DEF MintIdentity, TypeOK, Minted
  <1>5. QED
    BY <1>3, <1>4

\* A file that becomes readable, or unreadable, says what it said.
LEMMA SaysTheSame ==
  /\ \A f \in Configs : Unreadable(f) \in Configs
  /\ \A f \in Identities : Unreadable(f) \in Identities
  /\ \A f \in ProfileFiles :
       /\ Unreadable(f) \in ProfileFiles /\ Mended(f) \in ProfileFiles
       /\ Unreadable(f).by = f.by /\ Unreadable(f).sync = f.sync
       /\ Mended(f).by = f.by /\ Mended(f).sync = f.sync
  BY DEF Unreadable, Mended, Configs, Identities, ProfileFiles

\* The profiles say what they said.
SameProfiles ==
  /\ profile' \in [Profiles -> ProfileFiles \cup {NoFile}]
  /\ \A p \in Profiles :
       \/ profile'[p] = profile[p]
       \/ /\ profile[p] \in ProfileFiles /\ profile'[p] \in ProfileFiles
          /\ profile'[p].by = profile[p].by /\ profile'[p].sync = profile[p].sync

Damaged ==
  /\ config' \in Configs \cup {NoFile}
  /\ SameProfiles
  /\ identity' \in Identities \cup {NoFile}
  /\ displaced \subseteq displaced' /\ displaced' \subseteq Callers
  /\ displaced' = {} => identity' = identity
  /\ damage' \in 0..MaxFaults
  /\ UNCHANGED <<attributes, machine, pc, knows, deaths>>

LEMMA Damages == ASSUME TypeOK, Damage PROVE Damaged
  <1>1. damage' \in 0..MaxFaults
    BY Constants DEF Damage, TypeOK
  <1>2. CASE Readable(config) /\ config' = Unreadable(config) /\ UNCHANGED <<profile, identity, displaced>>
    BY <1>1, <1>2, SaysTheSame DEF Damage, TypeOK, Readable, SameProfiles, Damaged
  <1>3. ASSUME NEW p \in Profiles, Readable(profile[p]),
               profile' = [profile EXCEPT ![p] = Unreadable(@)], UNCHANGED <<config, identity, displaced>>
        PROVE SameProfiles /\ UNCHANGED <<config, identity, displaced>>
    BY <1>3, SaysTheSame DEF TypeOK, Readable, SameProfiles
  <1>4. CASE /\ Readable(identity) /\ identity' = Unreadable(identity)
             /\ displaced' = displaced \cup {identity.id} /\ UNCHANGED <<config, profile>>
    <2>1. identity \in Identities /\ identity.id \in Callers
      BY <1>4 DEF TypeOK, Readable, Identities
    <2>2. QED
      BY <1>1, <1>4, <2>1, SaysTheSame DEF Damage, TypeOK, SameProfiles, Damaged
  <1>5. QED
    BY <1>1, <1>2, <1>3, <1>4 DEF Damage, TypeOK, Damaged

MendsOnly ==
  /\ SameProfiles
  /\ UNCHANGED <<config, attributes, identity, machine, pc, knows, deaths, damage, displaced>>

LEMMA Mends == ASSUME TypeOK, Mend PROVE MendsOnly
  BY SaysTheSame DEF Mend, TypeOK, SameProfiles, MendsOnly

LEMMA Knows ==
  ASSUME TypeOK, NEW c \in Callers
  PROVE /\ knows[c] \in Knowledge /\ Target(c) \in Profiles
        /\ Readable(config) => config.default \in Profiles
  BY DEF TypeOK, Knowledge, Target, Readable, Configs

LEMMA InitialState == Init => IInv
  <1> SUFFICES ASSUME Init PROVE IInv
    OBVIOUS
  <1>1. TypeOK
    <2>1. knows \in [Callers -> Knowledge]
      <3>1. knows \in [Callers -> [kind : Kinds, target : Profiles, opens : Profiles, profile : {NoFile},
                                  id : Callers, named : {FALSE}, left : {{}}, at : {NoFile}]]
        BY DEF Init
      <3>2. QED
        BY <3>1 DEF Knowledge
    <2>2. QED
      BY <2>1, Constants DEF Init, TypeOK, Labels
  <1>2. Paths
    BY DEF Init, Paths, PathOf
  <1>3. AttributesFirst /\ IdCurrent /\ Touched /\ OneId
    BY DEF Init, AttributesFirst, IdCurrent, Touched, OneId, Target
  <1>4. QED
    BY <1>1, <1>2, <1>3 DEF IInv

LEMMA TypeKept == IInv /\ [Next]_vars => TypeOK'
  <1> SUFFICES ASSUME IInv, [Next]_vars PROVE TypeOK'
    OBVIOUS
  <1> USE Constants
  <1>1. ASSUME NEW c \in Callers, Begin(c) PROVE TypeOK'
    BY <1>1 DEF Begin, IInv, TypeOK, Labels, Knowledge, files, Goes, Learns, Target
  <1>2. ASSUME NEW c \in Callers, OpenConfig(c) PROVE TypeOK'
    <2> DEFINE p == IF knows[c].kind = "use" THEN config.default ELSE Target(c)
    <2>1. CASE Readable(config)
      <3>1. p \in Profiles
        BY <2>1, Knows DEF IInv
      <3>2. pc' = [pc EXCEPT ![c] = "openProfile"] /\ knows' = [knows EXCEPT ![c].opens = p]
        BY <1>2, <2>1 DEF OpenConfig, Goes, Learns
      <3> HIDE DEF p
      <3>3. QED
        BY <1>2, <3>1, <3>2
        DEF OpenConfig, IInv, TypeOK, Labels, Knowledge, files, Goes, Learns, Target
    <2>2. CASE ~Readable(config)
      BY <1>2, <2>2 DEF OpenConfig, IInv, TypeOK, Labels, Knowledge, files, Goes, Learns, Target
    <2>3. QED
      BY <2>1, <2>2
  <1>3. ASSUME NEW c \in Callers, OpenProfile(c) PROVE TypeOK'
    <2>1. Opened(c)
      BY <1>3, Opens DEF IInv
    <2>2. QED
      BY <2>1 DEF Opened, IInv, TypeOK, Labels, Knowledge, files, Goes, Learns, Target
  <1>4. ASSUME NEW c \in Callers, ReadConfig(c) PROVE TypeOK'
    BY <1>4 DEF ReadConfig, IInv, TypeOK, Labels, Knowledge, files, Goes, Learns, Target
  <1>5. ASSUME NEW c \in Callers, WriteConfig(c) PROVE TypeOK'
    BY <1>5 DEF WriteConfig, Configs, IInv, TypeOK, Labels, Knowledge, files, Goes, Learns, Target
  <1>6. ASSUME NEW c \in Callers, ReadProfile(c) PROVE TypeOK'
    BY <1>6 DEF ReadProfile, IInv, TypeOK, Labels, Knowledge, files, Goes, Learns, Target
  <1>7. ASSUME NEW c \in Callers, WriteProfile(c) PROVE TypeOK'
    <2>1. Fresh(c) \in ProfileFiles
      BY DEF Fresh, ProfileFiles
    <2>2. QED
      BY <1>7, <2>1 DEF WriteProfile, IInv, TypeOK, Labels, Knowledge, files, Goes, Learns, Target
  <1>8. ASSUME NEW c \in Callers, Scaffold(c) PROVE TypeOK'
    BY <1>8 DEF Scaffold, IInv, TypeOK, Labels, Knowledge, files, Goes, Learns, Target
  <1>9. ASSUME NEW c \in Callers, ReadIdentity(c) PROVE TypeOK'
    <2>1. TypeOK
      BY DEF IInv
    <2>2. Reading(c)
      BY <1>9, <2>1, Reads
    <2>3. /\ AfterIdentity(c) \in {"saveConfig", "attributes", "done", "touch"}
          /\ AfterIdentity(c) = "saveConfig" => knows[c].kind = "use"
          /\ AfterIdentity(c) = "attributes" => knows[c].kind = "connect"
          /\ AfterIdentity(c) = "done" => knows[c].kind = "import"
          /\ AfterIdentity(c) = "touch" => knows[c].kind \in {"init", "create", "rename"}
      BY <2>1, After
    <2>4. QED
      BY <2>2, <2>3 DEF Reading, IInv, TypeOK, Labels, Knowledge, files, Goes, Learns, Target
  <1>10. ASSUME NEW c \in Callers, MintIdentity(c) PROVE TypeOK'
    <2>1. TypeOK
      BY DEF IInv
    <2>2. Minted(c)
      BY <1>10, <2>1, Mints
    <2>3. /\ AfterIdentity(c) \in {"saveConfig", "attributes", "done", "touch"}
          /\ AfterIdentity(c) = "saveConfig" => knows[c].kind = "use"
          /\ AfterIdentity(c) = "attributes" => knows[c].kind = "connect"
          /\ AfterIdentity(c) = "done" => knows[c].kind = "import"
          /\ AfterIdentity(c) = "touch" => knows[c].kind \in {"init", "create", "rename"}
      BY <2>1, After
    <2>4. QED
      BY <2>2, <2>3 DEF Minted, IInv, TypeOK, Labels, Knowledge, files, Goes, Learns, Target
  <1>11. ASSUME NEW c \in Callers, TouchMachine(c) PROVE TypeOK'
    <2>1. PICK named \in BOOLEAN, label \in {"touch", "offer", "attributes", "done"} : TouchedBy(c, named, label)
      BY <1>11, Touches DEF IInv
    <2>2. QED
      BY <2>1 DEF TouchedBy, IInv, TypeOK, Labels, Knowledge, files, Goes, Learns, Target
  <1>12. ASSUME NEW c \in Callers, OfferSync(c) PROVE TypeOK'
    BY <1>12 DEF OfferSync, IInv, TypeOK, Labels, Knowledge, files, Goes, Learns, Target
  <1>13. ASSUME NEW c \in Callers, WriteAttributes(c) PROVE TypeOK'
    BY <1>13 DEF WriteAttributes, IInv, TypeOK, Labels, Knowledge, files, Goes, Learns, Target
  <1>14. ASSUME NEW c \in Callers, SaveProfile(c) PROVE TypeOK'
    BY <1>14
    DEF SaveProfile, Connected, Paths, PathOf, ProfileFiles, IInv, TypeOK, Labels, Knowledge,
      files, Goes, Learns, Target
  <1>15. ASSUME NEW c \in Callers, SaveConfig(c) PROVE TypeOK'
    BY <1>15 DEF SaveConfig, Configs, IInv, TypeOK, Labels, Knowledge, files, Goes, Learns, Target
  <1>16. ASSUME NEW c \in Callers, BeginImport(c) PROVE TypeOK'
    BY <1>16, ExportedMeans
    DEF BeginImport, IInv, TypeOK, Labels, Knowledge, files, Goes, Learns, Target
  <1>17. ASSUME NEW c \in Callers, MakeWay(c) PROVE TypeOK'
    <2>1. PICK part \in Parts : MadeWay(c, part)
      BY <1>17, MakesWay DEF IInv
    <2>2. QED
      BY <2>1
      DEF MadeWay, ReplacesOnly, IInv, TypeOK, Labels, Knowledge, files, Goes, Learns, Target
  <1>18. ASSUME NEW c \in Callers, CopyFile(c) PROVE TypeOK'
    <2>1. PICK part \in Parts : Copied(c, part)
      BY <1>18, Copies DEF IInv
    <2>2. QED
      BY <2>1 DEF Copied, ReplacesOnly, IInv, TypeOK, Labels, Knowledge, files, Goes, Learns, Target
  <1>19. ASSUME NEW c \in Callers, Die(c) PROVE TypeOK'
    BY <1>19 DEF Die, IInv, TypeOK, Labels, Knowledge, files, Goes, Learns, Target
  <1>20. CASE Damage
    <2>1. Damaged
      BY <1>20, Damages DEF IInv
    <2>2. QED
      BY <2>1
      DEF Damaged, SameProfiles, IInv, TypeOK, Labels, Knowledge, files, Goes, Learns, Target
  <1>21. CASE Mend
    <2>1. MendsOnly
      BY <1>21, Mends DEF IInv
    <2>2. QED
      BY <2>1
      DEF MendsOnly, SameProfiles, IInv, TypeOK, Labels, Knowledge, files, Goes, Learns, Target
  <1>22. CASE UNCHANGED vars
    BY <1>22 DEF vars, IInv, TypeOK, Labels, Knowledge, files, Goes, Learns, Target
  <1>23. QED
    BY <1>1, <1>2, <1>3, <1>4, <1>5, <1>6, <1>7, <1>8, <1>9, <1>10, <1>11, <1>12, <1>13, <1>14,
       <1>15, <1>16, <1>17, <1>18, <1>19, <1>20, <1>21, <1>22
    DEF Next, CommandStep

LEMMA PathKept == IInv /\ [Next]_vars => \A d \in Callers : PathOf(d)'
  <1> SUFFICES ASSUME IInv, [Next]_vars PROVE \A d \in Callers : PathOf(d)'
    OBVIOUS
  <1> USE Constants
  <1>1. ASSUME NEW c \in Callers, Begin(c) PROVE \A d \in Callers : PathOf(d)'
    BY <1>1 DEF Begin, Initialises, IInv, TypeOK, Knowledge, Paths, PathOf, files, Goes, Learns
  <1>2. ASSUME NEW c \in Callers, OpenConfig(c) PROVE \A d \in Callers : PathOf(d)'
    <2> DEFINE p == IF knows[c].kind = "use" THEN config.default ELSE Target(c)
    <2>1. CASE Readable(config)
      <3>1. p \in Profiles
        BY <2>1, Knows DEF IInv
      <3>2. pc' = [pc EXCEPT ![c] = "openProfile"] /\ knows' = [knows EXCEPT ![c].opens = p]
        BY <1>2, <2>1 DEF OpenConfig, Goes, Learns
      <3> HIDE DEF p
      <3>3. QED
        BY <1>2, <3>1, <3>2
        DEF OpenConfig, IInv, TypeOK, Knowledge, Paths, PathOf, files, Goes, Learns
    <2>2. CASE ~Readable(config)
      BY <1>2, <2>2 DEF OpenConfig, IInv, TypeOK, Knowledge, Paths, PathOf, files, Goes, Learns
    <2>3. QED
      BY <2>1, <2>2
  <1>3. ASSUME NEW c \in Callers, OpenProfile(c) PROVE \A d \in Callers : PathOf(d)'
    <2>1. Opened(c)
      BY <1>3, Opens DEF IInv
    <2>5. ASSUME NEW d \in Callers, d # c PROVE PathOf(d)'
      <3>1. pc'[d] = pc[d] /\ knows'[d] = knows[d]
        BY <2>1, <2>5 DEF BeginImport, Opened, Reading, Goes, Learns, TypeOK, IInv
      <3>2. QED
        BY <3>1 DEF IInv, Paths, PathOf
    <2>6. CASE pc' = [pc EXCEPT ![c] = "failed"] /\ knows' = knows
      BY <2>6, <2>1
      DEF BeginImport, Opened, Reading, IInv, TypeOK, Knowledge, Paths, PathOf, Goes, Learns
    <2>7. CASE \E f \in ProfileFiles : pc' = [pc EXCEPT ![c] = "identity"] /\ knows' = [knows EXCEPT ![c].profile = f]
      BY <2>7, <2>1
      DEF BeginImport, Opened, Reading, IInv, TypeOK, Knowledge, Paths, PathOf, Goes, Learns
    <2>8. QED
      BY <2>1, <2>5, <2>6, <2>7 DEF BeginImport, Opened, Reading
  <1>4. ASSUME NEW c \in Callers, ReadConfig(c) PROVE \A d \in Callers : PathOf(d)'
    BY <1>4 DEF ReadConfig, IInv, TypeOK, Knowledge, Paths, PathOf, files, Goes, Learns
  <1>5. ASSUME NEW c \in Callers, WriteConfig(c) PROVE \A d \in Callers : PathOf(d)'
    BY <1>5 DEF WriteConfig, IInv, TypeOK, Knowledge, Paths, PathOf, files, Goes, Learns
  <1>6. ASSUME NEW c \in Callers, ReadProfile(c) PROVE \A d \in Callers : PathOf(d)'
    BY <1>6
    DEF ReadProfile, Readable, Target, IInv, TypeOK, Knowledge, Paths, PathOf, files, Goes, Learns
  <1>7. ASSUME NEW c \in Callers, WriteProfile(c) PROVE \A d \in Callers : PathOf(d)'
    BY <1>7
    DEF WriteProfile, Fresh, ProfileFiles, IInv, TypeOK, Knowledge, Paths, PathOf, files, Goes,
      Learns
  <1>8. ASSUME NEW c \in Callers, Scaffold(c) PROVE \A d \in Callers : PathOf(d)'
    BY <1>8 DEF Scaffold, IInv, TypeOK, Knowledge, Paths, PathOf, files, Goes, Learns
  <1>9. ASSUME NEW c \in Callers, ReadIdentity(c) PROVE \A d \in Callers : PathOf(d)'
    <2>1. Reading(c)
      BY <1>9, Reads DEF IInv
    <2>2. TypeOK /\ PathOf(c)
      BY DEF IInv, Paths
    <2>5. ASSUME NEW d \in Callers, d # c PROVE PathOf(d)'
      <3>1. pc'[d] = pc[d] /\ knows'[d] = knows[d]
        BY <2>1, <2>5 DEF BeginImport, Opened, Reading, Goes, Learns, TypeOK, IInv
      <3>2. QED
        BY <3>1 DEF IInv, Paths, PathOf
    <2>6. CASE pc' = [pc EXCEPT ![c] = "mint"] /\ knows' = knows
      BY <2>6, <2>1
      DEF BeginImport, Opened, Reading, IInv, TypeOK, Knowledge, Paths, PathOf, Goes, Learns
    <2>7. CASE pc' = [pc EXCEPT ![c] = AfterIdentity(c)] /\ knows' = [knows EXCEPT ![c].id = identity.id]
      <3>1. /\ pc'[c] = AfterIdentity(c) /\ knows'[c].kind = knows[c].kind /\ knows'[c].profile = knows[c].profile
            /\ knows'[c].left = knows[c].left /\ knows'[c].at = knows[c].at /\ knows'[c].named = knows[c].named
        BY <2>2, <2>7 DEF TypeOK, Knowledge
      <3>2. ~knows[c].named /\ (knows[c].kind = "import" \/ knows[c].profile \in ProfileFiles)
        BY <2>1, <2>2 DEF Reading, PathOf
      <3>3. /\ AfterIdentity(c) \in {"saveConfig", "attributes", "done", "touch"}
            /\ AfterIdentity(c) = "saveConfig" => knows[c].kind = "use"
            /\ AfterIdentity(c) = "attributes" => knows[c].kind = "connect"
            /\ AfterIdentity(c) = "touch" => knows[c].kind \in {"init", "create", "rename"}
        BY <2>2, After
      <3>4. QED
        BY <2>2, <2>5, <3>1, <3>2, <3>3 DEF PathOf
    <2>8. QED
      BY <2>1, <2>5, <2>6, <2>7 DEF BeginImport, Opened, Reading
  <1>10. ASSUME NEW c \in Callers, MintIdentity(c) PROVE \A d \in Callers : PathOf(d)'
    <2>1. TypeOK
      BY DEF IInv
    <2>2. Minted(c)
      BY <1>10, <2>1, Mints
    <2>3. /\ AfterIdentity(c) \in {"saveConfig", "attributes", "done", "touch"}
          /\ AfterIdentity(c) = "saveConfig" => knows[c].kind = "use"
          /\ AfterIdentity(c) = "attributes" => knows[c].kind = "connect"
          /\ AfterIdentity(c) = "done" => knows[c].kind = "import"
          /\ AfterIdentity(c) = "touch" => knows[c].kind \in {"init", "create", "rename"}
      BY <2>1, After
    <2>4. QED
      BY <2>2, <2>3 DEF Minted, IInv, TypeOK, Knowledge, Paths, PathOf, files, Goes, Learns
  <1>11. ASSUME NEW c \in Callers, TouchMachine(c) PROVE \A d \in Callers : PathOf(d)'
    <2>1. PICK named \in BOOLEAN, label \in {"touch", "offer", "attributes", "done"} : TouchedBy(c, named, label)
      BY <1>11, Touches DEF IInv
    <2>2. QED
      BY <2>1 DEF TouchedBy, IInv, TypeOK, Knowledge, Paths, PathOf, files, Goes, Learns
  <1>12. ASSUME NEW c \in Callers, OfferSync(c) PROVE \A d \in Callers : PathOf(d)'
    BY <1>12 DEF OfferSync, IInv, TypeOK, Knowledge, Paths, PathOf, files, Goes, Learns
  <1>13. ASSUME NEW c \in Callers, WriteAttributes(c) PROVE \A d \in Callers : PathOf(d)'
    BY <1>13 DEF WriteAttributes, IInv, TypeOK, Knowledge, Paths, PathOf, files, Goes, Learns
  <1>14. ASSUME NEW c \in Callers, SaveProfile(c) PROVE \A d \in Callers : PathOf(d)'
    BY <1>14 DEF SaveProfile, IInv, TypeOK, Knowledge, Paths, PathOf, files, Goes, Learns
  <1>15. ASSUME NEW c \in Callers, SaveConfig(c) PROVE \A d \in Callers : PathOf(d)'
    BY <1>15 DEF SaveConfig, IInv, TypeOK, Knowledge, Paths, PathOf, files, Goes, Learns
  <1>16. ASSUME NEW c \in Callers, BeginImport(c) PROVE \A d \in Callers : PathOf(d)'
    <2>5. ASSUME NEW d \in Callers, d # c PROVE PathOf(d)'
      <3>1. pc'[d] = pc[d] /\ knows'[d] = knows[d]
        BY <1>16, <2>5 DEF BeginImport, Opened, Reading, Goes, Learns, TypeOK, IInv
      <3>2. QED
        BY <3>1 DEF IInv, Paths, PathOf
    <2>6. CASE Goes(c, "done") /\ UNCHANGED knows
      BY <2>6, <1>16
      DEF BeginImport, Opened, Reading, IInv, TypeOK, Knowledge, Paths, PathOf, Goes, Learns
    <2>7. CASE Goes(c, "failed") /\ UNCHANGED knows
      BY <2>7, <1>16
      DEF BeginImport, Opened, Reading, IInv, TypeOK, Knowledge, Paths, PathOf, Goes, Learns
    <2>8. CASE Goes(c, "restore") /\ Learns(c, "left", Exported)
      BY <2>8, <1>16
      DEF BeginImport, Opened, Reading, IInv, TypeOK, Knowledge, Paths, PathOf, Goes, Learns
    <2>9. QED
      BY <1>16, <2>5, <2>6, <2>7, <2>8 DEF BeginImport, Opened, Reading
  <1>17. ASSUME NEW c \in Callers, MakeWay(c) PROVE \A d \in Callers : PathOf(d)'
    <2>1. PICK part \in Parts : MadeWay(c, part)
      BY <1>17, MakesWay DEF IInv
    <2>2. QED
      BY <2>1 DEF MadeWay, ReplacesOnly, IInv, TypeOK, Knowledge, Paths, PathOf, files, Goes, Learns
  <1>18. ASSUME NEW c \in Callers, CopyFile(c) PROVE \A d \in Callers : PathOf(d)'
    <2>1. PICK part \in Parts : Copied(c, part)
      BY <1>18, Copies DEF IInv
    <2>2. QED
      BY <2>1 DEF Copied, ReplacesOnly, IInv, TypeOK, Knowledge, Paths, PathOf, files, Goes, Learns
  <1>19. ASSUME NEW c \in Callers, Die(c) PROVE \A d \in Callers : PathOf(d)'
    BY <1>19 DEF Die, IInv, TypeOK, Knowledge, Paths, PathOf, files, Goes, Learns
  <1>20. CASE Damage
    <2>1. Damaged
      BY <1>20, Damages DEF IInv
    <2>2. QED
      BY <2>1 DEF Damaged, SameProfiles, IInv, TypeOK, Knowledge, Paths, PathOf, files, Goes, Learns
  <1>21. CASE Mend
    <2>1. MendsOnly
      BY <1>21, Mends DEF IInv
    <2>2. QED
      BY <2>1
      DEF MendsOnly, SameProfiles, IInv, TypeOK, Knowledge, Paths, PathOf, files, Goes, Learns
  <1>22. CASE UNCHANGED vars
    BY <1>22 DEF vars, IInv, TypeOK, Knowledge, Paths, PathOf, files, Goes, Learns
  <1>23. QED
    BY <1>1, <1>2, <1>3, <1>4, <1>5, <1>6, <1>7, <1>8, <1>9, <1>10, <1>11, <1>12, <1>13, <1>14,
       <1>15, <1>16, <1>17, <1>18, <1>19, <1>20, <1>21, <1>22
    DEF Next, CommandStep

LEMMA AttributesKept == IInv /\ [Next]_vars => AttributesFirst'
  <1> SUFFICES ASSUME IInv, [Next]_vars PROVE AttributesFirst'
    OBVIOUS
  <1> USE Constants
  <1>1. ASSUME NEW c \in Callers, Begin(c) PROVE AttributesFirst'
    BY <1>1
    DEF Begin, IInv, TypeOK, Knowledge, AttributesFirst, UnderWay, files, Goes, Learns, Target
  <1>2. ASSUME NEW c \in Callers, OpenConfig(c) PROVE AttributesFirst'
    BY <1>2
    DEF OpenConfig, IInv, TypeOK, Knowledge, AttributesFirst, UnderWay, files, Goes, Learns, Target
  <1>3. ASSUME NEW c \in Callers, OpenProfile(c) PROVE AttributesFirst'
    <2>1. Opened(c)
      BY <1>3, Opens DEF IInv
    <2>2. QED
      BY <2>1
      DEF Opened, IInv, TypeOK, Knowledge, AttributesFirst, UnderWay, files, Goes, Learns, Target
  <1>4. ASSUME NEW c \in Callers, ReadConfig(c) PROVE AttributesFirst'
    BY <1>4
    DEF ReadConfig, IInv, TypeOK, Knowledge, AttributesFirst, UnderWay, files, Goes, Learns, Target
  <1>5. ASSUME NEW c \in Callers, WriteConfig(c) PROVE AttributesFirst'
    BY <1>5
    DEF WriteConfig, IInv, TypeOK, Knowledge, AttributesFirst, UnderWay, files, Goes, Learns,
      Target
  <1>6. ASSUME NEW c \in Callers, ReadProfile(c) PROVE AttributesFirst'
    BY <1>6
    DEF ReadProfile, IInv, TypeOK, Knowledge, AttributesFirst, UnderWay, files, Goes, Learns,
      Target
  <1>7. ASSUME NEW c \in Callers, WriteProfile(c) PROVE AttributesFirst'
    BY <1>7
    DEF WriteProfile, Fresh, ProfileFiles, IInv, TypeOK, Knowledge, AttributesFirst, UnderWay,
      files, Goes, Learns, Target
  <1>8. ASSUME NEW c \in Callers, Scaffold(c) PROVE AttributesFirst'
    BY <1>8
    DEF Scaffold, IInv, TypeOK, Knowledge, AttributesFirst, UnderWay, files, Goes, Learns, Target
  <1>9. ASSUME NEW c \in Callers, ReadIdentity(c) PROVE AttributesFirst'
    <2>1. TypeOK
      BY DEF IInv
    <2>2. Reading(c)
      BY <1>9, <2>1, Reads
    <2>3. /\ AfterIdentity(c) \in {"saveConfig", "attributes", "done", "touch"}
          /\ AfterIdentity(c) = "saveConfig" => knows[c].kind = "use"
          /\ AfterIdentity(c) = "attributes" => knows[c].kind = "connect"
          /\ AfterIdentity(c) = "done" => knows[c].kind = "import"
          /\ AfterIdentity(c) = "touch" => knows[c].kind \in {"init", "create", "rename"}
      BY <2>1, After
    <2>4. QED
      BY <2>2, <2>3
      DEF Reading, IInv, TypeOK, Knowledge, AttributesFirst, UnderWay, files, Goes, Learns, Target
  <1>10. ASSUME NEW c \in Callers, MintIdentity(c) PROVE AttributesFirst'
    <2>1. TypeOK
      BY DEF IInv
    <2>2. Minted(c)
      BY <1>10, <2>1, Mints
    <2>3. /\ AfterIdentity(c) \in {"saveConfig", "attributes", "done", "touch"}
          /\ AfterIdentity(c) = "saveConfig" => knows[c].kind = "use"
          /\ AfterIdentity(c) = "attributes" => knows[c].kind = "connect"
          /\ AfterIdentity(c) = "done" => knows[c].kind = "import"
          /\ AfterIdentity(c) = "touch" => knows[c].kind \in {"init", "create", "rename"}
      BY <2>1, After
    <2>4. QED
      BY <2>2, <2>3
      DEF Minted, IInv, TypeOK, Knowledge, AttributesFirst, UnderWay, files, Goes, Learns, Target
  <1>11. ASSUME NEW c \in Callers, TouchMachine(c) PROVE AttributesFirst'
    <2>1. PICK named \in BOOLEAN, label \in {"touch", "offer", "attributes", "done"} : TouchedBy(c, named, label)
      BY <1>11, Touches DEF IInv
    <2>2. QED
      BY <2>1
      DEF TouchedBy, IInv, TypeOK, Knowledge, AttributesFirst, UnderWay, files, Goes, Learns,
        Target
  <1>12. ASSUME NEW c \in Callers, OfferSync(c) PROVE AttributesFirst'
    BY <1>12
    DEF OfferSync, IInv, TypeOK, Knowledge, AttributesFirst, UnderWay, files, Goes, Learns, Target
  <1>13. ASSUME NEW c \in Callers, WriteAttributes(c) PROVE AttributesFirst'
    BY <1>13
    DEF WriteAttributes, IInv, TypeOK, Knowledge, AttributesFirst, UnderWay, files, Goes, Learns,
      Target
  <1>14. ASSUME NEW c \in Callers, SaveProfile(c) PROVE AttributesFirst'
    BY <1>14
    DEF SaveProfile, Connected, ProfileFiles, IInv, TypeOK, Knowledge, AttributesFirst, UnderWay,
      files, Goes, Learns, Target
  <1>15. ASSUME NEW c \in Callers, SaveConfig(c) PROVE AttributesFirst'
    BY <1>15
    DEF SaveConfig, IInv, TypeOK, Knowledge, AttributesFirst, UnderWay, files, Goes, Learns, Target
  <1>16. ASSUME NEW c \in Callers, BeginImport(c) PROVE AttributesFirst'
    BY <1>16, ExportedMeans
    DEF BeginImport, IInv, TypeOK, Knowledge, AttributesFirst, UnderWay, files, Goes, Learns,
      Target
  <1>17. ASSUME NEW c \in Callers, MakeWay(c) PROVE AttributesFirst'
    <2>1. PICK part \in Parts : MadeWay(c, part)
      BY <1>17, MakesWay DEF IInv
    <2>2. QED
      BY <2>1
      DEF MadeWay, ReplacesOnly, IInv, TypeOK, Knowledge, AttributesFirst, UnderWay, files, Goes,
        Learns, Target
  <1>18. ASSUME NEW c \in Callers, CopyFile(c) PROVE AttributesFirst'
    <2>1. PICK part \in Parts : Copied(c, part)
      BY <1>18, Copies DEF IInv
    <2>2. ASSUME NEW d \in Callers
          PROVE Target(d)' = Target(d) /\ (d # c => pc'[d] = pc[d] /\ knows'[d] = knows[d])
      BY <2>1 DEF Copied, IInv, TypeOK, Knowledge, Target
    <2>3. Target(c) \in Profiles /\ part \in knows[c].left /\ pc[c] = "restore"
      BY <2>1, Knows DEF Copied, IInv
    <2>4. ASSUME NEW p \in Profiles, p # Target(c),
                 (\/ profile[p] # NoFile /\ profile[p].sync
                  \/ \E d \in Callers : pc[d] \in {"saveProfile", "restore"} /\ Target(d) = p)'
          PROVE p \in attributes' \/ UnderWay(p)'
      <3>1. profile'[p] = profile[p] /\ (p \in attributes => p \in attributes')
        BY <2>1, <2>4 DEF Copied, ReplacesOnly
      <3>2. p \in attributes \/ UnderWay(p)
        BY <2>2, <2>4, <3>1 DEF IInv, AttributesFirst
      <3>3. UnderWay(p) => UnderWay(p)'
        BY <2>2, <2>4 DEF UnderWay
      <3>4. QED
        BY <3>1, <3>2, <3>3
    <2>5. Target(c) \in attributes' \/ UnderWay(Target(c))'
      <3>1. CASE part = "attributes"
        BY <2>1, <3>1 DEF Copied, ReplacesOnly
      <3>2. CASE part # "attributes"
        <4>1. attributes' = attributes
          BY <2>1, <3>2 DEF Copied, ReplacesOnly
        <4>2. Target(c) \in attributes \/ UnderWay(Target(c))
          BY <2>3 DEF IInv, AttributesFirst
        <4>3. "attributes" \in knows[c].left => pc'[c] = "restore" /\ "attributes" \in knows'[c].left
          BY <2>1, <3>2 DEF Copied, IInv, TypeOK, Knowledge
        <4>4. ASSUME NEW d \in Callers, pc[d] \in {"restore", "dead"}, Target(d) = Target(c), "attributes" \in knows[d].left
              PROVE UnderWay(Target(c))'
          BY <2>2, <4>3, <4>4 DEF UnderWay
        <4>5. QED
          BY <4>1, <4>2, <4>4 DEF UnderWay
      <3>3. QED
        BY <3>1, <3>2
    <2>6. QED
      BY <2>2, <2>4, <2>5 DEF AttributesFirst
  <1>19. ASSUME NEW c \in Callers, Die(c) PROVE AttributesFirst'
    BY <1>19
    DEF Die, IInv, TypeOK, Knowledge, AttributesFirst, UnderWay, files, Goes, Learns, Target
  <1>20. CASE Damage
    <2>1. Damaged
      BY <1>20, Damages DEF IInv
    <2>2. QED
      BY <2>1
      DEF Damaged, SameProfiles, IInv, TypeOK, Knowledge, AttributesFirst, UnderWay, files, Goes,
        Learns, Target
  <1>21. CASE Mend
    <2>1. MendsOnly
      BY <1>21, Mends DEF IInv
    <2>2. QED
      BY <2>1
      DEF MendsOnly, SameProfiles, IInv, TypeOK, Knowledge, AttributesFirst, UnderWay, files, Goes,
        Learns, Target
  <1>22. CASE UNCHANGED vars
    BY <1>22
    DEF vars, IInv, TypeOK, Knowledge, AttributesFirst, UnderWay, files, Goes, Learns, Target
  <1>23. QED
    BY <1>1, <1>2, <1>3, <1>4, <1>5, <1>6, <1>7, <1>8, <1>9, <1>10, <1>11, <1>12, <1>13, <1>14,
       <1>15, <1>16, <1>17, <1>18, <1>19, <1>20, <1>21, <1>22
    DEF Next, CommandStep

LEMMA IdKept == IInv /\ [Next]_vars => IdCurrent'
  <1> SUFFICES ASSUME IInv, [Next]_vars PROVE IdCurrent'
    OBVIOUS
  <1> USE Constants
  <1>1. ASSUME NEW c \in Callers, Begin(c) PROVE IdCurrent'
    BY <1>1 DEF Begin, IInv, TypeOK, Knowledge, IdCurrent, files, Goes, Learns, Target
  <1>2. ASSUME NEW c \in Callers, OpenConfig(c) PROVE IdCurrent'
    BY <1>2 DEF OpenConfig, IInv, TypeOK, Knowledge, IdCurrent, files, Goes, Learns, Target
  <1>3. ASSUME NEW c \in Callers, OpenProfile(c) PROVE IdCurrent'
    <2>1. Opened(c)
      BY <1>3, Opens DEF IInv
    <2>2. QED
      BY <2>1 DEF Opened, IInv, TypeOK, Knowledge, IdCurrent, files, Goes, Learns, Target
  <1>4. ASSUME NEW c \in Callers, ReadConfig(c) PROVE IdCurrent'
    BY <1>4 DEF ReadConfig, IInv, TypeOK, Knowledge, IdCurrent, files, Goes, Learns, Target
  <1>5. ASSUME NEW c \in Callers, WriteConfig(c) PROVE IdCurrent'
    BY <1>5 DEF WriteConfig, IInv, TypeOK, Knowledge, IdCurrent, files, Goes, Learns, Target
  <1>6. ASSUME NEW c \in Callers, ReadProfile(c) PROVE IdCurrent'
    BY <1>6 DEF ReadProfile, IInv, TypeOK, Knowledge, IdCurrent, files, Goes, Learns, Target
  <1>7. ASSUME NEW c \in Callers, WriteProfile(c) PROVE IdCurrent'
    BY <1>7 DEF WriteProfile, IInv, TypeOK, Knowledge, IdCurrent, files, Goes, Learns, Target
  <1>8. ASSUME NEW c \in Callers, Scaffold(c) PROVE IdCurrent'
    BY <1>8 DEF Scaffold, IInv, TypeOK, Knowledge, IdCurrent, files, Goes, Learns, Target
  <1>9. ASSUME NEW c \in Callers, ReadIdentity(c) PROVE IdCurrent'
    <2>1. TypeOK
      BY DEF IInv
    <2>2. Reading(c)
      BY <1>9, <2>1, Reads
    <2>3. /\ AfterIdentity(c) \in {"saveConfig", "attributes", "done", "touch"}
          /\ AfterIdentity(c) = "saveConfig" => knows[c].kind = "use"
          /\ AfterIdentity(c) = "attributes" => knows[c].kind = "connect"
          /\ AfterIdentity(c) = "done" => knows[c].kind = "import"
          /\ AfterIdentity(c) = "touch" => knows[c].kind \in {"init", "create", "rename"}
      BY <2>1, After
    <2>4. QED
      BY <2>2, <2>3 DEF Reading, IInv, TypeOK, Knowledge, IdCurrent, files, Goes, Learns, Target
  <1>10. ASSUME NEW c \in Callers, MintIdentity(c) PROVE IdCurrent'
    <2>1. TypeOK
      BY DEF IInv
    <2>2. Minted(c)
      BY <1>10, <2>1, Mints
    <2>3. /\ AfterIdentity(c) \in {"saveConfig", "attributes", "done", "touch"}
          /\ AfterIdentity(c) = "saveConfig" => knows[c].kind = "use"
          /\ AfterIdentity(c) = "attributes" => knows[c].kind = "connect"
          /\ AfterIdentity(c) = "done" => knows[c].kind = "import"
          /\ AfterIdentity(c) = "touch" => knows[c].kind \in {"init", "create", "rename"}
      BY <2>1, After
    <2>4. QED
      BY <2>2, <2>3 DEF Minted, IInv, TypeOK, Knowledge, IdCurrent, files, Goes, Learns, Target
  <1>11. ASSUME NEW c \in Callers, TouchMachine(c) PROVE IdCurrent'
    <2>1. PICK named \in BOOLEAN, label \in {"touch", "offer", "attributes", "done"} : TouchedBy(c, named, label)
      BY <1>11, Touches DEF IInv
    <2>2. QED
      BY <2>1 DEF TouchedBy, IInv, TypeOK, Knowledge, IdCurrent, files, Goes, Learns, Target
  <1>12. ASSUME NEW c \in Callers, OfferSync(c) PROVE IdCurrent'
    BY <1>12 DEF OfferSync, IInv, TypeOK, Knowledge, IdCurrent, files, Goes, Learns, Target
  <1>13. ASSUME NEW c \in Callers, WriteAttributes(c) PROVE IdCurrent'
    BY <1>13 DEF WriteAttributes, IInv, TypeOK, Knowledge, IdCurrent, files, Goes, Learns, Target
  <1>14. ASSUME NEW c \in Callers, SaveProfile(c) PROVE IdCurrent'
    BY <1>14 DEF SaveProfile, IInv, TypeOK, Knowledge, IdCurrent, files, Goes, Learns, Target
  <1>15. ASSUME NEW c \in Callers, SaveConfig(c) PROVE IdCurrent'
    BY <1>15 DEF SaveConfig, IInv, TypeOK, Knowledge, IdCurrent, files, Goes, Learns, Target
  <1>16. ASSUME NEW c \in Callers, BeginImport(c) PROVE IdCurrent'
    BY <1>16 DEF BeginImport, IInv, TypeOK, Knowledge, IdCurrent, files, Goes, Learns, Target
  <1>17. ASSUME NEW c \in Callers, MakeWay(c) PROVE IdCurrent'
    <2>1. PICK part \in Parts : MadeWay(c, part)
      BY <1>17, MakesWay DEF IInv
    <2>2. QED
      BY <2>1
      DEF MadeWay, ReplacesOnly, IInv, TypeOK, Knowledge, IdCurrent, files, Goes, Learns, Target
  <1>18. ASSUME NEW c \in Callers, CopyFile(c) PROVE IdCurrent'
    <2>1. PICK part \in Parts : Copied(c, part)
      BY <1>18, Copies DEF IInv
    <2>2. QED
      BY <2>1
      DEF Copied, ReplacesOnly, IInv, TypeOK, Knowledge, IdCurrent, files, Goes, Learns, Target
  <1>19. ASSUME NEW c \in Callers, Die(c) PROVE IdCurrent'
    BY <1>19 DEF Die, IInv, TypeOK, Knowledge, IdCurrent, files, Goes, Learns, Target
  <1>20. CASE Damage
    <2>1. Damaged
      BY <1>20, Damages DEF IInv
    <2>2. QED
      BY <2>1
      DEF Damaged, SameProfiles, IInv, TypeOK, Knowledge, IdCurrent, files, Goes, Learns, Target
  <1>21. CASE Mend
    <2>1. MendsOnly
      BY <1>21, Mends DEF IInv
    <2>2. QED
      BY <2>1
      DEF MendsOnly, SameProfiles, IInv, TypeOK, Knowledge, IdCurrent, files, Goes, Learns, Target
  <1>22. CASE UNCHANGED vars
    BY <1>22 DEF vars, IInv, TypeOK, Knowledge, IdCurrent, files, Goes, Learns, Target
  <1>23. QED
    BY <1>1, <1>2, <1>3, <1>4, <1>5, <1>6, <1>7, <1>8, <1>9, <1>10, <1>11, <1>12, <1>13, <1>14,
       <1>15, <1>16, <1>17, <1>18, <1>19, <1>20, <1>21, <1>22
    DEF Next, CommandStep

LEMMA TouchedKept == IInv /\ [Next]_vars => Touched'
  <1> SUFFICES ASSUME IInv, [Next]_vars PROVE Touched'
    OBVIOUS
  <1> USE Constants
  <1>1. ASSUME NEW c \in Callers, Begin(c) PROVE Touched'
    BY <1>1 DEF Begin, IInv, TypeOK, Knowledge, Paths, PathOf, Touched, files, Goes, Learns, Target
  <1>2. ASSUME NEW c \in Callers, OpenConfig(c) PROVE Touched'
    BY <1>2
    DEF OpenConfig, IInv, TypeOK, Knowledge, Paths, PathOf, Touched, files, Goes, Learns, Target
  <1>3. ASSUME NEW c \in Callers, OpenProfile(c) PROVE Touched'
    <2>1. Opened(c)
      BY <1>3, Opens DEF IInv
    <2>2. QED
      BY <2>1
      DEF Opened, IInv, TypeOK, Knowledge, Paths, PathOf, Touched, files, Goes, Learns, Target
  <1>4. ASSUME NEW c \in Callers, ReadConfig(c) PROVE Touched'
    BY <1>4
    DEF ReadConfig, IInv, TypeOK, Knowledge, Paths, PathOf, Touched, files, Goes, Learns, Target
  <1>5. ASSUME NEW c \in Callers, WriteConfig(c) PROVE Touched'
    BY <1>5
    DEF WriteConfig, IInv, TypeOK, Knowledge, Paths, PathOf, Touched, files, Goes, Learns, Target
  <1>6. ASSUME NEW c \in Callers, ReadProfile(c) PROVE Touched'
    BY <1>6
    DEF ReadProfile, IInv, TypeOK, Knowledge, Paths, PathOf, Touched, files, Goes, Learns, Target
  <1>7. ASSUME NEW c \in Callers, WriteProfile(c) PROVE Touched'
    BY <1>7
    DEF WriteProfile, IInv, TypeOK, Knowledge, Paths, PathOf, Touched, files, Goes, Learns, Target
  <1>8. ASSUME NEW c \in Callers, Scaffold(c) PROVE Touched'
    BY <1>8
    DEF Scaffold, IInv, TypeOK, Knowledge, Paths, PathOf, Touched, files, Goes, Learns, Target
  <1>9. ASSUME NEW c \in Callers, ReadIdentity(c) PROVE Touched'
    <2>1. TypeOK
      BY DEF IInv
    <2>2. Reading(c)
      BY <1>9, <2>1, Reads
    <2>3. /\ AfterIdentity(c) \in {"saveConfig", "attributes", "done", "touch"}
          /\ AfterIdentity(c) = "saveConfig" => knows[c].kind = "use"
          /\ AfterIdentity(c) = "attributes" => knows[c].kind = "connect"
          /\ AfterIdentity(c) = "done" => knows[c].kind = "import"
          /\ AfterIdentity(c) = "touch" => knows[c].kind \in {"init", "create", "rename"}
      BY <2>1, After
    <2>4. QED
      BY <2>2, <2>3
      DEF Reading, IInv, TypeOK, Knowledge, Paths, PathOf, Touched, files, Goes, Learns, Target
  <1>10. ASSUME NEW c \in Callers, MintIdentity(c) PROVE Touched'
    <2>1. TypeOK
      BY DEF IInv
    <2>2. Minted(c)
      BY <1>10, <2>1, Mints
    <2>3. /\ AfterIdentity(c) \in {"saveConfig", "attributes", "done", "touch"}
          /\ AfterIdentity(c) = "saveConfig" => knows[c].kind = "use"
          /\ AfterIdentity(c) = "attributes" => knows[c].kind = "connect"
          /\ AfterIdentity(c) = "done" => knows[c].kind = "import"
          /\ AfterIdentity(c) = "touch" => knows[c].kind \in {"init", "create", "rename"}
      BY <2>1, After
    <2>4. QED
      BY <2>2, <2>3
      DEF Minted, IInv, TypeOK, Knowledge, Paths, PathOf, Touched, files, Goes, Learns, Target
  <1>11. ASSUME NEW c \in Callers, TouchMachine(c) PROVE Touched'
    <2>1. PICK named \in BOOLEAN, label \in {"touch", "offer", "attributes", "done"} : TouchedBy(c, named, label)
      BY <1>11, Touches DEF IInv
    <2>2. TypeOK /\ knows[c] \in Knowledge /\ Target(c) \in Profiles
      BY Knows DEF IInv
    <2>3. \A q \in Profiles : machine[q] \subseteq machine'[q]
      BY <2>1, <2>2 DEF TouchedBy, TypeOK
    <2>4. knows[c].id \in machine'[Target(c)] \ {Elsewhere}
      BY <2>1, <2>2 DEF TouchedBy, TypeOK, Knowledge
    <2>5. ASSUME NEW d \in Callers
          PROVE /\ Target(d)' = Target(d) /\ Target(d) \in Profiles /\ knows'[d].kind = knows[d].kind
                /\ d # c => pc'[d] = pc[d] /\ knows'[d] = knows[d]
      BY <2>1, <2>2 DEF TouchedBy, TypeOK, Knowledge, Target
    <2>6. QED
      BY <2>3, <2>4, <2>5 DEF Touched, IInv
  <1>12. ASSUME NEW c \in Callers, OfferSync(c) PROVE Touched'
    BY <1>12
    DEF OfferSync, IInv, TypeOK, Knowledge, Paths, PathOf, Touched, files, Goes, Learns, Target
  <1>13. ASSUME NEW c \in Callers, WriteAttributes(c) PROVE Touched'
    BY <1>13
    DEF WriteAttributes, IInv, TypeOK, Knowledge, Paths, PathOf, Touched, files, Goes, Learns,
      Target
  <1>14. ASSUME NEW c \in Callers, SaveProfile(c) PROVE Touched'
    BY <1>14
    DEF SaveProfile, IInv, TypeOK, Knowledge, Paths, PathOf, Touched, files, Goes, Learns, Target
  <1>15. ASSUME NEW c \in Callers, SaveConfig(c) PROVE Touched'
    BY <1>15
    DEF SaveConfig, IInv, TypeOK, Knowledge, Paths, PathOf, Touched, files, Goes, Learns, Target
  <1>16. ASSUME NEW c \in Callers, BeginImport(c) PROVE Touched'
    BY <1>16
    DEF BeginImport, IInv, TypeOK, Knowledge, Paths, PathOf, Touched, files, Goes, Learns, Target
  <1>17. ASSUME NEW c \in Callers, MakeWay(c) PROVE Touched'
    <2>1. PICK part \in Parts : MadeWay(c, part)
      BY <1>17, MakesWay DEF IInv
    <2>2. QED
      BY <2>1
      DEF MadeWay, ReplacesOnly, IInv, TypeOK, Knowledge, Paths, PathOf, Touched, files, Goes,
        Learns, Target
  <1>18. ASSUME NEW c \in Callers, CopyFile(c) PROVE Touched'
    <2>1. PICK part \in Parts : Copied(c, part)
      BY <1>18, Copies DEF IInv
    <2>2. QED
      BY <2>1
      DEF Copied, ReplacesOnly, IInv, TypeOK, Knowledge, Paths, PathOf, Touched, files, Goes,
        Learns, Target
  <1>19. ASSUME NEW c \in Callers, Die(c) PROVE Touched'
    BY <1>19 DEF Die, IInv, TypeOK, Knowledge, Paths, PathOf, Touched, files, Goes, Learns, Target
  <1>20. CASE Damage
    <2>1. Damaged
      BY <1>20, Damages DEF IInv
    <2>2. QED
      BY <2>1
      DEF Damaged, SameProfiles, IInv, TypeOK, Knowledge, Paths, PathOf, Touched, files, Goes,
        Learns, Target
  <1>21. CASE Mend
    <2>1. MendsOnly
      BY <1>21, Mends DEF IInv
    <2>2. QED
      BY <2>1
      DEF MendsOnly, SameProfiles, IInv, TypeOK, Knowledge, Paths, PathOf, Touched, files, Goes,
        Learns, Target
  <1>22. CASE UNCHANGED vars
    BY <1>22 DEF vars, IInv, TypeOK, Knowledge, Paths, PathOf, Touched, files, Goes, Learns, Target
  <1>23. QED
    BY <1>1, <1>2, <1>3, <1>4, <1>5, <1>6, <1>7, <1>8, <1>9, <1>10, <1>11, <1>12, <1>13, <1>14,
       <1>15, <1>16, <1>17, <1>18, <1>19, <1>20, <1>21, <1>22
    DEF Next, CommandStep

LEMMA OneIdKept == IInv /\ [Next]_vars => OneId'
  <1> SUFFICES ASSUME IInv, [Next]_vars PROVE OneId'
    OBVIOUS
  <1> USE Constants
  <1>1. ASSUME NEW c \in Callers, Begin(c) PROVE OneId'
    BY <1>1 DEF Begin, IInv, TypeOK, Knowledge, IdCurrent, OneId, files, Goes, Learns, Target
  <1>2. ASSUME NEW c \in Callers, OpenConfig(c) PROVE OneId'
    BY <1>2 DEF OpenConfig, IInv, TypeOK, Knowledge, IdCurrent, OneId, files, Goes, Learns, Target
  <1>3. ASSUME NEW c \in Callers, OpenProfile(c) PROVE OneId'
    <2>1. Opened(c)
      BY <1>3, Opens DEF IInv
    <2>2. QED
      BY <2>1 DEF Opened, IInv, TypeOK, Knowledge, IdCurrent, OneId, files, Goes, Learns, Target
  <1>4. ASSUME NEW c \in Callers, ReadConfig(c) PROVE OneId'
    BY <1>4 DEF ReadConfig, IInv, TypeOK, Knowledge, IdCurrent, OneId, files, Goes, Learns, Target
  <1>5. ASSUME NEW c \in Callers, WriteConfig(c) PROVE OneId'
    BY <1>5 DEF WriteConfig, IInv, TypeOK, Knowledge, IdCurrent, OneId, files, Goes, Learns, Target
  <1>6. ASSUME NEW c \in Callers, ReadProfile(c) PROVE OneId'
    BY <1>6 DEF ReadProfile, IInv, TypeOK, Knowledge, IdCurrent, OneId, files, Goes, Learns, Target
  <1>7. ASSUME NEW c \in Callers, WriteProfile(c) PROVE OneId'
    BY <1>7 DEF WriteProfile, IInv, TypeOK, Knowledge, IdCurrent, OneId, files, Goes, Learns, Target
  <1>8. ASSUME NEW c \in Callers, Scaffold(c) PROVE OneId'
    BY <1>8 DEF Scaffold, IInv, TypeOK, Knowledge, IdCurrent, OneId, files, Goes, Learns, Target
  <1>9. ASSUME NEW c \in Callers, ReadIdentity(c) PROVE OneId'
    <2>1. TypeOK
      BY DEF IInv
    <2>2. Reading(c)
      BY <1>9, <2>1, Reads
    <2>3. /\ AfterIdentity(c) \in {"saveConfig", "attributes", "done", "touch"}
          /\ AfterIdentity(c) = "saveConfig" => knows[c].kind = "use"
          /\ AfterIdentity(c) = "attributes" => knows[c].kind = "connect"
          /\ AfterIdentity(c) = "done" => knows[c].kind = "import"
          /\ AfterIdentity(c) = "touch" => knows[c].kind \in {"init", "create", "rename"}
      BY <2>1, After
    <2>4. QED
      BY <2>2, <2>3
      DEF Reading, IInv, TypeOK, Knowledge, IdCurrent, OneId, files, Goes, Learns, Target
  <1>10. ASSUME NEW c \in Callers, MintIdentity(c) PROVE OneId'
    <2>1. TypeOK
      BY DEF IInv
    <2>2. Minted(c)
      BY <1>10, <2>1, Mints
    <2>3. /\ AfterIdentity(c) \in {"saveConfig", "attributes", "done", "touch"}
          /\ AfterIdentity(c) = "saveConfig" => knows[c].kind = "use"
          /\ AfterIdentity(c) = "attributes" => knows[c].kind = "connect"
          /\ AfterIdentity(c) = "done" => knows[c].kind = "import"
          /\ AfterIdentity(c) = "touch" => knows[c].kind \in {"init", "create", "rename"}
      BY <2>1, After
    <2>4. QED
      BY <2>2, <2>3
      DEF Minted, IInv, TypeOK, Knowledge, IdCurrent, OneId, files, Goes, Learns, Target
  <1>11. ASSUME NEW c \in Callers, TouchMachine(c) PROVE OneId'
    <2>1. PICK named \in BOOLEAN, label \in {"touch", "offer", "attributes", "done"} : TouchedBy(c, named, label)
      BY <1>11, Touches DEF IInv
    <2>2. QED
      BY <2>1 DEF TouchedBy, IInv, TypeOK, Knowledge, IdCurrent, OneId, files, Goes, Learns, Target
  <1>12. ASSUME NEW c \in Callers, OfferSync(c) PROVE OneId'
    BY <1>12 DEF OfferSync, IInv, TypeOK, Knowledge, IdCurrent, OneId, files, Goes, Learns, Target
  <1>13. ASSUME NEW c \in Callers, WriteAttributes(c) PROVE OneId'
    BY <1>13
    DEF WriteAttributes, IInv, TypeOK, Knowledge, IdCurrent, OneId, files, Goes, Learns, Target
  <1>14. ASSUME NEW c \in Callers, SaveProfile(c) PROVE OneId'
    BY <1>14 DEF SaveProfile, IInv, TypeOK, Knowledge, IdCurrent, OneId, files, Goes, Learns, Target
  <1>15. ASSUME NEW c \in Callers, SaveConfig(c) PROVE OneId'
    BY <1>15 DEF SaveConfig, IInv, TypeOK, Knowledge, IdCurrent, OneId, files, Goes, Learns, Target
  <1>16. ASSUME NEW c \in Callers, BeginImport(c) PROVE OneId'
    BY <1>16 DEF BeginImport, IInv, TypeOK, Knowledge, IdCurrent, OneId, files, Goes, Learns, Target
  <1>17. ASSUME NEW c \in Callers, MakeWay(c) PROVE OneId'
    <2>1. PICK part \in Parts : MadeWay(c, part)
      BY <1>17, MakesWay DEF IInv
    <2>2. QED
      BY <2>1
      DEF MadeWay, ReplacesOnly, IInv, TypeOK, Knowledge, IdCurrent, OneId, files, Goes, Learns,
        Target
  <1>18. ASSUME NEW c \in Callers, CopyFile(c) PROVE OneId'
    <2>1. PICK part \in Parts : Copied(c, part)
      BY <1>18, Copies DEF IInv
    <2>2. QED
      BY <2>1
      DEF Copied, ReplacesOnly, IInv, TypeOK, Knowledge, IdCurrent, OneId, files, Goes, Learns,
        Target
  <1>19. ASSUME NEW c \in Callers, Die(c) PROVE OneId'
    BY <1>19 DEF Die, IInv, TypeOK, Knowledge, IdCurrent, OneId, files, Goes, Learns, Target
  <1>20. CASE Damage
    <2>1. Damaged
      BY <1>20, Damages DEF IInv
    <2>2. QED
      BY <2>1
      DEF Damaged, SameProfiles, IInv, TypeOK, Knowledge, IdCurrent, OneId, files, Goes, Learns,
        Target
  <1>21. CASE Mend
    <2>1. MendsOnly
      BY <1>21, Mends DEF IInv
    <2>2. QED
      BY <2>1
      DEF MendsOnly, SameProfiles, IInv, TypeOK, Knowledge, IdCurrent, OneId, files, Goes, Learns,
        Target
  <1>22. CASE UNCHANGED vars
    BY <1>22 DEF vars, IInv, TypeOK, Knowledge, IdCurrent, OneId, files, Goes, Learns, Target
  <1>23. QED
    BY <1>1, <1>2, <1>3, <1>4, <1>5, <1>6, <1>7, <1>8, <1>9, <1>10, <1>11, <1>12, <1>13, <1>14,
       <1>15, <1>16, <1>17, <1>18, <1>19, <1>20, <1>21, <1>22
    DEF Next, CommandStep

LEMMA InductiveStep == IInv /\ [Next]_vars => IInv'
  BY TypeKept, PathKept, AttributesKept, IdKept, TouchedKept, OneIdKept DEF IInv, Paths

LEMMA Invariance == Spec => []IInv
  BY InitialState, InductiveStep, PTL DEF Spec

\* What profile p says is lost in a step; and whose step that may be.
Lost(p) ==
  /\ profile[p] # NoFile
  /\ \/ profile'[p] = NoFile
     \/ profile'[p].by # profile[p].by
     \/ profile[p].sync /\ ~profile'[p].sync

Excused(p) ==
  \E c \in Callers : /\ pc'[c] # pc[c] \/ knows'[c] # knows[c]
                     /\ Target(c) = p
                     /\ \/ knows[c].kind = "import"
                        \/ knows[c].profile # profile[p]
                        \/ ~profile[p].ok

LEMMA SameProfilesLoseNothing == SameProfiles => \A p \in Profiles : ~Lost(p)
  BY Constants DEF SameProfiles, Lost

\* A step of command c that shows, in its state or in what it knows, and that is about profile p.
LEMMA Shown ==
  ASSUME NEW c \in Callers, pc'[c] # pc[c] \/ knows'[c] # knows[c], NEW p \in Profiles, Target(c) = p,
         knows[c].kind = "import" \/ knows[c].profile # profile[p] \/ ~profile[p].ok
  PROVE Excused(p)
  BY DEF Excused

LEMMA KeptStep == IInv /\ [Next]_vars => \A p \in Profiles : Lost(p) => Excused(p)
  <1> SUFFICES ASSUME IInv, [Next]_vars PROVE \A p \in Profiles : Lost(p) => Excused(p)
    OBVIOUS
  <1> USE Constants
  <1>1. ASSUME NEW c \in Callers, Begin(c) PROVE \A p \in Profiles : Lost(p) => Excused(p)
    BY <1>1 DEF Begin, Lost, files, IInv, TypeOK
  <1>2. ASSUME NEW c \in Callers, OpenConfig(c) PROVE \A p \in Profiles : Lost(p) => Excused(p)
    BY <1>2 DEF OpenConfig, Lost, files, IInv, TypeOK
  <1>3. ASSUME NEW c \in Callers, OpenProfile(c) PROVE \A p \in Profiles : Lost(p) => Excused(p)
    BY <1>3 DEF OpenProfile, Lost, files, IInv, TypeOK
  <1>4. ASSUME NEW c \in Callers, ReadConfig(c) PROVE \A p \in Profiles : Lost(p) => Excused(p)
    BY <1>4 DEF ReadConfig, Lost, files, IInv, TypeOK
  <1>5. ASSUME NEW c \in Callers, WriteConfig(c) PROVE \A p \in Profiles : Lost(p) => Excused(p)
    BY <1>5 DEF WriteConfig, Lost, files, IInv, TypeOK
  <1>6. ASSUME NEW c \in Callers, ReadProfile(c) PROVE \A p \in Profiles : Lost(p) => Excused(p)
    BY <1>6 DEF ReadProfile, Lost, files, IInv, TypeOK
  <1>7. ASSUME NEW c \in Callers, WriteProfile(c) PROVE \A p \in Profiles : Lost(p) => Excused(p)
    <2>1. ASSUME NEW p \in Profiles, Lost(p) PROVE Excused(p)
      <3>1. p = Target(c)
        BY <1>7, <2>1 DEF WriteProfile, Lost, IInv, TypeOK
      <3>2. pc'[c] # pc[c]
        BY <1>7 DEF WriteProfile, Goes, IInv, TypeOK
      <3>3. knows[c].profile # profile[p] \/ ~profile[p].ok
        BY <1>7, <2>1 DEF WriteProfile, Lost, IInv, Paths, PathOf, Readable
      <3>4. QED
        BY <3>1, <3>2, <3>3, Shown
    <2>2. QED
      BY <2>1
  <1>8. ASSUME NEW c \in Callers, Scaffold(c) PROVE \A p \in Profiles : Lost(p) => Excused(p)
    BY <1>8 DEF Scaffold, Lost, files, IInv, TypeOK
  <1>9. ASSUME NEW c \in Callers, ReadIdentity(c) PROVE \A p \in Profiles : Lost(p) => Excused(p)
    BY <1>9 DEF ReadIdentity, AfterIdentity, Lost, files, IInv, TypeOK
  <1>10. ASSUME NEW c \in Callers, MintIdentity(c) PROVE \A p \in Profiles : Lost(p) => Excused(p)
    BY <1>10 DEF MintIdentity, AfterIdentity, Lost, files, IInv, TypeOK
  <1>11. ASSUME NEW c \in Callers, TouchMachine(c) PROVE \A p \in Profiles : Lost(p) => Excused(p)
    BY <1>11 DEF TouchMachine, Lost, files, IInv, TypeOK
  <1>12. ASSUME NEW c \in Callers, OfferSync(c) PROVE \A p \in Profiles : Lost(p) => Excused(p)
    BY <1>12 DEF OfferSync, Lost, files, IInv, TypeOK
  <1>13. ASSUME NEW c \in Callers, WriteAttributes(c)
         PROVE \A p \in Profiles : Lost(p) => Excused(p)
    BY <1>13 DEF WriteAttributes, Lost, files, IInv, TypeOK
  <1>14. ASSUME NEW c \in Callers, SaveProfile(c) PROVE \A p \in Profiles : Lost(p) => Excused(p)
    <2>1. ASSUME NEW p \in Profiles, Lost(p) PROVE Excused(p)
      <3>1. p = Target(c)
        BY <1>14, <2>1 DEF SaveProfile, Lost, IInv, TypeOK
      <3>2. pc'[c] # pc[c]
        BY <1>14 DEF SaveProfile, Goes, IInv, TypeOK
      <3>3. profile'[p] = Connected(c)
        BY <1>14, <3>1 DEF SaveProfile, IInv, TypeOK
      <3>4. knows[c].profile \in ProfileFiles
        BY <1>14 DEF SaveProfile, IInv, Paths, PathOf
      <3>5. /\ Connected(c) \in ProfileFiles /\ Connected(c).sync
            /\ Connected(c).by = knows[c].profile.by
        BY <3>4 DEF Connected, ProfileFiles
      <3>6. knows[c].profile # profile[p]
        BY <2>1, <3>3, <3>5 DEF Lost
      <3>7. QED
        BY <3>1, <3>2, <3>6, Shown
    <2>2. QED
      BY <2>1
  <1>15. ASSUME NEW c \in Callers, SaveConfig(c) PROVE \A p \in Profiles : Lost(p) => Excused(p)
    BY <1>15 DEF SaveConfig, Lost, files, IInv, TypeOK
  <1>16. ASSUME NEW c \in Callers, BeginImport(c) PROVE \A p \in Profiles : Lost(p) => Excused(p)
    BY <1>16 DEF BeginImport, Lost, files, IInv, TypeOK
  <1>17. ASSUME NEW c \in Callers, MakeWay(c) PROVE \A p \in Profiles : Lost(p) => Excused(p)
    <2>1. PICK part \in Parts : MadeWay(c, part)
      BY <1>17, MakesWay DEF IInv
    <2>2. knows[c].kind = "import" /\ knows'[c] # knows[c]
      BY <2>1 DEF MadeWay, IInv, Paths, PathOf, TypeOK, Knowledge
    <2>3. \A p \in Profiles : p # Target(c) => profile'[p] = profile[p]
      BY <2>1 DEF MadeWay, ReplacesOnly
    <2>4. QED
      BY <2>2, <2>3, Shown DEF Lost
  <1>18. ASSUME NEW c \in Callers, CopyFile(c) PROVE \A p \in Profiles : Lost(p) => Excused(p)
    <2>1. PICK part \in Parts : Copied(c, part)
      BY <1>18, Copies DEF IInv
    <2>2. knows[c].kind = "import" /\ knows'[c] # knows[c]
      <3>1. knows[c].kind = "import"
        BY <2>1 DEF Copied, IInv, Paths, PathOf
      <3>2. part \in knows[c].left /\ knows'[c].left = knows[c].left \ {part}
        BY <2>1 DEF Copied, IInv, TypeOK, Knowledge
      <3>3. QED
        BY <3>1, <3>2
    <2>3. \A p \in Profiles : p # Target(c) => profile'[p] = profile[p]
      BY <2>1 DEF Copied, ReplacesOnly
    <2>4. QED
      BY <2>2, <2>3, Shown DEF Lost
  <1>19. ASSUME NEW c \in Callers, Die(c) PROVE \A p \in Profiles : Lost(p) => Excused(p)
    BY <1>19 DEF Die, Lost, files, IInv, TypeOK
  <1>20. CASE Damage
    BY <1>20, Damages, SameProfilesLoseNothing DEF Damaged, IInv
  <1>21. CASE Mend
    BY <1>21, Mends, SameProfilesLoseNothing DEF MendsOnly, IInv
  <1>22. CASE UNCHANGED vars
    BY <1>22 DEF vars, Lost, files, IInv, TypeOK
  <1>23. QED
    BY <1>1, <1>2, <1>3, <1>4, <1>5, <1>6, <1>7, <1>8, <1>9, <1>10, <1>11, <1>12, <1>13, <1>14,
       <1>15, <1>16, <1>17, <1>18, <1>19, <1>20, <1>21, <1>22
    DEF Next, CommandStep

-----------------------------------------------------------------------------
\* Every file, and what every command knows of them, is of the kind the schemas say.
THEOREM TypeCorrect == Spec => []TypeOK
  BY Invariance, PTL DEF IInv

\* Whatever dies in the middle of what, a profile that is synced has the .gitattributes
\* that keeps both sides of decisions.md, or an import still owes it.
THEOREM AttributesHold == Spec => []SyncedHasAttributes
  <1>1. IInv => SyncedHasAttributes
    BY DEF IInv, AttributesFirst, UnderWay, SyncedHasAttributes
  <1>2. QED
    BY <1>1, Invariance, PTL

\* A machine whose id was never lost is known by it alone, in every profile a command
\* touched; no import ever makes it the machine it imported from.
THEOREM OneMachine == Spec => []KnownOnce
  <1>1. IInv => KnownOnce
    BY DEF IInv, OneId, Touched, KnownOnce
  <1>2. QED
    BY <1>1, Invariance, PTL

\* Nobody but an import writes over what a profile says without having failed to read
\* it, or having read it before it changed.
THEOREM ProfilesSafe == Spec => ProfileKept
  <1>1. IInv /\ [Next]_vars =>
          [\A p \in Profiles :
             /\ profile[p] # NoFile
             /\ \/ profile'[p] = NoFile
                \/ profile'[p].by # profile[p].by
                \/ profile[p].sync /\ ~profile'[p].sync
             => \E c \in Callers : /\ pc'[c] # pc[c] \/ knows'[c] # knows[c]
                                 /\ Target(c) = p
                                 /\ \/ knows[c].kind = "import"
                                    \/ knows[c].profile # profile[p]
                                    \/ ~profile[p].ok]_vars
    BY KeptStep DEF Lost, Excused
  <1>2. QED
    BY <1>1, Invariance, PTL DEF Spec, ProfileKept

=============================================================================
