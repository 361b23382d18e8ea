----------------------------- MODULE Workspace -----------------------------
(***************************************************************************)
(* The home directory of one machine and the profiles in it:               *)
(* src/core/workspace.ts, with the commands that create, open and change   *)
(* them (init, profile create, profile use, machine rename, sync init),    *)
(* and with `statenest import`, which restores another machine's home.     *)
(*                                                                         *)
(* A command reads config.yaml, profile.yaml, machine.json and the record  *)
(* of its machine one after another, keeps what it read, and writes the    *)
(* files that were missing or that it was asked to change.  Every file is  *)
(* replaced as a whole by a rename, so a step reads or writes a file at    *)
(* once; only import removes a file before it copies another to its place. *)
(* Nothing is locked, and a command can die between any two steps.         *)
(***************************************************************************)
EXTENDS Naturals, FiniteSets

CONSTANTS
  Callers,    \* the commands that run; the machine id each may mint is itself
  Profiles,   \* profile names
  Elsewhere,  \* the machine whose home was exported, its id
  NoFile,     \* no such file
  KindsOf,    \* what each command may be
  MaxFaults   \* bound: how many commands die and files become unreadable

Kinds == {"init", "create", "use", "rename", "connect", "import"}

\* The files of a home with one profile.
Parts == {"config", "profile", "attributes", "machine", "identity"}

ASSUME WorkspaceAssumption ==
  /\ KindsOf \in [Callers -> SUBSET Kinds]
  /\ NoFile \notin Callers \cup Profiles \cup Parts /\ Elsewhere \notin Callers \cup {NoFile}
  /\ MaxFaults \in Nat

\* A file that is there: readable or not, and what it says when it is.
Configs == [ok : BOOLEAN, default : Profiles]
ProfileFiles == [ok : BOOLEAN, by : Callers \cup {Elsewhere}, sync : BOOLEAN]
Identities == [ok : BOOLEAN, id : Callers]

ASSUME NoFileAssumption == NoFile \notin Configs \cup ProfileFiles \cup Identities

VARIABLES
  config,      \* config.yaml
  profile,     \* profile.yaml of each profile
  attributes,  \* the profiles that have their .gitattributes
  identity,    \* machine.json
  machine,     \* the ids of the machines each profile has a record of
  pc,          \* where each command is
  knows,       \* what each command was asked, and what it read
  deaths,      \* how many commands died
  damage,      \* how often a file became unreadable
  displaced    \* history: machine ids that were lost or written over

files == <<config, profile, attributes, identity, machine>>
vars == <<files, pc, knows, deaths, damage, displaced>>

Labels == {"new", "config", "writeConfig", "profile", "fresh", "scaffold", "openConfig",
           "openProfile", "identity", "mint", "touch", "offer", "attributes", "restore",
           "saveProfile", "saveConfig", "done", "failed", "dead"}

Knowledge == [kind : Kinds, target : Profiles, opens : Profiles, profile : ProfileFiles \cup {NoFile},
              id : Callers, named : BOOLEAN, left : SUBSET Parts, at : Parts \cup {NoFile}]

TypeOK ==
  /\ config \in Configs \cup {NoFile}
  /\ profile \in [Profiles -> ProfileFiles \cup {NoFile}]
  /\ attributes \subseteq Profiles
  /\ identity \in Identities \cup {NoFile}
  /\ machine \in [Profiles -> SUBSET (Callers \cup {Elsewhere})]
  /\ pc \in [Callers -> Labels]
  /\ knows \in [Callers -> Knowledge]
  /\ deaths \in 0..MaxFaults /\ damage \in 0..MaxFaults
  /\ displaced \subseteq Callers

Init ==
  /\ config = NoFile
  /\ profile = [p \in Profiles |-> NoFile]
  /\ attributes = {}
  /\ identity = NoFile
  /\ machine = [p \in Profiles |-> {}]
  /\ pc = [c \in Callers |-> "new"]
  /\ knows \in {k \in [Callers -> [kind : Kinds, target : Profiles, opens : Profiles, profile : {NoFile},
                                   id : Callers, named : {FALSE}, left : {{}}, at : {NoFile}]] :
                  \A c \in Callers : k[c].id = c /\ k[c].opens = k[c].target /\ k[c].kind \in KindsOf[c]}
  /\ deaths = 0 /\ damage = 0 /\ displaced = {}

\* A file that is missing and one that cannot be read give the same null.
Readable(file) == file # NoFile /\ file.ok

Unreadable(file) == [file EXCEPT !.ok = FALSE]
Mended(file) == [file EXCEPT !.ok = TRUE]

Listed == {p \in Profiles : profile[p] # NoFile}

Target(c) == knows[c].target
Initialises(c) == knows[c].kind \in {"init", "create"}
Running(c) == pc[c] \notin {"new", "done", "failed", "dead"}
Goes(c, label) == pc' = [pc EXCEPT ![c] = label]
Learns(c, field, value) == knows' = [knows EXCEPT ![c][field] = value]

-----------------------------------------------------------------------------
(* The beginning of a command.                                             *)

\* `profile create` refuses a name that is listed, `profile use` one that is
\* not; the others go ahead.
Begin(c) ==
  /\ pc[c] = "new" /\ knows[c].kind # "import"
  /\ Goes(c, CASE knows[c].kind = "create" /\ Target(c) \in Listed -> "failed"
               [] knows[c].kind = "use" /\ Target(c) \notin Listed -> "failed"
               [] Initialises(c) -> "config"
               [] OTHER -> "openConfig")
  /\ UNCHANGED <<files, knows, deaths, damage, displaced>>

\* Workspace.open: no config and a config that cannot be read both end the
\* command.  `profile use` opens the profile that was the default then, the
\* others the one they are given.
OpenConfig(c) ==
  /\ pc[c] = "openConfig"
  /\ IF Readable(config)
     THEN /\ Goes(c, "openProfile")
          /\ Learns(c, "opens", IF knows[c].kind = "use" THEN config.default ELSE Target(c))
     ELSE Goes(c, "failed") /\ UNCHANGED knows
  /\ UNCHANGED <<files, deaths, damage, displaced>>

OpenProfile(c) ==
  /\ pc[c] = "openProfile"
  /\ LET opened == profile[knows[c].opens]
     IN IF Readable(opened)
        THEN Goes(c, "identity") /\ Learns(c, "profile", opened)
        ELSE Goes(c, "failed") /\ UNCHANGED knows
  /\ UNCHANGED <<files, deaths, damage, displaced>>

\* Workspace.initialize.
ReadConfig(c) ==
  /\ pc[c] = "config"
  /\ Goes(c, IF Readable(config) THEN "profile" ELSE "writeConfig")
  /\ UNCHANGED <<files, knows, deaths, damage, displaced>>

WriteConfig(c) ==
  /\ pc[c] = "writeConfig"
  /\ config' = [ok |-> TRUE, default |-> Target(c)]
  /\ Goes(c, "profile")
  /\ UNCHANGED <<profile, attributes, identity, machine, knows, deaths, damage, displaced>>

\* Faulty: writes a fresh profile over the one it read.
ReadProfileAnyway(c) ==
  /\ pc[c] = "profile"
  /\ Learns(c, "profile", profile[Target(c)])
  /\ Goes(c, "fresh")
  /\ UNCHANGED <<files, deaths, damage, displaced>>

ReadProfile(c) ==
  /\ pc[c] = "profile"
  /\ Learns(c, "profile", profile[Target(c)])
  /\ Goes(c, IF Readable(profile[Target(c)]) THEN "identity" ELSE "fresh")
  /\ UNCHANGED <<files, deaths, damage, displaced>>

\* The profile that replaces whatever is there, and stays in memory.
Fresh(c) == [ok |-> TRUE, by |-> c, sync |-> FALSE]

WriteProfile(c) ==
  /\ pc[c] = "fresh"
  /\ profile' = [profile EXCEPT ![Target(c)] = Fresh(c)]
  /\ Learns(c, "profile", Fresh(c))
  /\ Goes(c, "scaffold")
  /\ UNCHANGED <<config, attributes, identity, machine, deaths, damage, displaced>>

\* Each scaffolding file is written if it is absent.
Scaffold(c) ==
  /\ pc[c] = "scaffold"
  /\ attributes' = attributes \cup {Target(c)}
  /\ Goes(c, "identity")
  /\ UNCHANGED <<config, profile, identity, machine, knows, deaths, damage, displaced>>

-----------------------------------------------------------------------------
(* The machine: its id at the top of the home, its record in the profile.  *)

AfterIdentity(c) ==
  CASE knows[c].kind = "use" -> "saveConfig"
    [] knows[c].kind = "connect" -> "attributes"
    [] knows[c].kind = "import" -> "done"
    [] OTHER -> "touch"

ReadIdentity(c) ==
  /\ pc[c] = "identity"
  /\ IF Readable(identity)
     THEN Goes(c, AfterIdentity(c)) /\ Learns(c, "id", identity.id)
     ELSE Goes(c, "mint") /\ UNCHANGED knows
  /\ UNCHANGED <<files, deaths, damage, displaced>>

MintIdentity(c) ==
  /\ pc[c] = "mint"
  /\ identity' = [ok |-> TRUE, id |-> c]
  /\ displaced' = displaced \cup (IF identity = NoFile THEN {} ELSE {identity.id})
  /\ Learns(c, "id", c)
  /\ Goes(c, AfterIdentity(c))
  /\ UNCHANGED <<config, profile, attributes, machine, deaths, damage>>

\* The record of this machine is read and written back with what describes it
\* now; init does so as it initialises, and again with the name the user gave.
TouchMachine(c) ==
  /\ pc[c] = "touch"
  /\ machine' = [machine EXCEPT ![Target(c)] = @ \cup {knows[c].id}]
  /\ knows' = [knows EXCEPT ![c].named = knows[c].kind = "init"]
  /\ Goes(c, CASE knows[c].kind = "init" /\ ~knows[c].named -> "touch"
               [] knows[c].kind = "init" /\ knows[c].named -> "offer"
               [] knows[c].kind = "create" -> "attributes"
               [] OTHER -> "done")
  /\ UNCHANGED <<config, profile, attributes, identity, deaths, damage, displaced>>

-----------------------------------------------------------------------------
(* What the commands do once the workspace is open.                        *)

\* init offers to connect a profile whose sync is off; the user may decline.
OfferSync(c) ==
  /\ pc[c] = "offer"
  /\ \/ Goes(c, "done")
     \/ ~knows[c].profile.sync /\ Goes(c, "attributes")
  /\ UNCHANGED <<files, knows, deaths, damage, displaced>>

\* The profile as it was when the command read it, with sync turned on.
Connected(c) == [knows[c].profile EXCEPT !.sync = TRUE]

\* Faulty: turns sync on before the scaffolding is written.
SaveFirst(c) ==
  /\ pc[c] = "attributes"
  /\ IF knows[c].kind = "create"
     THEN attributes' = attributes \cup {Target(c)} /\ UNCHANGED profile
     ELSE profile' = [profile EXCEPT ![Target(c)] = Connected(c)] /\ UNCHANGED attributes
  /\ Goes(c, "done")
  /\ UNCHANGED <<config, identity, machine, knows, deaths, damage, displaced>>

\* `profile create`, `sync init` and the offer of init write the scaffolding.
WriteAttributes(c) ==
  /\ pc[c] = "attributes"
  /\ attributes' = attributes \cup {Target(c)}
  /\ Goes(c, IF knows[c].kind = "create" THEN "done" ELSE "saveProfile")
  /\ UNCHANGED <<config, profile, identity, machine, knows, deaths, damage, displaced>>

SaveProfile(c) ==
  /\ pc[c] = "saveProfile"
  /\ profile' = [profile EXCEPT ![Target(c)] = Connected(c)]
  /\ Goes(c, "done")
  /\ UNCHANGED <<config, attributes, identity, machine, knows, deaths, damage, displaced>>

SaveConfig(c) ==
  /\ pc[c] = "saveConfig"
  /\ config' = [ok |-> TRUE, default |-> Target(c)]
  /\ Goes(c, "done")
  /\ UNCHANGED <<profile, attributes, identity, machine, knows, deaths, damage, displaced>>

-----------------------------------------------------------------------------
(* import: the archive is the home of another machine, with one synced     *)
(* profile of the name the command is about.                               *)

\* Faulty: the whole home is archived, its machine.json with it.
ExportedWhole == Parts

\* What `statenest export` puts into an archive: all but the machine's identity
\* (and its caches, logs and backups).
Exported == Parts \ {"identity"}

\* Over an existing home the user is asked, and may decline; an archive that is
\* refused, or that cannot be unpacked beside the home, changes nothing.
BeginImport(c) ==
  /\ pc[c] = "new" /\ knows[c].kind = "import"
  /\ \/ config # NoFile /\ Goes(c, "done") /\ UNCHANGED knows
     \/ Goes(c, "failed") /\ UNCHANGED knows
     \/ Goes(c, "restore") /\ Learns(c, "left", Exported)
  /\ UNCHANGED <<files, deaths, damage, displaced>>

Present(part, p) ==
  CASE part = "config" -> config # NoFile
    [] part = "profile" -> profile[p] # NoFile
    [] part = "attributes" -> p \in attributes
    [] part = "machine" -> Elsewhere \in machine[p]
    [] part = "identity" -> identity # NoFile

\* One file of profile p becomes the archive's, or goes.
Becomes(part, p, there) ==
  LET now(name, file, old) == IF part # name THEN old ELSE IF there THEN file ELSE NoFile
      among(name, member, set) == IF part # name THEN set
                                  ELSE IF there THEN set \cup {member} ELSE set \ {member}
  IN /\ config' = now("config", [ok |-> TRUE, default |-> p], config)
     /\ profile' = [profile EXCEPT ![p] =
                      now("profile", [ok |-> TRUE, by |-> Elsewhere, sync |-> TRUE], @)]
     /\ attributes' = among("attributes", p, attributes)
     /\ machine' = [machine EXCEPT ![p] = among("machine", Elsewhere, @)]
     /\ identity' = now("identity", [ok |-> TRUE, id |-> Elsewhere], identity)

\* cp, forced: a file in the way is removed first.
MakeWay(c) ==
  /\ pc[c] = "restore" /\ knows[c].at = NoFile
  /\ \E part \in knows[c].left :
       /\ Present(part, Target(c))
       /\ Becomes(part, Target(c), FALSE)
       /\ Learns(c, "at", part)
  /\ UNCHANGED <<pc, deaths, damage, displaced>>

\* A file is copied to its place, which is free.
CopyOver(c, part) ==
  /\ IF knows[c].at = NoFile THEN ~Present(part, Target(c)) ELSE part = knows[c].at
  /\ Becomes(part, Target(c), TRUE)
  /\ knows' = [knows EXCEPT ![c].left = @ \ {part}, ![c].at = NoFile]
  /\ Goes(c, IF knows[c].left = {part} THEN "identity" ELSE "restore")

\* The files come in the order the directories list them: in any.  Then the
\* machine's own identity is read, or created.
CopyFile(c) ==
  /\ pc[c] = "restore"
  /\ \E part \in knows[c].left : CopyOver(c, part)
  /\ UNCHANGED <<deaths, damage, displaced>>

-----------------------------------------------------------------------------
(* What happens to commands and files from outside.                        *)

Die(c) ==
  /\ Running(c) /\ deaths + damage < MaxFaults
  /\ deaths' = deaths + 1
  /\ Goes(c, "dead")
  /\ UNCHANGED <<files, knows, damage, displaced>>

\* A sync that was left with conflict markers, an edit gone wrong.
Damage ==
  /\ deaths + damage < MaxFaults
  /\ damage' = damage + 1
  /\ \/ /\ Readable(config)
        /\ config' = Unreadable(config)
        /\ UNCHANGED <<profile, identity, displaced>>
     \/ /\ \E p \in Profiles : /\ Readable(profile[p])
                               /\ profile' = [profile EXCEPT ![p] = Unreadable(@)]
        /\ UNCHANGED <<config, identity, displaced>>
     \/ /\ Readable(identity)
        /\ identity' = Unreadable(identity)
        /\ displaced' = displaced \cup {identity.id}
        /\ UNCHANGED <<config, profile>>
  /\ UNCHANGED <<attributes, machine, pc, knows, deaths>>

\* The user resolves the profile's conflict, which keeps what it said.
Mend ==
  /\ \E p \in Profiles : /\ profile[p] # NoFile /\ ~profile[p].ok
                         /\ profile' = [profile EXCEPT ![p] = Mended(@)]
  /\ UNCHANGED <<config, attributes, identity, machine, pc, knows, deaths, damage, displaced>>

CommandStep(c) ==
  \/ Begin(c) \/ OpenConfig(c) \/ OpenProfile(c) \/ ReadConfig(c) \/ WriteConfig(c)
  \/ ReadProfile(c) \/ WriteProfile(c) \/ Scaffold(c) \/ ReadIdentity(c) \/ MintIdentity(c)
  \/ TouchMachine(c) \/ OfferSync(c) \/ WriteAttributes(c)
  \/ SaveProfile(c) \/ SaveConfig(c)
  \/ BeginImport(c) \/ MakeWay(c) \/ CopyFile(c)

Next == (\E c \in Callers : CommandStep(c) \/ Die(c)) \/ Damage \/ Mend

Spec == Init /\ [][Next]_vars

-----------------------------------------------------------------------------
(* Properties.                                                             *)

\* A profile that is synced has the .gitattributes that keeps both sides of
\* decisions.md: whichever command died half-way through creating the profile,
\* the one that turns sync on has written the file before.  Only an import that
\* is under way, or was cut off, may have restored one file without the other.
SyncedHasAttributes ==
  \A p \in Profiles : profile[p] # NoFile /\ profile[p].sync =>
    \/ p \in attributes
    \/ \E c \in Callers : /\ pc[c] \in {"restore", "dead"} /\ Target(c) = p
                         /\ "attributes" \in knows[c].left

\* A machine is known once, by the id in machine.json, and every command that
\* finishes touching it leaves its record there; unless an id was lost: its file
\* became unreadable, or two first commands each minted one.  export.ts:53-54,
\* 166-168: a restored home brings the record of the machine it is from, and
\* never makes this machine that one.
KnownOnce ==
  displaced = {} =>
    /\ \A p \in Profiles : machine[p] \ {Elsewhere} \subseteq
         IF identity = NoFile THEN {} ELSE {identity.id}
    /\ \A c \in Callers :
         pc[c] = "done" /\ knows[c].kind \in {"init", "create", "rename"} =>
           machine[Target(c)] \ {Elsewhere} # {}

\* What a profile says (who created it, that it is synced) is only lost to a
\* command that could not read it, or that read it before it last changed, and
\* to an import, which replaces files of the same name.  (That a command which
\* cannot read it writes over it is not what the code says: UnreadProfileKept.)
ProfileKept ==
  [][\A p \in Profiles :
       /\ profile[p] # NoFile
       /\ \/ profile'[p] = NoFile
          \/ profile'[p].by # profile[p].by
          \/ profile[p].sync /\ ~profile'[p].sync
       => \E c \in Callers : /\ pc'[c] # pc[c] \/ knows'[c] # knows[c]
                           /\ Target(c) = p
                           /\ \/ knows[c].kind = "import"
                              \/ knows[c].profile # profile[p]
                              \/ ~profile[p].ok]_vars

\* store.ts:44-45: "Nothing here ever deletes data it could not parse. Unreadable
\* files are reported and left exactly where they are", and workspace.ts:139-142 says
\* the same of init.  No command puts a fresh profile.yaml in the place of one that it
\* found and could not read.
UnreadProfileKept ==
  [][\A c \in Callers :
       LET found == knows[c].profile
       IN found # NoFile /\ ~found.ok /\ profile'[Target(c)] = Fresh(c) =>
            profile[Target(c)] = Fresh(c)]_vars
=============================================================================
