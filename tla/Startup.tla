------------------------------ MODULE Startup ------------------------------
(***************************************************************************)
(* The configuration file: commands that change it (lilio init, storage    *)
(* add, storage remove) run as processes of their own with no lock between *)
(* them, an operator edits it by hand, and the server reads it when it     *)
(* starts (config.go, storage.go, init.go, runServer).                     *)
(*                                                                         *)
(* Save is os.WriteFile: it empties the file, then writes.  Two that       *)
(* overlap leave the later one's text, or that with a tail of the other's, *)
(* which does not parse, and neither does an empty file.                   *)
(***************************************************************************)
EXTENDS Integers, FiniteSets, Sequences

CONSTANTS
    Admins,         \* processes that run a command at a time
    AdminCommands,  \* [op, name, type]
    Edits,          \* configurations an operator writes by hand
    MaxKills,       \* bound on commands that are killed or cannot write
    MaxEdits,       \* bound on hand edits
    MaxCommands     \* bound on the commands run

\* What a file that parses can hold: any numbers, in Go's int.
Parsed ==
    [rf : Int, w : Int, n : Int, wrong : SUBSET STRING,
     storages : Seq([name : STRING, type : STRING])]

ASSUME StartupAssumption ==
    /\ Edits \subseteq Parsed
    /\ AdminCommands \subseteq [op : STRING, name : STRING, type : STRING]

VARIABLES
    file,       \* what is at the configuration's path
    step,       \* of each process
    command,    \* what it runs
    memory,     \* the configuration it has read or made
    dirty,      \* processes whose file was written by another since they emptied it
    serving,    \* the server, "down", "loading" or up with a configuration
    said,       \* history: storages as the users were told, or None
    basis,      \* history: "init" while only init and add made the file
    disturbed,  \* history: commands overlapped each other or an edit, or one was killed
    kills, edits, runs

adminVars == <<file, step, command, memory, dirty>>
told == <<said, basis, disturbed>>
startupVars == <<adminVars, serving, told, kills, edits, runs>>

Storage(name, type) == [name |-> name, type |-> type]
NamesOf(cfg) == {cfg.storages[i].name : i \in DOMAIN cfg.storages}

Absent == [state |-> "none"]
Garbled == [state |-> "garbled"]
Whole(cfg) == [state |-> "whole", cfg |-> cfg]
None == [told |-> FALSE, names |-> {}]
Told(names) == [told |-> TRUE, names |-> names]

----------------------------------------------------------------------------
(* Configurations: replication_factor, quorum W and N with 0 for what is   *)
(* left out, the sections that hold a wrong value, the storages.           *)

\* What runServer uses without a file; a seeded fault as the default of init.
TwoCopies == [rf |-> 2, w |-> 0, n |-> 0, wrong |-> {}, storages |-> <<>>]

DefaultConfig == [rf |-> 3, w |-> 0, n |-> 0, wrong |-> {}, storages |-> <<>>]

\* What init saves.
InitialConfig ==
    [DefaultConfig EXCEPT !.storages =
        <<Storage("local-1", "local"), Storage("local-2", "local"), Storage("local-3", "local")>>]

\* Without a quorum section W is derived (DefaultQuorum).
EffectiveN(cfg) == IF cfg.n > 0 THEN cfg.n ELSE cfg.rf
QuorumOf(cfg) == IF cfg.w = 0 /\ cfg.n = 0 THEN cfg.rf \div 2 + 1 ELSE cfg.w

\* Seeded fault: names are not compared.
ValidateAnyNames(cfg) == cfg.rf >= 1 /\ cfg.wrong \subseteq {"chunk_size"}

\* W and N, where the file sets them.
QuorumReachable(cfg) ==
    cfg.w # 0 \/ cfg.n # 0 => cfg.w >= 1 /\ cfg.w <= EffectiveN(cfg)

\* Types that may never start are valid too; no name is used twice.
StoragesDiffer(cfg) ==
    \A i \in DOMAIN cfg.storages :
        /\ cfg.storages[i].type \in {"local", "gdrive", "dropbox", "s3", "sftp", "remote"}
        /\ \A j \in 1 .. i - 1 : cfg.storages[j].name # cfg.storages[i].name

\* chunk_size alone is looked at elsewhere.
Validate(cfg) ==
    /\ cfg.rf >= 1
    /\ QuorumReachable(cfg)
    /\ cfg.wrong \subseteq {"chunk_size"}
    /\ StoragesDiffer(cfg)

Loadable == file.state = "whole" /\ Validate(file.cfg)

\* Seeded fault: the removed entry's place is given to the last, which is cut off.
RemoveStorageLast(cfg, name) ==
    [cfg EXCEPT !.storages = SubSeq(@, 1, Len(@) - 1)]

\* The first entry of that name goes.
RemoveStorage(cfg, name) ==
    LET i == CHOOSE i \in DOMAIN cfg.storages :
                /\ cfg.storages[i].name = name
                /\ \A j \in 1 .. i - 1 : cfg.storages[j].name # name
    IN  [cfg EXCEPT !.storages = SubSeq(@, 1, i - 1) \o SubSeq(@, i + 1, Len(@))]

----------------------------------------------------------------------------
(* Commands.                                                               *)

Busy == {a \in Admins : step[a] # "idle"}
GoOn(a, s) == step' = [step EXCEPT ![a] = s]
InMemory(a, cfg) == memory' = [memory EXCEPT ![a] = cfg]

\* A process ends, and its memory with it.
NoCommand == [op |-> "none"]
End(a) ==
    /\ GoOn(a, "idle")
    /\ InMemory(a, DefaultConfig)
    /\ command' = [command EXCEPT ![a] = NoCommand]
Proceed(a, s, cfg) == GoOn(a, s) /\ InMemory(a, cfg) /\ UNCHANGED <<file, dirty, command>>

\* A command that fails leaves the file alone.
Exit(a) == End(a) /\ UNCHANGED <<file, dirty>>

\* The history ends when nobody can say what the file should hold.
Disturb(overlap) ==
    /\ disturbed' = (disturbed \/ overlap)
    /\ IF disturbed' THEN said' = None /\ basis' = "other" ELSE UNCHANGED <<said, basis>>

Invoke(a) ==
    /\ step[a] = "idle" /\ runs < MaxCommands
    /\ runs' = runs + 1
    /\ \E k \in AdminCommands : command' = [command EXCEPT ![a] = k]
    /\ GoOn(a, "start")
    /\ Disturb(Busy # {})
    /\ UNCHANGED <<file, memory, dirty, serving, kills, edits>>

\* init: a file that is there is kept without --force.
HandleInit(a) ==
    /\ step[a] = "start" /\ command[a].op \in {"init", "init --force"}
    /\ IF file # Absent /\ command[a].op = "init"
       THEN Exit(a)
       ELSE Proceed(a, "save", InitialConfig)
    /\ UNCHANGED <<serving, told, kills, edits, runs>>

\* LoadOrCreate: whether there is a file, then the file.
LoadOrCreate(a) ==
    /\ step[a] = "start" /\ command[a].op = "add"
    /\ IF command[a].type \notin {"local", "gdrive", "dropbox", "s3"} THEN Exit(a)
       ELSE IF file = Absent
       THEN Proceed(a, "create", DefaultConfig)
       ELSE IF Loadable
       THEN Proceed(a, "change", file.cfg)
       ELSE Exit(a)
    /\ UNCHANGED <<serving, told, kills, edits, runs>>

\* AddStorage: a name that is taken is refused.
StorageAdd(a) ==
    /\ step[a] = "change"
    /\ IF command[a].name \in NamesOf(memory[a])
       THEN Exit(a)
       ELSE Proceed(a, "save", [memory[a] EXCEPT
                !.storages = Append(@, Storage(command[a].name, command[a].type))])
    /\ UNCHANGED <<serving, told, kills, edits, runs>>

StorageRemove(a) ==
    /\ step[a] = "start" /\ command[a].op = "remove"
    /\ IF Loadable /\ command[a].name \in NamesOf(file.cfg)
       THEN Proceed(a, "save", RemoveStorage(file.cfg, command[a].name))
       ELSE Exit(a)
    /\ UNCHANGED <<serving, told, kills, edits, runs>>

\* The first half of Save.
Empty(a) ==
    /\ step[a] \in {"create", "save"}
    /\ GoOn(a, IF step[a] = "create" THEN "creating" ELSE "saving")
    /\ file' = Garbled
    /\ dirty' = {}
    /\ UNCHANGED <<command, memory, serving, told, kills, edits, runs>>

Writers == {a \in Admins : step[a] \in {"creating", "saving"}}

\* What the users know once the command has reported its success.
Acknowledge(k) ==
    IF disturbed THEN UNCHANGED <<said, basis>> ELSE
    /\ said' = CASE k.op = "add"    -> Told(said.names \union {k.name})
                 [] k.op = "remove" -> Told(said.names \ {k.name})
                 [] OTHER           -> Told(NamesOf(InitialConfig))
    /\ basis' = CASE k.op = "add"    -> basis
                  [] k.op = "remove" -> "other"
                  [] OTHER           -> "init"

\* The second half.
Write(a) ==
    /\ a \in Writers
    /\ \/ file' = Whole(memory[a])
       \/ a \in dirty /\ file' = Garbled
    /\ dirty' = Writers \ {a}
    /\ \/ step[a] = "creating" /\ GoOn(a, "change") /\ UNCHANGED <<memory, command, said, basis>>
       \/ step[a] = "saving" /\ End(a) /\ Acknowledge(command[a])
    /\ UNCHANGED <<serving, disturbed, kills, edits, runs>>

\* Killed, or the disk is full.
Kill(a) ==
    /\ step[a] # "idle" /\ kills < MaxKills
    /\ kills' = kills + 1
    /\ End(a)
    /\ dirty' = dirty \ {a}
    /\ Disturb(TRUE)
    /\ UNCHANGED <<file, serving, edits, runs>>

\* An operator saves the file in an editor.
Edit ==
    /\ edits < MaxEdits /\ edits' = edits + 1
    /\ disturbed' = (disturbed \/ Busy # {})
    /\ \E cfg \in Edits :
        /\ file' = Whole(cfg)
        /\ said' = IF disturbed' THEN None ELSE Told(NamesOf(cfg))
    /\ basis' = "other"
    /\ dirty' = Writers
    /\ UNCHANGED <<step, command, memory, serving, kills, runs>>

----------------------------------------------------------------------------
(* The server.                                                             *)

Down == [state |-> "down"]
Loading == [state |-> "loading"]

\* Backends of the storages whose indices are in joined; a name joins once.
Up(cfg, joined, origin) ==
    LET Joins(i) == i \in joined
            /\ \A j \in joined : j < i => cfg.storages[j].name # cfg.storages[i].name
        names(S) == {cfg.storages[i].name : i \in S}
    IN  [state |-> "up", cfg |-> cfg, origin |-> origin,
         registry |-> names({i \in DOMAIN cfg.storages : Joins(i)}),
         failed |-> names({i \in DOMAIN cfg.storages : ~Joins(i)})]

\* runServer without a file: four local nodes, two copies.  One that fails is not
\* even listed as failed.
BuiltIn(joined) ==
    [state |-> "up", origin |-> "builtin", registry |-> joined, failed |-> {},
     cfg |-> [TwoCopies EXCEPT !.storages = <<>>]]

StartServer ==
    /\ serving = Down
    /\ IF file = Absent
       THEN \E joined \in SUBSET {"node_0", "node_1", "node_2", "node_3"} :
                serving' = BuiltIn(joined)
       ELSE serving' = Loading
    /\ UNCHANGED <<adminVars, told, kills, edits, runs>>

\* createBackend: these may succeed; dropbox, s3 and sftp never do.
Creatable(s) == s.type \in {"local", "remote", "gdrive"}

\* initFromConfig.  The metadata store may not be reached.
InitFromConfig ==
    /\ serving = Loading
    /\ \/ serving' = Down
       \/ /\ Loadable /\ "chunk_size" \notin file.cfg.wrong
          /\ file.cfg.storages # <<>>
          /\ \E joined \in SUBSET {i \in DOMAIN file.cfg.storages : Creatable(file.cfg.storages[i])} :
                serving' = Up(file.cfg, joined, IF disturbed THEN "other" ELSE basis)
    /\ UNCHANGED <<adminVars, told, kills, edits, runs>>

StopServer ==
    /\ serving.state = "up"
    /\ serving' = Down
    /\ UNCHANGED <<adminVars, told, kills, edits, runs>>

StartupInit ==
    /\ file = Absent
    /\ step = [a \in Admins |-> "idle"]
    /\ command = [a \in Admins |-> NoCommand]
    /\ memory = [a \in Admins |-> DefaultConfig]
    /\ dirty = {}
    /\ serving = Down
    /\ said = None /\ basis = "other" /\ disturbed = FALSE
    /\ kills = 0 /\ edits = 0 /\ runs = 0

Administer(a) ==
    \/ Invoke(a) \/ HandleInit(a) \/ LoadOrCreate(a) \/ StorageAdd(a) \/ StorageRemove(a)
    \/ Empty(a) \/ Write(a) \/ Kill(a)

StartupNext ==
    \/ \E a \in Admins : Administer(a)
    \/ Edit
    \/ StartServer \/ InitFromConfig \/ StopServer

StartupSpec == StartupInit /\ [][StartupNext]_startupVars

----------------------------------------------------------------------------
\* "Config saved to ..." is true: after commands that neither overlapped nor were
\* killed, the file is there whole with just the storages the users were told of
\* (LoadOrCreate, AddStorage, RemoveStorage, Save).
AckedChangesStand ==
    (Busy = {} /\ ~disturbed /\ said.told) =>
        file.state = "whole" /\ NamesOf(file.cfg) = said.names

\* However the file was edited, a server that runs has every storage of it once,
\* joined or listed as failed, and a write quorum within its N (Validate,
\* initFromConfig, Registry.Add).
EveryBackendOnce ==
    (serving.state = "up" /\ serving.origin # "builtin") =>
        /\ serving.registry \intersect serving.failed = {}
        /\ serving.registry \union serving.failed = NamesOf(serving.cfg)
        /\ QuorumOf(serving.cfg) \in 1 .. EffectiveN(serving.cfg)

\* "3 is the smallest factor that tolerates one loss" (DefaultConfig): a server on
\* the file of lilio init, with storages added or not, can still write after the
\* loss of a backend, at its start or later.
ToleratesOneLoss ==
    (serving.state = "up" /\ serving.origin = "init" /\ Cardinality(serving.failed) <= 1) =>
        \E copies \in {serving.cfg.rf, Cardinality(serving.registry)} :
            /\ copies <= serving.cfg.rf /\ copies <= Cardinality(serving.registry)
            /\ copies - (1 - Cardinality(serving.failed)) >= QuorumOf(serving.cfg)

=============================================================================
