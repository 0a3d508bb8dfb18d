----------------------------- MODULE MCStartup -----------------------------
EXTENDS Startup, TLC

CONSTANTS a1, a2

Command(op, name, type) == [op |-> op, name |-> name, type |-> type]

SomeCommands ==
    {Command(op, "", "") : op \in {"init", "init --force"}}
        \union {Command("add", "disk", "local"), Command("add", "cloud", "s3"),
                Command("remove", "local-1", "")}

ByHand(rf, w, n, wrong, storages) ==
    [rf |-> rf, w |-> w, n |-> n, wrong |-> wrong, storages |-> storages]

SomeEdits ==
    {ByHand(2, 3, 3, {}, <<Storage("disk", "remote"), Storage("cloud", "gdrive")>>),
     ByHand(2, 3, 0, {}, <<Storage("disk", "local")>>),
     ByHand(1, 0, 0, {}, <<Storage("disk", "local"), Storage("disk", "remote")>>),
     ByHand(1, 0, 0, {}, <<>>)}
=============================================================================
