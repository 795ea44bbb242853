SPECIFICATION Spec
CONSTANTS
    start = start
    run = run
    run2 = run2
    ask = ask
    save = save
    hello = hello
    ann = ann
    eve = eve
    Procs = {p1, p2}
    Messages = {save}
    KindOf <- Kind
    Senders = {ann, eve}
    SenderOf <- Sender
    Monarchs = {eve}
    DedupeTtl = 0
    DedupeMax = 1
    WindowMs = 2
    MaxCalls = 1
    Faults = {"probe"}
    NoProc = NoProc
    NoMessage = NoMessage
    MaxDeliveries = 2
    Inboxes <- Pairs
    MaxTime = 0
    MaxFaults = 1
INVARIANTS StrongAntiDup
SYMMETRY ProcSymmetry
CHECK_DEADLOCK FALSE
