---------------------------- MODULE LedgerSession ----------------------------
(***************************************************************************)
(* A Ledger over USB in the browser: the report transport                  *)
(* (src/frontend/src/ledger/transport.ts), the commands of the three apps  *)
(* (apps.ts), and the hook that connects, lists addresses and signs        *)
(* (useLedger.ts, LedgerAccounts.tsx, signer.ts).                          *)
(*                                                                         *)
(* Several operations may run at once: their commands take turns, one      *)
(* command at a time, on one queue. The device keeps the parts of a        *)
(* signing command, whoever sent them, and its reports reach every tab     *)
(* that has it open.                                                       *)
(***************************************************************************)
EXTENDS Wallet

CONSTANTS
    Seeds,       \* the device may be unlocked with different PINs or be another one
    Signings,    \* signing operations that may run at once
    MaxConnects, \* bound: connections
    MaxEvents    \* bound: operations started, and what happens to the device

Apps == {"ethereum", "harmony", "harmony-legacy", "BOLOS"}
Shown == 2  \* ACCOUNTS_SHOWN, which is 5 in the code

Device == [seed : Seeds, app : Apps]
Path == {"ledger-live", "bip44", "legacy", "harmony"} \X (1 .. Shown)
Address == Seeds \X Path
Account == [path : Path, address : Address]

\* A command to the device, and what it may answer.
Command(op, path, part, payload) == [op |-> op, path |-> path, part |-> part, payload |-> payload]

ReadingCommand ==
    [op : {"name", "config", "version"}, path : {<<>>}, part : {1}, payload : {None}]
    \cup [op : {"address"}, path : Path, part : {1}, payload : {None}]

SigningCommand == [op : {"message", "tx"}, path : Path, part : 1 .. 2, payload : Signings]

Signature == [address : Address, signed : Signings \X Signings]

Reply ==
    [type : {"status", "ok", "name", "config", "version"}, value : Apps \cup {None}]
    \cup [type : {"address"}, value : Address]
    \cup [type : {"signature"}, value : Signature]

\* What an operation keeps: the commands left to send, and what it reads or signs.
ReadingJob == [app : (Apps \ {"BOLOS"}) \cup {None}, todo : Seq(ReadingCommand), list : Seq(Account)]
SigningJob == [account : Account, payload : Signings, todo : Seq(SigningCommand)]

ASSUME LedgerAssumption ==
    /\ MaxConnects \in Nat /\ MaxEvents \in Nat
    /\ "read" \notin Signings
    /\ None \notin Apps \cup Address
    /\ None \notin Device /\ None \notin Reply
    /\ None \notin ReadingJob /\ None \notin SigningJob

VARIABLES
    plugged,   \* the device: [seed, app], or None
    unfinished,\* the signing command the device has a part of, or None
    toDevice,  \* commands the device has not answered
    wire,      \* reports that have not reached the browser
    connects,  \* connections so far: the last one's channel
    open,      \* the channel of the open transport, or 0
    queue,     \* operations whose command is sent or waits to be
    exchange,  \* the first one's: [step, got]
    reports,   \* reports received and not read
    jobs,      \* per operation, what it does, or None
    hook,      \* what the page shows: [app, scheme, accounts, selected]
    handed,    \* the last signature the page went on with (history)
    oddity,    \* the device changed, or a late answer could be taken (history)
    events

deviceVars == <<plugged, unfinished, toDevice, wire>>
transportVars == <<connects, open, queue, exchange, reports>>
ledgerVars == <<deviceVars, transportVars, jobs, hook, handed, oddity, events>>

Operations == {"read"} \cup Signings

NoHook == [app |-> None, scheme |-> "harmony", accounts |-> <<>>, selected |-> 1]
Fresh == [step |-> "sending", got |-> 0]

LedgerInit ==
    /\ plugged = None /\ unfinished = None /\ toDevice = <<>> /\ wire = <<>>
    /\ connects = 0 /\ open = 0 /\ queue = <<>> /\ exchange = Fresh /\ reports = <<>>
    /\ jobs = [o \in Operations |-> None]
    /\ hook = NoHook
    /\ handed = None
    /\ oddity = FALSE
    /\ events = 0

\* The first command in the queue is the only one under way.
LedgerTypeOK ==
    /\ plugged \in Device \cup {None}
    /\ unfinished # None => unfinished.payload \in Signings
    /\ connects \in 0 .. MaxConnects
    /\ open \in 0 .. connects
    /\ \A i, j \in DOMAIN queue : queue[i] = queue[j] => i = j
    /\ \A o \in Operations : jobs[o] # None <=> \E i \in DOMAIN queue : queue[i] = o
    /\ \A o \in Operations : jobs[o] # None => jobs[o].todo # <<>>
    /\ exchange \in [step : {"sending", "reading"}, got : 0 .. 1]
    /\ hook.app \in {None, "ethereum", "harmony", "harmony-legacy"}
    /\ hook.selected \in 1 .. Shown
    /\ oddity \in BOOLEAN
    /\ events \in 0 .. MaxEvents

Event == events < MaxEvents /\ events' = events + 1

-----------------------------------------------------------------------------
(* The device.                                                              *)

\* The apps derive keys on paths of their own.
PathsOf(app) ==
    CASE app = "ethereum" -> {"ledger-live", "bip44", "legacy"}
      [] app = "BOLOS" -> {}
      [] OTHER -> {"harmony"}

AddressAt(seed, path) == <<seed, path>>

StatusError == [type |-> "status", value |-> None]
OK == [type |-> "ok", value |-> None]

\* Signing takes two commands, the first with the path: it starts over, and the
\* second ends whatever command of its kind the device has a part of.
SignAnswer(c) ==
    IF c.part = 1 THEN OK
    ELSE IF unfinished = None THEN StatusError
    ELSE IF unfinished.op # c.op THEN StatusError
    ELSE [type |-> "signature",
          value |-> [address |-> AddressAt(plugged.seed, unfinished.path),
                     signed |-> <<unfinished.payload, c.payload>>]]

\* The pre-2025 Harmony app knows neither the name nor the configuration.
ReadAnswer(c, device) ==
    CASE c.op = "name" -> IF device.app = "harmony-legacy" THEN StatusError
                          ELSE [type |-> "name", value |-> device.app]
      [] c.op = "config" -> IF device.app = "harmony" THEN [type |-> "config", value |-> None]
                            ELSE StatusError
      [] c.op = "version" -> IF device.app = "harmony-legacy" THEN [type |-> "version", value |-> None]
                             ELSE StatusError
      [] OTHER -> IF c.path[1] \in PathsOf(device.app)
                  THEN [type |-> "address", value |-> AddressAt(device.seed, c.path)]
                  ELSE StatusError

Answers(c) ==
    IF c.op \notin {"message", "tx"} THEN ReadAnswer(c, plugged)
    ELSE IF c.path[1] \in PathsOf(plugged.app) THEN SignAnswer(c) ELSE StatusError

\* frameApdu: an address or a signature takes two reports.
Reports(channel, reply) ==
    IF reply.type \in {"address", "signature"}
    THEN <<[channel |-> channel, sequence |-> 0, reply |-> None],
           [channel |-> channel, sequence |-> 1, reply |-> reply]>>
    ELSE <<[channel |-> channel, sequence |-> 0, reply |-> reply]>>

\* A signing command's last part waits for the person, who may refuse.
AnswerCommand(c, reply) ==
    /\ toDevice # <<>>
    /\ c = Head(toDevice)
    /\ reply # Answers(c.command) => c.command.op \in {"message", "tx"} /\ reply = StatusError
    /\ toDevice' = Tail(toDevice)
    /\ wire' = wire \o Reports(c.channel, reply)
    /\ unfinished' = IF c.command.op \notin {"message", "tx"} THEN unfinished
                     ELSE IF reply = OK
                          THEN [op |-> c.command.op, path |-> c.command.path,
                                payload |-> c.command.payload]
                          ELSE None
    /\ UNCHANGED <<plugged, transportVars, jobs, hook, handed, oddity, events>>

Plug(d) ==
    /\ plugged = None
    /\ plugged' = d
    /\ Event
    /\ UNCHANGED <<unfinished, toDevice, wire, transportVars, jobs, hook, handed, oddity>>

\* Another app, or another PIN's keys, without the USB connection ending.
Swap(d) ==
    /\ plugged # None
    /\ d # plugged
    /\ plugged' = d
    /\ unfinished' = None
    /\ oddity' = (open # 0)
    /\ Event
    /\ UNCHANGED <<toDevice, wire, transportVars, jobs, hook, handed>>

-----------------------------------------------------------------------------
(* The transport.                                                           *)

\* close() forgets the commands that wait for their turn.
Mutant_ClosedKeepsQueue ==
    /\ open' = 0
    /\ exchange' = Fresh
    /\ reports' = <<>>
    /\ jobs' = [o \in Operations |-> None]
    /\ hook' = NoHook
    /\ oddity' = FALSE
    /\ UNCHANGED queue

\* close() and reset(): whatever waits fails, and the page shows no Ledger.  An
\* exchange in the queue throws when its turn comes, before it sends anything,
\* and the next has its turn before any event is handled, so that all of them
\* end here.  The one that was being sent may learn it later, but its answer is
\* not taken any more.
Closed ==
    /\ open' = 0
    /\ queue' = <<>>
    /\ exchange' = Fresh
    /\ reports' = <<>>
    /\ jobs' = [o \in Operations |-> None]
    /\ hook' = NoHook
    /\ oddity' = FALSE

\* The browser tells the page that the device is gone.
Unplug ==
    /\ plugged # None
    /\ plugged' = None
    /\ unfinished' = None
    /\ toDevice' = <<>>
    /\ wire' = <<>>
    /\ IF open # 0 THEN Closed ELSE UNCHANGED <<open, queue, exchange, reports, jobs, hook, oddity>>
    /\ Event
    /\ UNCHANGED <<connects, handed>>

Disconnect ==
    /\ hook.app # None
    /\ Closed
    /\ Event
    /\ UNCHANGED <<deviceVars, connects, handed>>

\* A report of the device; without an open transport nobody listens.
ReportArrives ==
    /\ wire # <<>>
    /\ wire' = Tail(wire)
    /\ reports' = IF open # 0 THEN Append(reports, Head(wire)) ELSE reports
    /\ UNCHANGED <<plugged, unfinished, toDevice, connects, open, queue, exchange, jobs, hook, handed,
                   oddity, events>>

\* Another tab that has the device open gets an answer from it.
StrayReport(path) ==
    /\ open # 0
    /\ plugged # None
    /\ path[1] \in PathsOf(plugged.app)
    /\ reports' = reports \o
          Reports(0, [type |-> "address", value |-> AddressAt(plugged.seed, path)])
    /\ Event
    /\ UNCHANGED <<deviceVars, connects, open, queue, exchange, jobs, hook, handed, oddity>>

\* What the device still owes an exchange that failed would be taken for the
\* answer of the next one, if it came after that one started.
AnswerOwed ==
    /\ open # 0
    /\ \/ \E i \in DOMAIN toDevice : toDevice[i].channel = open
       \/ \E i \in DOMAIN wire : wire[i].channel = open

\* The next exchange starts, without what was received before it.
Turn(next) ==
    /\ queue' = next
    /\ exchange' = Fresh
    /\ reports' = <<>>
    /\ oddity' = (oddity \/ (next # <<>> /\ AnswerOwed))

\* Operation o asks for a command: it is sent at once if no other waits.
Enqueue(o) ==
    IF queue = <<>> THEN Turn(<<o>>)
    ELSE queue' = Append(queue, o) /\ UNCHANGED <<exchange, reports, oddity>>

\* The first operation's command is done; it may have another one.
Dequeue(more) == Turn(IF more THEN Append(Tail(queue), Head(queue)) ELSE Tail(queue))

Serving == queue # <<>>

Now == jobs[Head(queue)]

SendCommand ==
    /\ Serving
    /\ exchange.step = "sending"
    /\ plugged # None
    /\ toDevice' = Append(toDevice, [channel |-> open, command |-> Head(Now.todo)])
    /\ exchange' = [exchange EXCEPT !.step = "reading"]
    /\ UNCHANGED <<plugged, unfinished, wire, connects, open, queue, reports, jobs, hook, handed, oddity,
                   events>>

-----------------------------------------------------------------------------
(* The operations: connecting, another account type, signing.               *)

AddressCommands(scheme) ==
    [i \in 1 .. Shown |-> Command("address", <<scheme, i>>, 1, None)]

LegacyAddress == <<Command("address", <<"harmony", 1>>, 1, None)>>

\* An operation ends in an error. A connection that fails is closed.
FailOperation ==
    IF Head(queue) = "read" /\ hook.app = None
    THEN Closed
    ELSE /\ jobs' = [jobs EXCEPT ![Head(queue)] = None]
         /\ Dequeue(FALSE)
         /\ UNCHANGED <<open, hook>>

\* detectApp and readAccounts: what follows the answer to a reading command.
AfterDetect(app, todo) ==
    /\ jobs' = [jobs EXCEPT !["read"].app = app, !["read"].todo = todo]
    /\ Dequeue(TRUE)
    /\ UNCHANGED <<open, hook>>

Detected(reply) ==
    CASE Head(Now.todo).op = "name" ->
            IF reply.type = "name" /\ reply.value = "ethereum"
            THEN AfterDetect("ethereum", AddressCommands("ledger-live"))
            ELSE IF reply.type = "status" \/ (reply.type = "name" /\ reply.value = "harmony")
                 THEN AfterDetect(None, <<Command("config", <<>>, 1, None)>>)
                 ELSE FailOperation
      [] Head(Now.todo).op = "config" ->
            IF reply.type = "config" THEN AfterDetect("harmony", AddressCommands("harmony"))
            ELSE IF reply.type = "status" THEN AfterDetect(None, <<Command("version", <<>>, 1, None)>>)
                 ELSE FailOperation
      [] OTHER ->
            IF reply.type = "version" THEN AfterDetect("harmony-legacy", LegacyAddress)
            ELSE FailOperation

AddressRead(reply) ==
    LET account == [path |-> Head(Now.todo).path, address |-> reply.value]
        list == Append(Now.list, account)
    IN  IF reply.type # "address" THEN FailOperation
        ELSE IF Len(Now.todo) > 1
             THEN /\ jobs' = [jobs EXCEPT !["read"].todo = Tail(@), !["read"].list = list]
                  /\ Dequeue(TRUE)
                  /\ UNCHANGED <<open, hook>>
             ELSE /\ jobs' = [jobs EXCEPT !["read"] = None]
                  /\ hook' = [app |-> Now.app, scheme |-> account.path[1], accounts |-> list,
                              selected |-> 1]
                  /\ Dequeue(FALSE)
                  /\ UNCHANGED open

\* The address a signature recovers to: another one for other bytes than asked.
Recovered(reply, payload) ==
    IF reply.type = "signature" /\ reply.value.signed = <<payload, payload>>
    THEN reply.value.address ELSE None

Mutant_TakesSignature(job, reply) == reply.type = "signature"

SignerChecked(job, reply) == Recovered(reply, job.payload) = job.account.address

SignRead(reply) ==
    IF reply.type = "status" THEN FailOperation /\ UNCHANGED handed
    ELSE IF Len(Now.todo) > 1
         THEN /\ jobs' = [jobs EXCEPT ![Head(queue)].todo = Tail(@)]
              /\ Dequeue(TRUE)
              /\ UNCHANGED <<open, hook, handed>>
         ELSE IF SignerChecked(Now, reply)
              THEN /\ jobs' = [jobs EXCEPT ![Head(queue)] = None]
                   /\ handed' = [expected |-> Now.account.address, payload |-> Now.payload,
                                 reply |-> reply]
                   /\ Dequeue(FALSE)
                   /\ UNCHANGED <<open, hook>>
              ELSE FailOperation /\ UNCHANGED handed

Mutant_AnyChannel(report) == report.sequence = exchange.got

Expected(report) == report.channel = open /\ report.sequence = exchange.got

ReplyRead(reply) ==
    IF Head(queue) # "read" THEN SignRead(reply)
    ELSE /\ UNCHANGED handed
         /\ IF Head(Now.todo).op = "address" THEN AddressRead(reply) ELSE Detected(reply)

\* The exchange takes a report; with the last one it has the answer.
ReadReport ==
    /\ Serving
    /\ exchange.step = "reading"
    /\ reports # <<>>
    /\ IF ~Expected(Head(reports))
       THEN FailOperation /\ UNCHANGED handed
       ELSE IF Head(reports).reply = None
            THEN /\ exchange' = [exchange EXCEPT !.got = @ + 1]
                 /\ reports' = Tail(reports)
                 /\ UNCHANGED <<open, queue, jobs, hook, handed, oddity>>
            ELSE ReplyRead(Head(reports).reply)
    /\ UNCHANGED <<deviceVars, connects, events>>

\* The report could not be sent.
FailSendCommand ==
    /\ Serving
    /\ exchange.step = "sending"
    /\ FailOperation
    /\ UNCHANGED <<deviceVars, connects, handed, events>>

ReadJob(app, todo) == [app |-> app, todo |-> todo, list |-> <<>>]

\* The browser's picker hands the device to a transport with a channel of its own.
Request ==
    /\ plugged # None
    /\ connects < MaxConnects
    /\ connects' = connects + 1
    /\ open' = connects + 1

\* The button is there while no address is shown, and disabled while busy.
Connect ==
    /\ hook.app = None
    /\ jobs["read"] = None
    /\ Request
    /\ jobs' = [jobs EXCEPT !["read"] = ReadJob(None, <<Command("name", <<>>, 1, None)>>)]
    /\ Enqueue("read")
    /\ Event
    /\ UNCHANGED <<deviceVars, hook, handed>>

ChangeScheme(next) ==
    /\ hook.app = "ethereum"
    /\ jobs["read"] = None
    /\ next # hook.scheme
    /\ jobs' = [jobs EXCEPT !["read"] = ReadJob(hook.app, AddressCommands(next))]
    /\ Enqueue("read")
    /\ Event
    /\ UNCHANGED <<deviceVars, connects, open, hook, handed>>

SelectAccount(i) ==
    /\ hook.app # None
    /\ jobs["read"] = None
    /\ i \in DOMAIN hook.accounts
    /\ hook' = [hook EXCEPT !.selected = i]
    /\ hook' # hook
    /\ Event
    /\ UNCHANGED <<deviceVars, transportVars, jobs, handed, oddity>>

\* A message with any app, a transaction with the Ethereum app alone. It keeps
\* the account it was started with.
StartSigning(o, op) ==
    /\ hook.app # None
    /\ jobs[o] = None
    /\ op = "tx" => hook.app = "ethereum"
    /\ LET account == hook.accounts[hook.selected]
       IN  jobs' = [jobs EXCEPT ![o] =
              [account |-> account, payload |-> o,
               todo |-> <<Command(op, account.path, 1, o), Command(op, account.path, 2, o)>>]]
    /\ Enqueue(o)
    /\ Event
    /\ UNCHANGED <<deviceVars, connects, open, hook, handed>>

-----------------------------------------------------------------------------

DeviceStep ==
    \/ \E d \in Device : Plug(d) \/ Swap(d)
    \/ Unplug
    \/ \E c \in {toDevice[i] : i \in DOMAIN toDevice} :
          \E reply \in {Answers(c.command), StatusError} : AnswerCommand(c, reply)
    \/ ReportArrives
    \/ \E scheme \in {"ledger-live", "bip44"} : StrayReport(<<scheme, 1>>)

PageStep ==
    \/ Connect \/ Disconnect \/ SendCommand \/ FailSendCommand \/ ReadReport
    \/ \E scheme \in {"ledger-live", "bip44"} : ChangeScheme(scheme)
    \/ \E i \in 1 .. Shown : SelectAccount(i)
    \/ \E o \in Signings, op \in {"message", "tx"} : StartSigning(o, op)

LedgerNext == DeviceStep \/ PageStep

LedgerSpec == LedgerInit /\ [][LedgerNext]_ledgerVars

-----------------------------------------------------------------------------

\* A signature the page goes on with is by the address it was asked of and over
\* the bytes it was asked for, although operations take turns on the device part
\* by part, answers may be late or another tab's, and the device may change
\* (useLedger.ts sign, signer.ts send).
SignedByAccount ==
    handed # None =>
        /\ handed.reply.value.address = handed.expected
        /\ handed.reply.value.signed = <<handed.payload, handed.payload>>

\* The addresses and the app that are shown are the device's, whatever other tabs
\* and operations the reports came between, unless the device changed without
\* disconnecting, or still owed an answer when a command was sent
\* (transport.ts exchange).
ShowsDevice ==
    hook.app # None /\ ~oddity =>
        /\ plugged.app = hook.app
        /\ \A i \in DOMAIN hook.accounts :
              hook.accounts[i].address = AddressAt(plugged.seed, hook.accounts[i].path)

=============================================================================
