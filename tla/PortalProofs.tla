----------------------------- MODULE PortalProofs -----------------------------
(***************************************************************************)
(* Proofs about the pages of the portal: the account and the device that   *)
(* every page acts with, the tables of the vault page, and the portal as a *)
(* whole.                                                                  *)
(***************************************************************************)
EXTENDS Portal, VaultPageProofs, SequenceTheorems, TLAPS

-----------------------------------------------------------------------------
(* The account the page acts for (Wallet).                                  *)

SharedAccount == [address : Accounts, chains : (SUBSET Chains) \ {{}}]
Shared == Seq(SharedAccount)

\* What is found among the shared accounts is one of them.
LEMMA FirstIsShared ==
  ASSUME NEW shared, NEW places \in SUBSET DOMAIN shared, shared \in Shared
  PROVE  FirstOf(shared, places) = None \/ \E i \in DOMAIN shared : FirstOf(shared, places) = shared[i]
<1>1. CASE places = {}
  BY <1>1 DEF FirstOf
<1>2. CASE places # {}
  <2>1. places \in SUBSET Nat
    BY DEF Shared
  <2>2. \E i \in places : \A j \in places : i <= j
    BY <1>2, <2>1, LeastPlace
  <2>3. (CHOOSE i \in places : \A j \in places : i <= j) \in places
    BY <2>2
  <2>. QED  BY <1>2, <2>3 DEF FirstOf
<1>. QED  BY <1>1, <1>2

LEMMA ChosenIsShared ==
  ASSUME NEW shared \in Shared, NEW picked, NEW current
  PROVE  LET found == ChooseAccount(shared, picked, current)
         IN  found = None \/ \E i \in DOMAIN shared : found = shared[i]
<1>1. {i \in DOMAIN shared : shared[i].address = picked} \in SUBSET DOMAIN shared
  OBVIOUS
<1>2. {i \in DOMAIN shared : "harmony" \in shared[i].chains} \in SUBSET DOMAIN shared
  OBVIOUS
<1>3. {i \in DOMAIN shared : shared[i].address = current} \in SUBSET DOMAIN shared
  OBVIOUS
<1>4. shared # <<>> => 1 \in DOMAIN shared
  BY DEF Shared
<1>. QED  BY <1>1, <1>2, <1>3, <1>4, FirstIsShared DEF ChooseAccount

LEMMA SessionAccountIsShared ==
  ASSUME ConfirmPageTypeOK
  PROVE  /\ connection.chain \in Chains
         /\ SessionAccount # None =>
               SessionAccount \in SharedAccount
         /\ Connected \in Accounts \cup {None}
<1>1. connection.shared \in Shared /\ connection.chain \in Chains
      /\ connection.current \in Accounts \cup {None}
  <2>1. CASE connection \in Connections
    <3>1. connection \in WalletState
      BY <2>1, ConfirmPageAssumption
    <3>. QED  BY <3>1 DEF WalletState, Shared, SharedAccount
  <2>2. CASE connection = Unconnected
    <3>1. <<>> \in Shared
      BY DEF Shared
    <3>. QED  BY <2>2, <3>1 DEF Unconnected, Chains
  <2>. QED  BY <2>1, <2>2 DEF ConfirmPageTypeOK
<1>2. SessionAccount = None \/ \E i \in DOMAIN connection.shared : SessionAccount = connection.shared[i]
  BY <1>1, ChosenIsShared DEF SessionAccount
<1>3. SessionAccount # None =>
        SessionAccount \in SharedAccount
  <2>1. \A i \in DOMAIN connection.shared :
          connection.shared[i] \in SharedAccount
    BY <1>1 DEF Shared
  <2>. QED  BY <1>2, <2>1
<1>. QED  BY <1>1, <1>3 DEF SharedAccount, Connected, WalletAddress, ConfirmPageTypeOK

\* A request goes to a chain the account is shared on.
LEMMA RequestIsShared ==
  ASSUME NEW item \in SharedAccount, NEW current
  PROVE  RequestChain(item, current) \in item.chains
  BY DEF SharedAccount, RequestChain

-----------------------------------------------------------------------------
(* The confirm page (ConfirmPage).                                          *)

\* The API has a record of the address's own confirmation under a set.
Recorded(a, set) == \E row \in recorded : row.address = a /\ row.by = a /\ row.version = set

\* Who signed, and where, is settled before anything is submitted.
SubmissionInv ==
    /\ Waiting => confirm.me \in Accounts /\ confirm.chain \in confirm.shared
    /\ confirm.phase = "submit" => confirm.by = confirm.me

\* Whatever says that an address is confirmed, shown or on its way, is recorded.
StatusInv ==
    /\ status \in [Accounts -> Status \cup {None}]
    /\ \A row \in recorded : row.by = row.address
    /\ asked # None => asked.of \in Accounts /\ asked.answer \in Status
    /\ asked # None /\ asked.answer.confirmed => Recorded(asked.of, asked.answer.version)
    /\ \A a \in Accounts :
          status[a] # None /\ status[a].confirmed => Recorded(a, status[a].version)

ConfirmInv == ConfirmPageTypeOK /\ SubmissionInv /\ StatusInv

LEMMA ConfirmInitTyped == ConfirmPageInit => ConfirmInv
<1>. SUFFICES ASSUME ConfirmPageInit PROVE ConfirmInv
  OBVIOUS
<1>. USE ConfirmPageAssumption DEF ConfirmPageInit
<1>1. NoSubmission \in Submission
  BY DEF NoSubmission, Submission, Chains, Versions
<1>2. ConfirmPageTypeOK
  BY <1>1 DEF ConfirmPageTypeOK, Versions
<1>3. SubmissionInv
  BY DEF SubmissionInv, Waiting, NoSubmission
<1>4. StatusInv
  BY DEF StatusInv
<1>. QED  BY <1>2, <1>3, <1>4 DEF ConfirmInv

LEMMA ConfirmNextTyped == ConfirmInv /\ [ConfirmPageNext]_confirmPageVars => ConfirmInv'
<1>. SUFFICES ASSUME ConfirmInv, [ConfirmPageNext]_confirmPageVars PROVE ConfirmInv'
  OBVIOUS
<1>a. connection.chain \in Chains /\ Connected \in Accounts \cup {None}
  BY SessionAccountIsShared DEF ConfirmInv
<1>b. SessionAccount # None =>
        SessionAccount \in SharedAccount
  BY SessionAccountIsShared DEF ConfirmInv
<1>c. ConfirmPageTypeOK /\ SubmissionInv /\ StatusInv
  BY DEF ConfirmInv
\* Steps of the wallet, the person and the Ledger.
<1>1. ASSUME UNCHANGED <<version, recorded, status, asked, confirm>>,
             connection' \in Connections \cup {Unconnected}, chosen' \in Accounts \cup {None},
             usb' \in Accounts \cup {None}, switches' \in 0 .. MaxSwitches
      PROVE  ConfirmInv'
  BY <1>1, <1>c DEF ConfirmInv, ConfirmPageTypeOK, SubmissionInv, Waiting, StatusInv, Recorded
<1>2. ASSUME NEW c \in Connections \cup {Unconnected}, ConnectionChanges(c)
      PROVE  ConfirmInv'
  BY <1>1, <1>2, <1>c, ConfirmPageAssumption DEF ConnectionChanges, Switched, ConfirmPageTypeOK
<1>3. ASSUME NEW a \in Accounts, Pick(a)
      PROVE  ConfirmInv'
  BY <1>1, <1>3, <1>c, ConfirmPageAssumption DEF Pick, Switched, ConfirmPageTypeOK
<1>4. ASSUME NEW a \in Accounts \cup {None}, UsbChanges(a)
      PROVE  ConfirmInv'
  BY <1>1, <1>4, <1>c, ConfirmPageAssumption DEF UsbChanges, Switched, ConfirmPageTypeOK
\* Steps of the submission that record nothing.
<1>5. ASSUME UNCHANGED <<version, recorded, connection, chosen, usb, status, asked, switches>>,
             confirm' \in Submission, SubmissionInv'
      PROVE  ConfirmInv'
  BY <1>5, <1>c DEF ConfirmInv, ConfirmPageTypeOK, StatusInv, Recorded
<1>6. ASSUME ConfirmFails
      PROVE  confirm' \in Submission /\ SubmissionInv'
  BY <1>6, <1>c DEF ConfirmFails, ConfirmPageTypeOK, Submission, SubmissionInv, Waiting
<1>7. CASE NextVersion
  BY <1>7, <1>c, ConfirmPageAssumption
     DEF NextVersion, ConfirmInv, ConfirmPageTypeOK, Versions, SubmissionInv, Waiting, StatusInv, Recorded
<1>8. CASE AskStatus
  <2>1. Connected \in Accounts
    BY <1>8, <1>a DEF AskStatus
  <2>2. StatusOf(Connected) \in Status
    BY <1>c DEF StatusOf, Status, ConfirmPageTypeOK
  <2>3. StatusOf(Connected).confirmed => Recorded(Connected, StatusOf(Connected).version)
    BY <1>c DEF StatusOf, StatusInv, Recorded
  <2>4. asked' = [of |-> Connected, answer |-> StatusOf(Connected)]
    BY <1>8 DEF AskStatus
  <2>5. /\ asked'.of \in Accounts /\ asked'.answer \in Status
        /\ asked'.answer.confirmed => Recorded(asked'.of, asked'.answer.version)
        /\ asked' \in [of : Accounts, answer : Status]
    BY <2>1, <2>2, <2>3, <2>4
  <2>6. UNCHANGED <<version, recorded, connection, chosen, usb, status, confirm, switches>>
    BY <1>8 DEF AskStatus
  <2>. QED  BY <2>5, <2>6, <1>c
            DEF ConfirmInv, ConfirmPageTypeOK, SubmissionInv, Waiting, StatusInv, Recorded
<1>9. CASE StatusArrives
  <2>1. asked.of \in Accounts /\ asked.answer \in Status
    BY <1>9, <1>c DEF StatusArrives, StatusInv
  <2>2. status' = [status EXCEPT ![asked.of] = asked.answer] /\ asked' = None
        /\ UNCHANGED <<version, recorded, connection, chosen, usb, confirm, switches>>
    BY <1>9 DEF StatusArrives
  <2>3. status' \in [Accounts -> Status \cup {None}]
    BY <2>1, <2>2, <1>c DEF StatusInv
  <2>4. \A a \in Accounts :
          status'[a] # None /\ status'[a].confirmed => Recorded(a, status'[a].version)
    BY <1>9, <2>1, <2>2, <1>c DEF StatusArrives, StatusInv
  <2>. QED  BY <2>2, <2>3, <2>4, <1>c
            DEF ConfirmInv, ConfirmPageTypeOK, SubmissionInv, Waiting, StatusInv, Recorded
<1>10. CASE Confirm
  <2>1. Connected \in Accounts
    BY <1>10, <1>a DEF Confirm
  <2>2. usb = None /\ SessionAccount # None =>
          /\ SessionAccount.chains \in SUBSET Chains
          /\ RequestChain(SessionAccount, connection.chain) \in SessionAccount.chains
    BY <1>b, RequestIsShared DEF SharedAccount
  <2>3. confirm' \in Submission /\ confirm'.me \in Accounts /\ confirm'.chain \in confirm'.shared
        /\ confirm'.phase = "challenge"
    <3>. DEFINE via == IF usb # None THEN "ledger" ELSE "wallet"
                shared == IF usb = None /\ SessionAccount # None THEN SessionAccount.chains ELSE Chains
                chain == IF usb = None /\ SessionAccount # None
                         THEN RequestChain(SessionAccount, connection.chain) ELSE connection.chain
    <3>1. via \in {"wallet", "ledger"} /\ shared \in SUBSET Chains /\ chain \in shared
      BY <1>a, <2>2
    <3>2. confirm' = [NoSubmission EXCEPT !.phase = "challenge", !.me = Connected, !.via = via,
                                          !.shared = shared, !.chain = chain]
      BY <1>10 DEF Confirm
    <3>. HIDE DEF via, shared, chain
    <3>3. confirm' = [phase |-> "challenge", me |-> Connected, via |-> via, challenge |-> 0,
                      by |-> None, shared |-> shared, chain |-> chain]
      BY <3>2 DEF NoSubmission
    <3>4. 0 \in Versions
      BY ConfirmPageAssumption DEF Versions
    <3>. QED  BY <2>1, <3>1, <3>3, <3>4 DEF Submission
  <2>4. SubmissionInv'
    BY <2>3 DEF SubmissionInv, Waiting
  <2>. QED  BY <1>5, <1>10, <2>3, <2>4 DEF Confirm
<1>11. CASE Challenge
  BY <1>5, <1>11, <1>c DEF Challenge, ConfirmPageTypeOK, Submission, SubmissionInv, Waiting
<1>12. CASE CheckVersion
  BY <1>5, <1>6, <1>12, <1>c DEF CheckVersion, ConfirmPageTypeOK, Submission, SubmissionInv, Waiting
<1>13. ASSUME NEW a \in Accounts, Sign(a)
       PROVE  ConfirmInv'
  BY <1>5, <1>6, <1>13, <1>c DEF Sign, ConfirmPageTypeOK, Submission, SubmissionInv, Waiting
<1>14. CASE ConfirmError
  BY <1>5, <1>6, <1>14 DEF ConfirmError
<1>15. CASE Submit
  <2>. DEFINE row == [address |-> confirm.me, version |-> version, by |-> confirm.by]
  <2>1. CASE version # confirm.challenge \/ confirm.by # confirm.me
    BY <1>5, <1>6, <1>15, <2>1 DEF Submit
  <2>2. CASE ~(version # confirm.challenge \/ confirm.by # confirm.me)
    <3>1. recorded' = recorded \cup {row} /\ asked' \in {asked, None}
          /\ (confirm' = [confirm EXCEPT !.phase = "confirmed"] \/ ConfirmFails)
          /\ UNCHANGED <<version, connection, chosen, usb, status, switches>>
      BY <1>15, <2>2 DEF Submit
    <3>2. row \in [address : Accounts, version : Versions, by : Accounts] /\ row.by = row.address
      BY <1>15, <2>2, <1>c DEF Submit, SubmissionInv, Waiting, ConfirmPageTypeOK
    <3>3. confirm' \in Submission /\ SubmissionInv'
      BY <3>1, <1>6, <1>c DEF ConfirmPageTypeOK, Submission, SubmissionInv, Waiting
    <3>4. ConfirmPageTypeOK'
      BY <3>1, <3>2, <3>3, <1>c DEF ConfirmPageTypeOK
    <3>5. \A a, set : Recorded(a, set) => Recorded(a, set)'
      BY <3>1 DEF Recorded
    <3>6. \A r \in recorded' : r.by = r.address
      BY <3>1, <3>2, <1>c DEF StatusInv
    <3>. HIDE DEF row
    <3>7. StatusInv'
      BY <3>1, <3>5, <3>6, <1>c DEF StatusInv
    <3>. QED  BY <3>3, <3>4, <3>7 DEF ConfirmInv
  <2>. QED  BY <2>1, <2>2
<1>16. CASE UNCHANGED confirmPageVars
  BY <1>16, <1>c
     DEF confirmPageVars, ConfirmInv, ConfirmPageTypeOK, SubmissionInv, Waiting, StatusInv, Recorded
<1>. QED  BY <1>2, <1>3, <1>4, <1>7, <1>8, <1>9, <1>10, <1>11, <1>12, <1>13, <1>14, <1>15, <1>16
          DEF ConfirmPageNext

LEMMA ConfirmInvariance == ConfirmPageSpec => []ConfirmInv
<1>1. ConfirmPageInit => ConfirmInv
  BY ConfirmInitTyped
<1>2. ConfirmInv /\ [ConfirmPageNext]_confirmPageVars => ConfirmInv'
  BY ConfirmNextTyped
<1>. QED  BY <1>1, <1>2, PTL DEF ConfirmPageSpec

LEMMA InvConfirmedIsRecorded == ConfirmInv => ConfirmedIsRecorded
<1>. SUFFICES ASSUME ConfirmInv, Connected # None, status[Connected] # None, status[Connected].confirmed
              PROVE  \E row \in recorded :
                        /\ row.address = Connected /\ row.by = Connected
                        /\ row.version = status[Connected].version
  BY DEF ConfirmedIsRecorded
<1>1. Connected \in Accounts
  BY SessionAccountIsShared DEF ConfirmInv
<1>. QED  BY <1>1 DEF ConfirmInv, StatusInv, Recorded

LEMMA InvSubmittedIsOwn == ConfirmInv => SubmittedIsOwn
  BY DEF ConfirmInv, SubmissionInv, Waiting, SubmittedIsOwn

-----------------------------------------------------------------------------
(* A Ledger over USB (LedgerSession).                                       *)

Sent == [channel : Nat, command : ReadingCommand \cup SigningCommand]

\* The last report of an answer has the answer.
Report ==
    {r \in [channel : Nat, sequence : 0 .. 1, reply : Reply \cup {None}] : r.sequence = 1 => r.reply # None}

LedgerTypes ==
    /\ plugged \in Device \cup {None}
    /\ unfinished \in [op : {"message", "tx"}, path : Path, payload : Signings] \cup {None}
    /\ toDevice \in Seq(Sent)
    /\ wire \in Seq(Report) /\ reports \in Seq(Report)
    /\ connects \in 0 .. MaxConnects
    /\ open \in 0 .. connects
    /\ queue \in Seq(Operations)
    /\ exchange \in [step : {"sending", "reading"}, got : 0 .. 1]
    /\ jobs \in [Operations -> ReadingJob \cup SigningJob \cup {None}]
    /\ jobs["read"] \in ReadingJob \cup {None}
    /\ \A o \in Signings : jobs[o] \in SigningJob \cup {None}
    /\ hook \in [app : (Apps \ {"BOLOS"}) \cup {None},
                 scheme : {"ledger-live", "bip44", "legacy", "harmony"},
                 accounts : Seq(Account), selected : 1 .. Shown]
    /\ hook.app # None => hook.selected \in DOMAIN hook.accounts
    /\ oddity \in BOOLEAN
    /\ events \in 0 .. MaxEvents

\* An operation waits in the queue once while it has commands left, and only then.
QueueInv ==
    /\ \A i, j \in DOMAIN queue : queue[i] = queue[j] => i = j
    /\ \A o \in Operations : jobs[o] # None <=> \E i \in DOMAIN queue : queue[i] = o
    /\ \A o \in Operations : jobs[o] # None => jobs[o].todo # <<>>

\* Nothing is shown and nothing waits without an open transport, and there is
\* one while something is shown or the connection is read.
SessionInv ==
    /\ plugged = None => open = 0 /\ toDevice = <<>> /\ wire = <<>>
    /\ open = 0 => hook.app = None /\ \A o \in Operations : jobs[o] = None
    /\ open # 0 => hook.app # None \/ jobs["read"] # None
    /\ hook.app = None => \A o \in Signings : jobs[o] = None
    /\ \A i \in DOMAIN toDevice : toDevice[i].channel <= connects
    /\ \A i \in DOMAIN wire : wire[i].channel <= connects

\* What the device answers to a reading command depends on the device alone.
IsAnswer(reply, command, device) ==
    \/ reply = None \/ reply = StatusError
    \/ command \in ReadingCommand => reply = ReadAnswer(command, device)

\* Whatever is on the open channel is of the exchange under way.
ExchangeInv ==
    Serving /\ ~oddity =>
        /\ \A i \in DOMAIN toDevice : toDevice[i].channel = open =>
              exchange.step = "reading" /\ toDevice[i].command = Head(Now.todo)
        /\ \A i \in DOMAIN wire : wire[i].channel = open =>
              exchange.step = "reading" /\ IsAnswer(wire[i].reply, Head(Now.todo), plugged)
        /\ \A i \in DOMAIN reports : reports[i].channel = open =>
              exchange.step = "reading" /\ IsAnswer(reports[i].reply, Head(Now.todo), plugged)

OfDevice(accounts) ==
    \A i \in DOMAIN accounts : accounts[i].address = AddressAt(plugged.seed, accounts[i].path)

\* What is shown, and what is read of it so far, is the device's; the app is
\* known before an address is asked for.
ReadInv ==
    /\ jobs["read"] # None =>
          /\ \A i \in DOMAIN jobs["read"].todo :
                jobs["read"].todo[i].op = "address" => jobs["read"].app # None
          /\ ~oddity => OfDevice(jobs["read"].list)
          /\ ~oddity /\ jobs["read"].app # None => plugged.app = jobs["read"].app
    /\ hook.app # None /\ ~oddity => plugged.app = hook.app /\ OfDevice(hook.accounts)

LedgerInv == LedgerTypes /\ QueueInv /\ SessionInv /\ ExchangeInv /\ ReadInv /\ SignedByAccount


\* What a sequence loses, or gains at its end.
LEMMA LongTail ==
  ASSUME NEW T, NEW s \in Seq(T), Len(s) > 1
  PROVE  Tail(s) \in Seq(T) /\ Tail(s) # <<>>
<1>1. s # <<>> /\ Len(s) \in Nat
  BY LenProperties
<1>2. Tail(s) \in Seq(T) /\ Len(Tail(s)) = Len(s) - 1
  BY <1>1, HeadTailProperties
<1>3. Len(Tail(s)) # 0
  BY <1>1, <1>2
<1>. QED  BY <1>2, <1>3, EmptySeq

LEMMA AppendOf ==
  ASSUME NEW T, NEW s \in Seq(T), NEW x \in T
  PROVE  /\ Append(s, x) \in Seq(T) /\ Append(s, x) # <<>>
         /\ \A i \in DOMAIN s : i \in DOMAIN Append(s, x) /\ Append(s, x)[i] = s[i]
         /\ Len(s) + 1 \in DOMAIN Append(s, x) /\ Append(s, x)[Len(s) + 1] = x
         /\ \A i \in DOMAIN Append(s, x) :
               (i \in DOMAIN s /\ Append(s, x)[i] = s[i]) \/ (i = Len(s) + 1 /\ Append(s, x)[i] = x)
  OBVIOUS

LEMMA JoinOf ==
  ASSUME NEW T, NEW s \in Seq(T), NEW t \in Seq(T)
  PROVE  /\ s \o t \in Seq(T)
         /\ \A i \in DOMAIN (s \o t) :
               \/ i \in DOMAIN s /\ (s \o t)[i] = s[i]
               \/ \E j \in DOMAIN t : (s \o t)[i] = t[j]
<1>1. s \o t \in Seq(T) /\ Len(s \o t) = Len(s) + Len(t) /\ DOMAIN s = 1 .. Len(s) /\ DOMAIN t = 1 .. Len(t)
      /\ DOMAIN (s \o t) = 1 .. Len(s) + Len(t)
  OBVIOUS
<1>2. ASSUME NEW i \in DOMAIN (s \o t)
      PROVE  \/ i \in DOMAIN s /\ (s \o t)[i] = s[i]
             \/ \E j \in DOMAIN t : (s \o t)[i] = t[j]
  <2>1. CASE i <= Len(s)
    BY <1>1, <2>1
  <2>2. CASE ~(i <= Len(s))
    <3>1. i - Len(s) \in DOMAIN t /\ (s \o t)[i] = t[i - Len(s)]
      BY <1>1, <2>2
    <3>. QED  BY <3>1
  <2>. QED  BY <2>1, <2>2
<1>. QED  BY <1>1, <1>2

Distinct(s) == \A i, j \in DOMAIN s : s[i] = s[j] => i = j
Among(s, x) == \E i \in DOMAIN s : s[i] = x

\* A queue of distinct entries whose first one leaves, goes to its end, or which
\* another one joins.
LEMMA TailDistinct ==
  ASSUME NEW T, NEW s \in Seq(T), s # <<>>, Distinct(s)
  PROVE  /\ Distinct(Tail(s))
         /\ \A x : Among(Tail(s), x) <=> Among(s, x) /\ x # Head(s)
<1>1. \A i \in DOMAIN Tail(s) : i \in Nat /\ i >= 1
  OBVIOUS
<1>2. Distinct(Tail(s))
  BY TailOf, <1>1 DEF Distinct
<1>3. ASSUME NEW x, Among(Tail(s), x) PROVE Among(s, x) /\ x # Head(s)
  <2>1. PICK i \in DOMAIN Tail(s) : Tail(s)[i] = x
    BY <1>3 DEF Among
  <2>2. i + 1 \in DOMAIN s /\ s[i + 1] = x /\ i + 1 # 1 /\ 1 \in DOMAIN s /\ Head(s) = s[1]
    BY <2>1, <1>1, TailOf
  <2>3. Among(s, x)
    BY <2>2 DEF Among
  <2>4. x # Head(s)
    BY <2>2 DEF Distinct
  <2>. QED  BY <2>3, <2>4
<1>4. ASSUME NEW x, Among(s, x), x # Head(s) PROVE Among(Tail(s), x)
  <2>1. PICK i \in DOMAIN s : s[i] = x
    BY <1>4 DEF Among
  <2>2. i # 1
    BY <2>1, <1>4, TailOf
  <2>3. i - 1 \in DOMAIN Tail(s) /\ Tail(s)[i - 1] = x
    BY <2>1, <2>2, TailOf
  <2>. QED  BY <2>3 DEF Among
<1>. QED  BY <1>2, <1>3, <1>4

LEMMA AppendDistinct ==
  ASSUME NEW T, NEW s \in Seq(T), Distinct(s), NEW x \in T, ~Among(s, x)
  PROVE  /\ Distinct(Append(s, x))
         /\ \A y : Among(Append(s, x), y) <=> Among(s, y) \/ y = x
<1>1. Distinct(Append(s, x))
  BY AppendOf DEF Distinct, Among
<1>2. ASSUME NEW y, Among(Append(s, x), y) PROVE Among(s, y) \/ y = x
  BY AppendOf, <1>2 DEF Among
<1>3. ASSUME NEW y, Among(s, y) \/ y = x PROVE Among(Append(s, x), y)
  BY AppendOf, <1>3 DEF Among
<1>. QED  BY <1>1, <1>2, <1>3

LEMMA RotateDistinct ==
  ASSUME NEW T, NEW s \in Seq(T), s # <<>>, Distinct(s)
  PROVE  /\ Append(Tail(s), Head(s)) \in Seq(T)
         /\ Distinct(Append(Tail(s), Head(s)))
         /\ \A y : Among(Append(Tail(s), Head(s)), y) <=> Among(s, y)
<1>1. Tail(s) \in Seq(T) /\ Head(s) \in T
  BY TailOf
<1>2. Distinct(Tail(s)) /\ \A y : Among(Tail(s), y) <=> Among(s, y) /\ y # Head(s)
  BY TailDistinct
<1>3. Among(s, Head(s))
  BY TailOf DEF Among
<1>4. ~Among(Tail(s), Head(s))
  BY <1>2
<1>5. Append(Tail(s), Head(s)) \in Seq(T)
  BY <1>1
<1>. HIDE DEF Among, Distinct
<1>6. /\ Distinct(Append(Tail(s), Head(s)))
      /\ \A y : Among(Append(Tail(s), Head(s)), y) <=> Among(Tail(s), y) \/ y = Head(s)
  BY <1>1, <1>2, <1>4, AppendDistinct
<1>. QED  BY <1>2, <1>3, <1>5, <1>6


-----------------------------------------------------------------------------

\* The operation whose command is under way has commands left.
LEMMA ServedJob ==
  ASSUME LedgerInv, Serving
  PROVE  /\ Head(queue) \in Operations /\ Now # None /\ Now = jobs[Head(queue)]
         /\ Now \in ReadingJob \cup SigningJob
         /\ Head(queue) = "read" => Now \in ReadingJob
         /\ Head(queue) # "read" => Now \in SigningJob
         /\ Now.todo \in Seq(ReadingCommand \cup SigningCommand) /\ Now.todo # <<>>
         /\ Head(Now.todo) \in ReadingCommand \cup SigningCommand
         /\ Head(queue) = "read" => Head(Now.todo) \in ReadingCommand
         /\ open # 0 /\ plugged \in Device
<1>1. queue \in Seq(Operations) /\ queue # <<>>
  BY DEF LedgerInv, LedgerTypes, Serving
<1>2. Head(queue) \in Operations /\ 1 \in DOMAIN queue /\ Head(queue) = queue[1]
  BY <1>1, TailOf
<1>3. Now # None /\ Now.todo # <<>> /\ Now = jobs[Head(queue)]
  BY <1>2 DEF LedgerInv, QueueInv, Now
<1>4. Head(queue) = "read" => Now \in ReadingJob
  BY <1>2, <1>3 DEF LedgerInv, LedgerTypes
<1>5. Head(queue) # "read" => Now \in SigningJob
  BY <1>2, <1>3 DEF LedgerInv, LedgerTypes, Operations
<1>6. Head(queue) = "read" => Now.todo \in Seq(ReadingCommand) /\ Head(Now.todo) \in ReadingCommand
  BY <1>3, <1>4, TailOf DEF ReadingJob
<1>7. Head(queue) # "read" => Now.todo \in Seq(SigningCommand) /\ Head(Now.todo) \in SigningCommand
  BY <1>3, <1>5, TailOf DEF SigningJob
<1>8. Now.todo \in Seq(ReadingCommand \cup SigningCommand)
  BY <1>6, <1>7
<1>9. open # 0 /\ plugged \in Device
  BY <1>2, <1>3 DEF LedgerInv, SessionInv, LedgerTypes
<1>. QED  BY <1>2, <1>3, <1>4, <1>5, <1>6, <1>7, <1>8, <1>9

\* The device answers a command with a reply.
LEMMA AnswersAreReplies ==
  ASSUME LedgerTypes, plugged \in Device, NEW c \in ReadingCommand \cup SigningCommand
  PROVE  Answers(c) \in Reply /\ StatusError \in Reply /\ OK \in Reply
<1>1. StatusError \in Reply /\ OK \in Reply
  BY DEF StatusError, OK, Reply
<1>2. CASE c.op \in {"message", "tx"}
  <2>1. c \in SigningCommand
    BY <1>2 DEF ReadingCommand
  <2>2. SignAnswer(c) \in Reply
    <3>1. CASE c.part = 1 \/ unfinished = None \/ unfinished.op # c.op
      BY <3>1, <1>1 DEF SignAnswer
    <3>2. CASE ~(c.part = 1 \/ unfinished = None \/ unfinished.op # c.op)
      <4>1. AddressAt(plugged.seed, unfinished.path) \in Address
        BY <3>2 DEF LedgerTypes, AddressAt, Address, Device
      <4>2. <<unfinished.payload, c.payload>> \in Signings \X Signings
        BY <3>2, <2>1 DEF LedgerTypes, SigningCommand
      <4>. QED  BY <3>2, <4>1, <4>2 DEF SignAnswer, Reply, Signature
    <3>. QED  BY <3>1, <3>2
  <2>3. Answers(c) = IF c.path[1] \in PathsOf(plugged.app) THEN SignAnswer(c) ELSE StatusError
    BY <1>2 DEF Answers
  <2>. QED  BY <1>1, <2>2, <2>3
<1>3. CASE c.op \notin {"message", "tx"}
  <2>1. c \in ReadingCommand
    BY <1>3 DEF SigningCommand
  <2>2. CASE c.op = "address"
    <3>1. AddressAt(plugged.seed, c.path) \in Address
      BY <2>1, <2>2 DEF ReadingCommand, AddressAt, Address, Device
    <3>. QED  BY <1>1, <2>2, <3>1 DEF Answers, ReadAnswer, Reply
  <2>3. CASE c.op = "name"
    BY <1>1, <2>3 DEF Answers, ReadAnswer, Reply, Device
  <2>4. CASE c.op = "config"
    BY <1>1, <2>4 DEF Answers, ReadAnswer, Reply
  <2>5. CASE c.op = "version"
    BY <1>1, <2>5 DEF Answers, ReadAnswer, Reply
  <2>. QED  BY <2>1, <2>2, <2>3, <2>4, <2>5 DEF ReadingCommand
<1>. QED  BY <1>1, <1>2, <1>3

\* Of a reading command it does not depend on what was signed in part.
LEMMA ReadingAnswer ==
  ASSUME NEW c \in ReadingCommand
  PROVE  Answers(c) = ReadAnswer(c, plugged)
<1>1. c.op \notin {"message", "tx"}
  BY DEF ReadingCommand
<1>. QED  BY <1>1 DEF Answers

LEMMA ReportsAreTyped ==
  ASSUME NEW channel \in Nat, NEW reply \in Reply
  PROVE  /\ Reports(channel, reply) \in Seq(Report)
         /\ \A i \in DOMAIN Reports(channel, reply) :
               /\ Reports(channel, reply)[i].channel = channel
               /\ Reports(channel, reply)[i].reply \in {reply, None}
<1>. DEFINE first == [channel |-> channel, sequence |-> 0, reply |-> None]
            last == [channel |-> channel, sequence |-> 1, reply |-> reply]
            only == [channel |-> channel, sequence |-> 0, reply |-> reply]
<1>1. first \in Report /\ last \in Report /\ only \in Report
  BY LedgerAssumption DEF Report
<1>2. /\ first.channel = channel /\ last.channel = channel /\ only.channel = channel
      /\ first.reply = None /\ last.reply = reply /\ only.reply = reply
  OBVIOUS
<1>3. Reports(channel, reply) = <<first, last>> \/ Reports(channel, reply) = <<only>>
  BY DEF Reports
<1>. HIDE DEF first, last, only
<1>4. CASE Reports(channel, reply) = <<first, last>>
  <2>1. <<first, last>> \in Seq(Report) /\ DOMAIN <<first, last>> = {1, 2}
    BY <1>1
  <2>. QED  BY <1>2, <1>4, <2>1
<1>5. CASE Reports(channel, reply) = <<only>>
  <2>1. <<only>> \in Seq(Report) /\ DOMAIN <<only>> = {1}
    BY <1>1
  <2>. QED  BY <1>2, <1>5, <2>1
<1>. QED  BY <1>3, <1>4, <1>5


\* What holds once every operation has ended and nothing is shown.
LEMMA ClosedHolds ==
  ASSUME LedgerInv, Closed
  PROVE  /\ open' = 0 /\ queue' \in Seq(Operations) /\ exchange' \in [step : {"sending", "reading"}, got : 0 .. 1]
         /\ reports' \in Seq(Report) /\ oddity' \in BOOLEAN
         /\ jobs' \in [Operations -> ReadingJob \cup SigningJob \cup {None}]
         /\ \A o \in Operations : jobs'[o] = None
         /\ hook' = NoHook /\ hook'.app = None
         /\ hook' \in [app : (Apps \ {"BOLOS"}) \cup {None},
                      scheme : {"ledger-live", "bip44", "legacy", "harmony"},
                      accounts : Seq(Account), selected : 1 .. Shown]
         /\ QueueInv' /\ ExchangeInv' /\ ReadInv'
<1>1. hook' = [app |-> None, scheme |-> "harmony", accounts |-> <<>>, selected |-> 1]
  BY DEF Closed, NoHook
<1>2. 1 \in 1 .. Shown
  BY DEF Shown
<1>3. <<>> \in Seq(Account) /\ <<>> \in Seq(Operations) /\ <<>> \in Seq(Report) /\ DOMAIN <<>> = {}
  OBVIOUS
<1>4. QueueInv'
  BY DEF Closed, QueueInv
<1>5. ExchangeInv'
  BY DEF Closed, ExchangeInv, Serving
<1>6. ReadInv'
  BY <1>1 DEF Closed, ReadInv, Operations
<1>7. exchange' \in [step : {"sending", "reading"}, got : 0 .. 1]
  BY DEF Closed, Fresh
<1>8. hook' \in [app : (Apps \ {"BOLOS"}) \cup {None},
                  scheme : {"ledger-live", "bip44", "legacy", "harmony"},
                  accounts : Seq(Account), selected : 1 .. Shown]
  BY <1>1, <1>2, <1>3
<1>9. /\ open' = 0 /\ queue' \in Seq(Operations) /\ reports' \in Seq(Report) /\ oddity' \in BOOLEAN
      /\ jobs' \in [Operations -> ReadingJob \cup SigningJob \cup {None}]
      /\ \A o \in Operations : jobs'[o] = None
      /\ hook' = NoHook
  BY <1>3 DEF Closed
<1>10. hook'.app = None
  BY <1>1
<1>. QED  BY <1>4, <1>5, <1>6, <1>7, <1>8, <1>9, <1>10

LEMMA ClosedKeeps ==
  ASSUME LedgerInv, Closed, UNCHANGED <<deviceVars, connects, handed>>, events' \in 0 .. MaxEvents
  PROVE  LedgerInv'
<1>. USE DEF deviceVars
<1>a. /\ open' = 0 /\ queue' \in Seq(Operations) /\ exchange' \in [step : {"sending", "reading"}, got : 0 .. 1]
      /\ reports' \in Seq(Report) /\ oddity' \in BOOLEAN
      /\ jobs' \in [Operations -> ReadingJob \cup SigningJob \cup {None}]
      /\ \A o \in Operations : jobs'[o] = None
      /\ hook'.app = None
      /\ hook' \in [app : (Apps \ {"BOLOS"}) \cup {None},
                   scheme : {"ledger-live", "bip44", "legacy", "harmony"},
                   accounts : Seq(Account), selected : 1 .. Shown]
      /\ QueueInv' /\ ExchangeInv' /\ ReadInv'
  BY ClosedHolds
<1>b. "read" \in Operations /\ Signings \subseteq Operations
  BY DEF Operations
<1>c. LedgerTypes /\ SessionInv /\ SignedByAccount
  BY DEF LedgerInv
<1>1. LedgerTypes'
  BY <1>a, <1>b, <1>c DEF LedgerTypes
<1>2. SessionInv'
  BY <1>a, <1>b, <1>c DEF SessionInv
<1>3. SignedByAccount'
  BY <1>c DEF SignedByAccount
<1>. QED  BY <1>1, <1>2, <1>3, <1>a DEF LedgerInv

\* An exchange starts with nothing on its channel, or the page does not know.
LEMMA TurnIsFresh ==
  ASSUME LedgerTypes, NEW next, Turn(next), UNCHANGED <<toDevice, wire, open>>, open # 0
  PROVE  /\ ExchangeInv'
         /\ exchange' \in [step : {"sending", "reading"}, got : 0 .. 1]
         /\ reports' \in Seq(Report) /\ oddity' \in BOOLEAN
         /\ oddity => oddity'
<1>1. exchange' \in [step : {"sending", "reading"}, got : 0 .. 1]
  BY DEF Turn, Fresh
<1>2. reports' \in Seq(Report) /\ oddity' \in BOOLEAN /\ (oddity => oddity')
  BY DEF Turn, LedgerTypes
<1>3. ASSUME queue' # <<>>, ~oddity'
      PROVE  ~AnswerOwed /\ reports' = <<>>
  BY <1>3 DEF Turn
<1>4. ExchangeInv'
  BY <1>3 DEF ExchangeInv, Serving, AnswerOwed
<1>. QED  BY <1>1, <1>2, <1>4

\* The first operation goes on with job `after`, or has ended.
LEMMA NextTurn ==
  ASSUME LedgerInv, Serving, NEW after,
         \/ after = None /\ Dequeue(FALSE)
         \/ /\ after # None /\ Dequeue(TRUE)
            /\ after \in IF Head(queue) = "read" THEN ReadingJob ELSE SigningJob
            /\ after.todo # <<>>,
         jobs' = [jobs EXCEPT ![Head(queue)] = after],
         UNCHANGED <<deviceVars, connects, open, events>>,
         \/ UNCHANGED hook /\ (after # None \/ hook.app # None)
         \/ /\ hook' \in [app : Apps \ {"BOLOS"}, scheme : {"ledger-live", "bip44", "legacy", "harmony"},
                         accounts : Seq(Account), selected : 1 .. Shown]
            /\ hook'.selected \in DOMAIN hook'.accounts
  PROVE  LedgerTypes' /\ QueueInv' /\ SessionInv' /\ ExchangeInv' /\ (oddity => oddity')
<1>. USE DEF deviceVars
<1>. DEFINE next == IF after = None THEN Tail(queue) ELSE Append(Tail(queue), Head(queue))
<1>1. Turn(next)
  BY DEF Dequeue
<1>2. queue \in Seq(Operations) /\ queue # <<>> /\ Distinct(queue) /\ open # 0 /\ Head(queue) \in Operations
  BY ServedJob DEF Serving, LedgerInv, LedgerTypes, QueueInv, Distinct
<1>3. \A o \in Operations : jobs[o] # None <=> Among(queue, o)
  BY DEF LedgerInv, QueueInv, Among
<1>4. /\ next \in Seq(Operations) /\ Distinct(next)
      /\ \A o : Among(next, o) <=> Among(queue, o) /\ (after = None => o # Head(queue))
  <2>1. CASE after = None
    <3>1. Tail(queue) \in Seq(Operations)
      BY <1>2
    <3>2. Distinct(Tail(queue)) /\ \A o : Among(Tail(queue), o) <=> Among(queue, o) /\ o # Head(queue)
      BY <1>2, TailDistinct
    <3>. QED  BY <2>1, <3>1, <3>2
  <2>2. CASE after # None
    <3>1. /\ Append(Tail(queue), Head(queue)) \in Seq(Operations)
          /\ Distinct(Append(Tail(queue), Head(queue)))
          /\ \A o : Among(Append(Tail(queue), Head(queue)), o) <=> Among(queue, o)
      BY <1>2, RotateDistinct
    <3>. QED  BY <2>2, <3>1
  <2>. QED  BY <2>1, <2>2
<1>. HIDE DEF next
<1>5. queue' = next
  BY <1>1 DEF Turn
<1>6. /\ ExchangeInv' /\ (oddity => oddity')
      /\ exchange' \in [step : {"sending", "reading"}, got : 0 .. 1]
      /\ reports' \in Seq(Report) /\ oddity' \in BOOLEAN
  BY <1>1, <1>2, TurnIsFresh DEF LedgerInv
<1>7. jobs \in [Operations -> ReadingJob \cup SigningJob \cup {None}] /\ "read" \in Operations
      /\ jobs["read"] \in ReadingJob \cup {None} /\ \A o \in Signings : jobs[o] \in SigningJob \cup {None}
  BY DEF LedgerInv, LedgerTypes, Operations
<1>8. /\ jobs' \in [Operations -> ReadingJob \cup SigningJob \cup {None}]
      /\ \A o \in Operations : jobs'[o] = IF o = Head(queue) THEN after ELSE jobs[o]
  BY <1>2, <1>7
<1>9. jobs'["read"] \in ReadingJob \cup {None} /\ \A o \in Signings : jobs'[o] \in SigningJob \cup {None}
  BY <1>2, <1>7, <1>8, LedgerAssumption DEF Operations
<1>10. QueueInv'
  <2>1. \A i, j \in DOMAIN queue' : queue'[i] = queue'[j] => i = j
    BY <1>4, <1>5 DEF Distinct
  <2>2. \A o \in Operations : jobs'[o] # None <=> Among(next, o)
    <3>1. Among(queue, Head(queue))
      BY <1>2, <1>3, ServedJob
    <3>. QED  BY <1>2, <1>3, <1>4, <1>8, <3>1
  <2>3. \A o \in Operations : jobs'[o] # None => jobs'[o].todo # <<>>
    BY <1>2, <1>8 DEF LedgerInv, QueueInv
  <2>. QED  BY <1>5, <2>1, <2>2, <2>3 DEF QueueInv, Among
<1>11. hook' \in [app : (Apps \ {"BOLOS"}) \cup {None},
                  scheme : {"ledger-live", "bip44", "legacy", "harmony"},
                  accounts : Seq(Account), selected : 1 .. Shown]
       /\ (hook'.app # None => hook'.selected \in DOMAIN hook'.accounts)
  BY DEF LedgerInv, LedgerTypes
<1>12. LedgerTypes'
  BY <1>4, <1>5, <1>6, <1>8, <1>9, <1>11 DEF LedgerInv, LedgerTypes
<1>13. SessionInv'
  <2>1. hook'.app # None \/ jobs'["read"] # None
    BY <1>2, <1>7, <1>8, LedgerAssumption DEF LedgerInv, SessionInv
  <2>2. hook'.app = None => hook.app = None /\ after # None
    BY LedgerAssumption
  <2>3. hook'.app = None => Head(queue) = "read"
    BY <2>2, <1>2, <1>3, ServedJob DEF LedgerInv, SessionInv, Operations
  <2>4. hook'.app = None => \A o \in Signings : jobs'[o] = None
    BY <2>2, <2>3, <1>8, LedgerAssumption DEF LedgerInv, SessionInv, Operations
  <2>. QED  BY <1>2, <2>1, <2>4 DEF LedgerInv, SessionInv
<1>. QED  BY <1>6, <1>10, <1>12, <1>13


LEMMA FailKeeps ==
  ASSUME LedgerInv, Serving, FailOperation, UNCHANGED <<deviceVars, connects, handed, events>>
  PROVE  LedgerInv'
<1>1. CASE Head(queue) = "read" /\ hook.app = None
  <2>1. Closed
    BY <1>1 DEF FailOperation
  <2>2. events' \in 0 .. MaxEvents
    BY DEF LedgerInv, LedgerTypes
  <2>. QED  BY <2>1, <2>2, ClosedKeeps
<1>2. CASE ~(Head(queue) = "read" /\ hook.app = None)
  <2>1. /\ jobs' = [jobs EXCEPT ![Head(queue)] = None]
        /\ Dequeue(FALSE)
        /\ UNCHANGED <<open, hook>>
    BY <1>2 DEF FailOperation
  <2>2. Head(queue) \in Operations /\ jobs[Head(queue)] # None
    BY ServedJob
  <2>3. hook.app # None
    BY <1>2, <2>2 DEF LedgerInv, SessionInv, Operations
  <2>4. LedgerTypes' /\ QueueInv' /\ SessionInv' /\ ExchangeInv' /\ (oddity => oddity')
    BY <2>1, <2>3, NextTurn
  <2>5. jobs'["read"] = None \/ jobs'["read"] = jobs["read"]
    BY <2>1, <2>2 DEF LedgerInv, LedgerTypes, Operations
  <2>6. UNCHANGED <<plugged, hook>>
    BY <2>1 DEF deviceVars
  <2>7. ReadInv'
    BY <2>4, <2>5, <2>6 DEF LedgerInv, ReadInv, OfDevice, AddressAt
  <2>8. SignedByAccount'
    BY DEF LedgerInv, SignedByAccount
  <2>. QED  BY <2>4, <2>7, <2>8 DEF LedgerInv
<1>. QED  BY <1>1, <1>2

\* The app is known, or asked for otherwise.
LEMMA AfterDetectKeeps ==
  ASSUME LedgerInv, Serving, Head(queue) = "read", NEW app, NEW todo, AfterDetect(app, todo),
         UNCHANGED <<deviceVars, connects, handed, events>>,
         app \in (Apps \ {"BOLOS"}) \cup {None}, todo \in Seq(ReadingCommand), todo # <<>>,
         \A i \in DOMAIN todo : todo[i].op = "address" => app # None,
         ~oddity /\ app # None => plugged.app = app
  PROVE  LedgerInv'
<1>. PICK old : old = jobs["read"]
  OBVIOUS
<1>. PICK after : after = [old EXCEPT !.app = app, !.todo = todo]
  OBVIOUS
<1>1. old \in ReadingJob /\ old # None /\ "read" \in Operations
  BY ServedJob DEF Operations
<1>2. after \in ReadingJob /\ after.app = app /\ after.todo = todo /\ after.list = old.list
  BY <1>1 DEF ReadingJob
<1>3. jobs' = [jobs EXCEPT !["read"] = after] /\ Dequeue(TRUE) /\ UNCHANGED <<open, hook>>
  <2>1. jobs' = [jobs EXCEPT !["read"].app = app, !["read"].todo = todo]
    BY DEF AfterDetect
  <2>2. jobs \in [Operations -> ReadingJob \cup SigningJob \cup {None}]
    BY DEF LedgerInv, LedgerTypes
  <2>3. jobs' = [jobs EXCEPT !["read"] = jobs'["read"]]
    BY <1>1, <2>1, <2>2
  <2>4. jobs'["read"] = after
    BY <1>1, <2>1, <2>2
  <2>. QED  BY <2>3, <2>4 DEF AfterDetect
<1>4. after.todo # <<>> /\ after # None
  BY <1>2, LedgerAssumption
<1>5. LedgerTypes' /\ QueueInv' /\ SessionInv' /\ ExchangeInv' /\ (oddity => oddity')
  BY <1>2, <1>3, <1>4, NextTurn
<1>6. jobs'["read"] = after /\ UNCHANGED <<plugged, hook>>
  BY <1>1, <1>3 DEF LedgerInv, LedgerTypes, deviceVars
<1>7. ReadInv'
  <2>1. ~oddity => OfDevice(old.list)
    BY <1>1 DEF LedgerInv, ReadInv
  <2>2. ~oddity' => OfDevice(after.list)'
    BY <1>2, <1>5, <1>6, <2>1 DEF OfDevice, AddressAt
  <2>3. hook.app # None /\ ~oddity => plugged.app = hook.app /\ OfDevice(hook.accounts)
    BY DEF LedgerInv, ReadInv
  <2>4. hook'.app # None /\ ~oddity' => plugged'.app = hook'.app /\ OfDevice(hook.accounts)'
    BY <1>5, <1>6, <2>3 DEF OfDevice, AddressAt
  <2>5. OfDevice(jobs["read"].list)' <=> OfDevice(after.list)'
    BY <1>6 DEF OfDevice, AddressAt
  <2>6. ~oddity' /\ after.app # None => plugged'.app = after.app
    BY <1>2, <1>5, <1>6
  <2>7. \A i \in DOMAIN after.todo : after.todo[i].op = "address" => after.app # None
    BY <1>2
  <2>. QED  BY <1>6, <2>2, <2>4, <2>5, <2>6, <2>7 DEF ReadInv
<1>8. SignedByAccount'
  BY DEF LedgerInv, SignedByAccount
<1>. QED  BY <1>5, <1>7, <1>8 DEF LedgerInv


LEMMA AddressCommandsTyped ==
  ASSUME NEW scheme \in {"ledger-live", "bip44", "legacy", "harmony"}
  PROVE  AddressCommands(scheme) \in Seq(ReadingCommand) /\ AddressCommands(scheme) # <<>>
<1>1. \A i \in 1 .. Shown : <<scheme, i>> \in Path
  BY DEF Path
<1>2. \A i \in 1 .. Shown : Command("address", <<scheme, i>>, 1, None) \in ReadingCommand
  BY <1>1 DEF Command, ReadingCommand
<1>3. Shown = 2
  BY DEF Shown
<1>4. AddressCommands(scheme) \in [1 .. 2 -> ReadingCommand]
  BY <1>2, <1>3 DEF AddressCommands
<1>5. \A commands \in [1 .. 2 -> ReadingCommand] : commands \in Seq(ReadingCommand)
  BY SeqDef
<1>6. \A commands \in [1 .. 2 -> ReadingCommand] : 1 \in DOMAIN commands
  OBVIOUS
<1>. QED  BY <1>4, <1>5, <1>6

\* The answer tells which app the device has open.
LEMMA AnswerTellsApp ==
  ASSUME NEW reply \in Reply, NEW command \in ReadingCommand, IsAnswer(reply, command, plugged), reply # StatusError
  PROVE  /\ reply = ReadAnswer(command, plugged)
         /\ command.op = "name" => reply.type = "name" /\ reply.value = plugged.app
         /\ command.op = "config" => plugged.app = "harmony"
         /\ command.op = "version" => plugged.app = "harmony-legacy"
         /\ command.op = "address" => reply.type = "address" /\ reply.value = AddressAt(plugged.seed, command.path)
<1>1. reply = ReadAnswer(command, plugged)
  BY LedgerAssumption DEF IsAnswer
<1>2. CASE command.op = "name"
  BY <1>1, <1>2 DEF ReadAnswer
<1>3. CASE command.op = "config"
  BY <1>1, <1>3 DEF ReadAnswer
<1>4. CASE command.op = "version"
  BY <1>1, <1>4 DEF ReadAnswer
<1>5. CASE command.op = "address"
  BY <1>1, <1>5 DEF ReadAnswer
<1>. QED  BY <1>1, <1>2, <1>3, <1>4, <1>5

LEMMA DetectedKeeps ==
  ASSUME LedgerInv, Serving, NEW reply \in Reply, Head(queue) = "read",
         ~oddity => IsAnswer(reply, Head(Now.todo), plugged), Head(Now.todo).op # "address",
         Detected(reply), UNCHANGED <<deviceVars, connects, handed, events>>
  PROVE  LedgerInv'
<1>. PICK command : command = Head(Now.todo)
  OBVIOUS
<1>1. command \in ReadingCommand /\ command.op # "address"
  BY ServedJob
<1>2. ~oddity /\ reply # StatusError => plugged.app =
        CASE command.op = "name" -> reply.value
          [] command.op = "config" -> "harmony"
          [] OTHER -> "harmony-legacy"
  <2>1. command.op \in {"name", "config", "version"}
    BY <1>1 DEF ReadingCommand
  <2>2. ~oddity /\ reply # StatusError =>
            /\ command.op = "name" => reply.type = "name" /\ reply.value = plugged.app
            /\ command.op = "config" => plugged.app = "harmony"
            /\ command.op = "version" => plugged.app = "harmony-legacy"
    BY <1>1, AnswerTellsApp
  <2>. QED  BY <2>1, <2>2
<1>3. StatusError.type = "status"
  BY DEF StatusError
<1>4. CASE FailOperation
  BY <1>4, FailKeeps
<1>5. ASSUME NEW op \in {"config", "version"}, AfterDetect(None, <<Command(op, <<>>, 1, None)>>)
      PROVE  LedgerInv'
  <2>1. Command(op, <<>>, 1, None) \in ReadingCommand /\ Command(op, <<>>, 1, None).op # "address"
    BY DEF Command, ReadingCommand
  <2>. PICK todo : todo = <<Command(op, <<>>, 1, None)>>
    OBVIOUS
  <2>2. todo \in Seq(ReadingCommand) /\ todo # <<>> /\ \A i \in DOMAIN todo : todo[i].op # "address"
    BY <2>1
  <2>3. AfterDetect(None, todo)
    BY <1>5
  <2>. QED  BY <2>2, <2>3, AfterDetectKeeps
<1>6. ASSUME NEW app \in Apps \ {"BOLOS"}, NEW todo \in Seq(ReadingCommand), todo # <<>>,
             AfterDetect(app, todo), ~oddity => plugged.app = app
      PROVE  LedgerInv'
  <2>1. app # None
    BY LedgerAssumption
  <2>. QED  BY <1>6, <2>1, AfterDetectKeeps
<1>7. CASE command.op = "name"
  <2>1. CASE reply.type = "name" /\ reply.value = "ethereum"
    <3>1. AfterDetect("ethereum", AddressCommands("ledger-live"))
      BY <1>7, <2>1 DEF Detected
    <3>2. ~oddity => plugged.app = "ethereum"
      BY <1>2, <1>3, <1>7, <2>1
    <3>3. AddressCommands("ledger-live") \in Seq(ReadingCommand) /\ AddressCommands("ledger-live") # <<>>
      BY AddressCommandsTyped
    <3>4. "ethereum" \in Apps \ {"BOLOS"}
      BY DEF Apps
    <3>. QED  BY <1>6, <3>1, <3>2, <3>3, <3>4
  <2>2. CASE ~(reply.type = "name" /\ reply.value = "ethereum")
    BY <1>4, <1>5, <1>7, <2>2 DEF Detected
  <2>. QED  BY <2>1, <2>2
<1>8. CASE command.op = "config"
  <2>1. CASE reply.type = "config"
    <3>1. AfterDetect("harmony", AddressCommands("harmony"))
      BY <1>8, <2>1 DEF Detected
    <3>2. ~oddity => plugged.app = "harmony"
      BY <1>2, <1>3, <1>8, <2>1
    <3>3. AddressCommands("harmony") \in Seq(ReadingCommand) /\ AddressCommands("harmony") # <<>>
      BY AddressCommandsTyped
    <3>4. "harmony" \in Apps \ {"BOLOS"}
      BY DEF Apps
    <3>. QED  BY <1>6, <3>1, <3>2, <3>3, <3>4
  <2>2. CASE reply.type # "config"
    BY <1>4, <1>5, <1>8, <2>2 DEF Detected
  <2>. QED  BY <2>1, <2>2
<1>9. CASE command.op \notin {"name", "config"}
  <2>1. CASE reply.type = "version"
    <3>1. AfterDetect("harmony-legacy", LegacyAddress)
      BY <1>9, <2>1 DEF Detected
    <3>2. ~oddity => plugged.app = "harmony-legacy"
      BY <1>2, <1>3, <1>9, <2>1
    <3>3. Command("address", <<"harmony", 1>>, 1, None) \in ReadingCommand
      BY DEF Command, ReadingCommand, Path, Shown
    <3>4. LegacyAddress \in Seq(ReadingCommand) /\ LegacyAddress # <<>>
      BY <3>3 DEF LegacyAddress
    <3>5. "harmony-legacy" \in Apps \ {"BOLOS"}
      BY DEF Apps
    <3>. QED  BY <1>6, <3>1, <3>2, <3>4, <3>5
  <2>2. CASE reply.type # "version"
    BY <1>4, <1>9, <2>2 DEF Detected
  <2>. QED  BY <2>1, <2>2
<1>. QED  BY <1>7, <1>8, <1>9


\* An address joins the list; the last one shows it.
LEMMA AddressReadKeeps ==
  ASSUME LedgerInv, Serving, NEW reply \in Reply, Head(queue) = "read",
         ~oddity => IsAnswer(reply, Head(Now.todo), plugged), Head(Now.todo).op = "address",
         AddressRead(reply), UNCHANGED <<deviceVars, connects, handed, events>>
  PROVE  LedgerInv'
<1>. PICK old : old = Now
  OBVIOUS
<1>. PICK command : command = Head(old.todo)
  OBVIOUS
<1>. PICK entry : entry = [path |-> command.path, address |-> reply.value]
  OBVIOUS
<1>. PICK listed : listed = Append(old.list, entry)
  OBVIOUS
<1>1. /\ old \in ReadingJob /\ old # None /\ old = jobs["read"] /\ "read" \in Operations
      /\ command \in ReadingCommand /\ command.op = "address" /\ command = Head(Now.todo)
  BY ServedJob
<1>2. /\ old.list \in Seq(Account) /\ old.todo \in Seq(ReadingCommand) /\ old.todo # <<>>
      /\ old.app \in (Apps \ {"BOLOS"}) \cup {None}
  BY <1>1, ServedJob DEF ReadingJob
<1>3. old.app # None
  <2>1. 1 \in DOMAIN old.todo /\ command = old.todo[1]
    BY <1>2, TailOf
  <2>. QED  BY <1>1, <2>1 DEF LedgerInv, ReadInv
<1>4. CASE reply.type # "address"
  <2>1. FailOperation
    BY <1>4 DEF AddressRead
  <2>. QED  BY <2>1, FailKeeps
<1>5. CASE reply.type = "address"
  <2>1. reply.value \in Address /\ command.path \in Path
    BY <1>1, <1>5 DEF Reply, ReadingCommand
  <2>2. entry \in Account /\ entry.path = command.path /\ entry.address = reply.value
    BY <2>1 DEF Account
  <2>3. listed \in Seq(Account) /\ 1 \in DOMAIN listed
    <3>1. listed \in Seq(Account) /\ listed # <<>>
      BY <1>2, <2>2, AppendOf
    <3>. QED  BY <3>1, TailOf
  <2>4. ~oddity => entry.address = <<plugged.seed, entry.path>>
    <3>1. ~oddity => IsAnswer(reply, command, plugged)
      BY <1>1
    <3>2. reply # StatusError
      BY <1>5 DEF StatusError
    <3>3. ~oddity => reply.value = AddressAt(plugged.seed, command.path)
      BY <1>1, <3>1, <3>2, AnswerTellsApp
    <3>. QED  BY <2>2, <3>3 DEF AddressAt
  <2>5. ~oddity => /\ plugged.app = old.app
                   /\ \A i \in DOMAIN old.list : old.list[i].address = <<plugged.seed, old.list[i].path>>
    BY <1>1, <1>3 DEF LedgerInv, ReadInv, OfDevice, AddressAt
  <2>6. ~oddity => \A i \in DOMAIN listed : listed[i].address = <<plugged.seed, listed[i].path>>
    <3>1. \A i \in DOMAIN listed : (i \in DOMAIN old.list /\ listed[i] = old.list[i]) \/ listed[i] = entry
      BY <1>2, <2>2, AppendOf
    <3>. QED  BY <2>4, <2>5, <3>1
  <2>7. UNCHANGED plugged
    BY DEF deviceVars
  <2>8. jobs \in [Operations -> ReadingJob \cup SigningJob \cup {None}]
    BY DEF LedgerInv, LedgerTypes
  <2>9. SignedByAccount'
    BY DEF LedgerInv, SignedByAccount
  <2>10. CASE Len(old.todo) > 1
    <3>. PICK after : after = [old EXCEPT !.todo = Tail(old.todo), !.list = listed]
      OBVIOUS
    <3>1. Tail(old.todo) \in Seq(ReadingCommand) /\ Tail(old.todo) # <<>>
      BY <1>2, <2>10, LongTail
    <3>2. /\ after \in ReadingJob /\ after.todo = Tail(old.todo) /\ after.todo # <<>>
          /\ after.list = listed /\ after.app = old.app /\ after # None
      BY <1>1, <2>3, <3>1, LedgerAssumption DEF ReadingJob
    <3>3. /\ jobs' = [jobs EXCEPT !["read"].todo = Tail(@), !["read"].list = listed]
          /\ Dequeue(TRUE)
          /\ UNCHANGED <<open, hook>>
      BY <1>1, <1>5, <2>10 DEF AddressRead
    <3>4. jobs' = [jobs EXCEPT !["read"] = after]
      <4>1. jobs' = [jobs EXCEPT !["read"] = jobs'["read"]]
        BY <1>1, <2>8, <3>3
      <4>2. jobs'["read"] = after
        BY <1>1, <2>8, <3>3
      <4>. QED  BY <4>1, <4>2
    <3>5. LedgerTypes' /\ QueueInv' /\ SessionInv' /\ ExchangeInv' /\ (oddity => oddity')
      BY <3>2, <3>3, <3>4, NextTurn
    <3>6. jobs'["read"] = after /\ UNCHANGED hook
      BY <1>1, <2>8, <3>3, <3>4
    <3>7. hook.app # None /\ ~oddity => plugged.app = hook.app /\ OfDevice(hook.accounts)
      BY DEF LedgerInv, ReadInv
    <3>8. hook'.app # None /\ ~oddity' => plugged'.app = hook'.app /\ OfDevice(hook.accounts)'
      BY <2>7, <3>5, <3>6, <3>7 DEF OfDevice, AddressAt
    <3>9. ~oddity' => OfDevice(jobs["read"].list)' /\ plugged'.app = after.app
      BY <2>5, <2>6, <2>7, <3>2, <3>5, <3>6 DEF OfDevice, AddressAt
    <3>10. ReadInv'
      BY <1>3, <3>2, <3>6, <3>8, <3>9 DEF ReadInv
    <3>. QED  BY <2>9, <3>5, <3>10 DEF LedgerInv
  <2>11. CASE ~(Len(old.todo) > 1)
    <3>. PICK displayed : displayed = [app |-> old.app, scheme |-> entry.path[1], accounts |-> listed, selected |-> 1]
      OBVIOUS
    <3>1. /\ displayed \in [app : Apps \ {"BOLOS"}, scheme : {"ledger-live", "bip44", "legacy", "harmony"},
                        accounts : Seq(Account), selected : 1 .. Shown]
          /\ displayed.selected \in DOMAIN displayed.accounts
          /\ displayed.app = old.app /\ displayed.accounts = listed
      <4>1. entry.path[1] \in {"ledger-live", "bip44", "legacy", "harmony"}
        BY <2>1, <2>2 DEF Path
      <4>2. old.app \in Apps \ {"BOLOS"} /\ 1 \in 1 .. Shown
        BY <1>2, <1>3 DEF Shown
      <4>. QED  BY <2>3, <4>1, <4>2
    <3>2. /\ jobs' = [jobs EXCEPT !["read"] = None]
          /\ hook' = displayed
          /\ Dequeue(FALSE)
          /\ UNCHANGED open
      BY <1>1, <1>5, <2>2, <2>11 DEF AddressRead
    <3>3. LedgerTypes' /\ QueueInv' /\ SessionInv' /\ ExchangeInv' /\ (oddity => oddity')
      BY <3>1, <3>2, NextTurn
    <3>4. jobs'["read"] = None
      BY <1>1, <2>8, <3>2
    <3>5. ~oddity' => OfDevice(hook.accounts)' /\ plugged'.app = hook'.app
      BY <2>5, <2>6, <2>7, <3>1, <3>2, <3>3 DEF OfDevice, AddressAt
    <3>6. ReadInv'
      BY <3>4, <3>5 DEF ReadInv
    <3>. QED  BY <2>9, <3>3, <3>6 DEF LedgerInv
  <2>. QED  BY <2>10, <2>11
<1>. QED  BY <1>4, <1>5

\* A signature is handed on when it recovers to the account over what was asked.
LEMMA SignReadKeeps ==
  ASSUME LedgerInv, Serving, NEW reply \in Reply, Head(queue) # "read",
         SignRead(reply), UNCHANGED <<deviceVars, connects, events>>
  PROVE  LedgerInv'
<1>. PICK old : old = Now
  OBVIOUS
<1>. PICK o : o = Head(queue)
  OBVIOUS
<1>1. old \in SigningJob /\ old # None /\ old = jobs[o] /\ o \in Operations /\ o # "read" /\ old.todo # <<>>
  BY ServedJob
<1>2. old.account.address \in Address /\ old.account.address # None /\ old.todo \in Seq(SigningCommand)
  BY <1>1, LedgerAssumption DEF SigningJob, Account
<1>3. CASE FailOperation /\ UNCHANGED handed
  BY <1>3, FailKeeps
<1>4. ASSUME NEW after,
             \/ after = None /\ Dequeue(FALSE)
             \/ after # None /\ Dequeue(TRUE) /\ after \in SigningJob /\ after.todo # <<>>,
             jobs' = [jobs EXCEPT ![o] = after], UNCHANGED <<open, hook>>, SignedByAccount'
      PROVE  LedgerInv'
  <2>1. hook.app # None
    BY <1>1 DEF LedgerInv, SessionInv, Operations
  <2>2. LedgerTypes' /\ QueueInv' /\ SessionInv' /\ ExchangeInv' /\ (oddity => oddity')
    BY <1>1, <1>4, <2>1, NextTurn
  <2>3. UNCHANGED <<plugged, hook>> /\ jobs'["read"] = jobs["read"]
    BY <1>1, <1>4 DEF deviceVars, LedgerInv, LedgerTypes, Operations
  <2>4. ReadInv'
    BY <2>2, <2>3 DEF LedgerInv, ReadInv, OfDevice, AddressAt
  <2>. QED  BY <1>4, <2>2, <2>4 DEF LedgerInv
<1>5. CASE reply.type = "status"
  BY <1>3, <1>5 DEF SignRead
<1>6. CASE reply.type # "status" /\ Len(old.todo) > 1
  <2>. PICK after : after = [old EXCEPT !.todo = Tail(old.todo)]
    OBVIOUS
  <2>1. Tail(old.todo) \in Seq(SigningCommand) /\ Tail(old.todo) # <<>>
    BY <1>2, <1>6, LongTail
  <2>2. after \in SigningJob /\ after.todo # <<>> /\ after # None
    BY <1>1, <2>1, LedgerAssumption DEF SigningJob
  <2>3. jobs' = [jobs EXCEPT ![o].todo = Tail(@)] /\ Dequeue(TRUE) /\ UNCHANGED <<open, hook, handed>>
    BY <1>1, <1>6 DEF SignRead
  <2>4. jobs' = [jobs EXCEPT ![o] = after]
    <3>1. jobs \in [Operations -> ReadingJob \cup SigningJob \cup {None}]
      BY DEF LedgerInv, LedgerTypes
    <3>2. jobs' = [jobs EXCEPT ![o] = jobs'[o]]
      BY <1>1, <2>3, <3>1
    <3>3. jobs'[o] = after
      BY <1>1, <2>3, <3>1
    <3>. QED  BY <3>2, <3>3
  <2>5. SignedByAccount'
    BY <2>3 DEF LedgerInv, SignedByAccount
  <2>. QED  BY <1>4, <2>2, <2>3, <2>4, <2>5
<1>7. CASE reply.type # "status" /\ ~(Len(old.todo) > 1) /\ SignerChecked(Now, reply)
  <2>1. /\ jobs' = [jobs EXCEPT ![o] = None]
        /\ handed' = [expected |-> old.account.address, payload |-> old.payload, reply |-> reply]
        /\ Dequeue(FALSE)
        /\ UNCHANGED <<open, hook>>
    BY <1>1, <1>7 DEF SignRead
  <2>2. reply.value.address = old.account.address /\ reply.value.signed = <<old.payload, old.payload>>
    BY <1>2, <1>7 DEF SignerChecked, Recovered
  <2>3. SignedByAccount'
    BY <2>1, <2>2 DEF SignedByAccount
  <2>. QED  BY <1>4, <2>1, <2>3
<1>8. CASE reply.type # "status" /\ ~(Len(old.todo) > 1) /\ ~SignerChecked(Now, reply)
  BY <1>3, <1>8 DEF SignRead
<1>. QED  BY <1>5, <1>6, <1>7, <1>8


LEMMA ReadReportKeeps ==
  ASSUME LedgerInv, ReadReport
  PROVE  LedgerInv'
<1>. PICK report : report = Head(reports)
  OBVIOUS
<1>. PICK reply : reply = report.reply
  OBVIOUS
<1>1. Serving /\ exchange.step = "reading" /\ reports # <<>> /\ UNCHANGED <<deviceVars, connects, events>>
  BY DEF ReadReport
<1>2. reports \in Seq(Report) /\ report \in Report /\ 1 \in DOMAIN reports /\ report = reports[1]
  <2>1. reports \in Seq(Report)
    BY DEF LedgerInv, LedgerTypes
  <2>. QED  BY <1>1, <2>1, TailOf
<1>3. CASE ~Expected(Head(reports))
  <2>1. FailOperation /\ UNCHANGED handed
    BY <1>3 DEF ReadReport
  <2>. QED  BY <1>1, <2>1, FailKeeps
<1>4. CASE Expected(Head(reports)) /\ reply = None
  <2>1. report.sequence = exchange.got /\ report.sequence = 0
    BY <1>2, <1>4 DEF Expected, Report
  <2>2. /\ exchange' = [exchange EXCEPT !.got = @ + 1]
        /\ reports' = Tail(reports)
        /\ UNCHANGED <<open, queue, jobs, hook, handed, oddity>>
    BY <1>4 DEF ReadReport
  <2>3. exchange' \in [step : {"sending", "reading"}, got : 0 .. 1] /\ exchange'.step = "reading"
    <3>1. exchange \in [step : {"sending", "reading"}, got : 0 .. 1]
      BY DEF LedgerInv, LedgerTypes
    <3>2. \A e \in [step : {"sending", "reading"}, got : 0 .. 1] :
             e.got = 0 => /\ [e EXCEPT !.got = @ + 1] \in [step : {"sending", "reading"}, got : 0 .. 1]
                          /\ [e EXCEPT !.got = @ + 1].step = e.step
      OBVIOUS
    <3>3. exchange.got = 0 /\ exchange.step = "reading"
      BY <1>1, <2>1
    <3>4. exchange' = [exchange EXCEPT !.got = @ + 1]
      BY <2>2
    <3>. QED  BY <3>1, <3>2, <3>3, <3>4
  <2>4. /\ reports' \in Seq(Report)
        /\ \A i \in DOMAIN reports' : i + 1 \in DOMAIN reports /\ reports'[i] = reports[i + 1]
    BY <1>1, <1>2, <2>2, TailOf
  <2>5. LedgerTypes'
    BY <1>1, <2>2, <2>3, <2>4 DEF LedgerInv, LedgerTypes, deviceVars
  <2>6. QueueInv' /\ SessionInv' /\ ReadInv' /\ SignedByAccount'
    BY <1>1, <2>2 DEF LedgerInv, QueueInv, SessionInv, ReadInv, OfDevice, AddressAt, SignedByAccount, deviceVars
  <2>7. ExchangeInv'
    BY <1>1, <2>2, <2>3, <2>4 DEF LedgerInv, ExchangeInv, Serving, Now, deviceVars
  <2>. QED  BY <2>5, <2>6, <2>7 DEF LedgerInv
<1>5. CASE Expected(Head(reports)) /\ reply # None
  <2>1. reply \in Reply /\ report.channel = open
    BY <1>2, <1>5 DEF Report, Expected
  <2>2. ~oddity => IsAnswer(reply, Head(Now.todo), plugged)
    BY <1>1, <1>2, <2>1 DEF LedgerInv, ExchangeInv
  <2>3. ReplyRead(Head(reports).reply)
    BY <1>5 DEF ReadReport
  <2>4. CASE Head(queue) # "read"
    <3>1. SignRead(reply)
      BY <2>3, <2>4 DEF ReplyRead, SignRead
    <3>. QED  BY <1>1, <2>1, <2>4, <3>1, SignReadKeeps
  <2>5. CASE Head(queue) = "read" /\ Head(Now.todo).op = "address"
    <3>1. AddressRead(reply) /\ UNCHANGED handed
      BY <2>3, <2>5 DEF ReplyRead, AddressRead
    <3>. QED  BY <1>1, <2>1, <2>2, <2>5, <3>1, AddressReadKeeps
  <2>6. CASE Head(queue) = "read" /\ Head(Now.todo).op # "address"
    <3>1. Detected(reply) /\ UNCHANGED handed
      BY <2>3, <2>6 DEF ReplyRead, Detected
    <3>. QED  BY <1>1, <2>1, <2>2, <2>6, <3>1, DetectedKeeps
  <2>. QED  BY <2>4, <2>5, <2>6
<1>. QED  BY <1>3, <1>4, <1>5

\* An operation that starts waits behind the others; a connection is alone, on a
\* channel nothing was sent on.
LEMMA EnqueueKeeps ==
  ASSUME LedgerInv, NEW o \in Operations, jobs[o] = None, NEW after, after # None, after.todo # <<>>,
         after \in IF o = "read" THEN ReadingJob ELSE SigningJob,
         jobs' = [jobs EXCEPT ![o] = after], Enqueue(o),
         UNCHANGED <<deviceVars, hook>>, events' \in 0 .. MaxEvents,
         \/ UNCHANGED <<connects, open>> /\ hook.app # None
         \/ Request /\ o = "read" /\ hook.app = None
  PROVE  LedgerTypes' /\ QueueInv' /\ SessionInv' /\ ExchangeInv' /\ (oddity => oddity')
<1>. USE DEF deviceVars
<1>. DEFINE next == Append(queue, o)
<1>1. queue \in Seq(Operations) /\ Distinct(queue)
  BY DEF LedgerInv, LedgerTypes, QueueInv, Distinct
<1>2. \A p \in Operations : jobs[p] # None <=> Among(queue, p)
  BY DEF LedgerInv, QueueInv, Among
<1>3. /\ next \in Seq(Operations) /\ Distinct(next)
      /\ \A p : Among(next, p) <=> Among(queue, p) \/ p = o
  <2>1. ~Among(queue, o)
    BY <1>2
  <2>2. next \in Seq(Operations)
    BY <1>1
  <2>. HIDE DEF Distinct, Among
  <2>. QED  BY <1>1, <2>1, <2>2, AppendDistinct
<1>4. queue = <<>> => next = <<o>>
  OBVIOUS
<1>5. queue' = next
  BY <1>4 DEF Enqueue, Turn
<1>6. jobs \in [Operations -> ReadingJob \cup SigningJob \cup {None}] /\ "read" \in Operations
      /\ jobs["read"] \in ReadingJob \cup {None} /\ \A p \in Signings : jobs[p] \in SigningJob \cup {None}
  BY DEF LedgerInv, LedgerTypes, Operations
<1>7. /\ jobs' \in [Operations -> ReadingJob \cup SigningJob \cup {None}]
      /\ \A p \in Operations : jobs'[p] = IF p = o THEN after ELSE jobs[p]
  BY <1>6
<1>8. jobs'["read"] \in ReadingJob \cup {None} /\ \A p \in Signings : jobs'[p] \in SigningJob \cup {None}
  BY <1>6, <1>7, LedgerAssumption DEF Operations
<1>9. connects' \in 0 .. MaxConnects /\ open' \in 0 .. connects' /\ connects <= connects' /\ open' # 0
      /\ plugged # None
  BY LedgerAssumption DEF LedgerInv, LedgerTypes, SessionInv, Request
<1>10. QueueInv'
  <2>1. \A i, j \in DOMAIN queue' : queue'[i] = queue'[j] => i = j
    BY <1>3, <1>5 DEF Distinct
  <2>2. \A p \in Operations : jobs'[p] # None <=> Among(next, p)
    BY <1>2, <1>3, <1>7
  <2>3. \A p \in Operations : jobs'[p] # None => jobs'[p].todo # <<>>
    BY <1>7 DEF LedgerInv, QueueInv
  <2>. QED  BY <1>5, <2>1, <2>2, <2>3 DEF QueueInv, Among
<1>11. /\ ExchangeInv' /\ (oddity => oddity')
       /\ exchange' \in [step : {"sending", "reading"}, got : 0 .. 1]
       /\ reports' \in Seq(Report) /\ oddity' \in BOOLEAN
  <2>1. CASE UNCHANGED open /\ queue = <<>>
    <3>1. Turn(<<o>>) /\ open # 0
      BY <1>9, <2>1 DEF Enqueue
    <3>. QED  BY <2>1, <3>1, TurnIsFresh DEF LedgerInv
  <2>2. CASE UNCHANGED open /\ queue # <<>>
    <3>1. UNCHANGED <<exchange, reports, oddity>> /\ Serving
      BY <2>2 DEF Enqueue, Serving
    <3>2. 1 \in DOMAIN queue /\ Head(queue) = queue[1] /\ queue'[1] = queue[1] /\ queue' # <<>>
      BY <1>1, <1>5, <2>2, TailOf, AppendOf
    <3>3. Head(queue') = Head(queue)
      BY <1>3, <1>5, <3>2, TailOf
    <3>4. Head(queue) \in Operations /\ Head(queue) # o
      BY <3>1, ServedJob
    <3>5. Now' = Now
      BY <1>7, <3>3, <3>4 DEF Now
    <3>6. ExchangeInv'
      BY <2>2, <3>1, <3>5 DEF LedgerInv, ExchangeInv
    <3>. QED  BY <3>1, <3>6 DEF LedgerInv, LedgerTypes
  <2>3. CASE Request /\ hook.app = None /\ o = "read"
    <3>1. open = 0 /\ \A p \in Operations : jobs[p] = None
      BY <2>3 DEF LedgerInv, SessionInv, Operations
    <3>2. queue = <<>>
      <4>1. queue # <<>> => Among(queue, queue[1]) /\ queue[1] \in Operations
        BY <1>1, TailOf DEF Among
      <4>. QED  BY <1>2, <3>1, <4>1
    <3>3. exchange' = Fresh /\ reports' = <<>> /\ oddity' = oddity
      BY <3>1, <3>2 DEF Enqueue, Turn, AnswerOwed, LedgerInv, LedgerTypes
    <3>4. \A i \in DOMAIN toDevice : toDevice[i].channel # open'
      BY <2>3, <1>9 DEF LedgerInv, LedgerTypes, SessionInv, Request
    <3>5. \A i \in DOMAIN wire : wire[i].channel # open'
      BY <2>3, <1>9 DEF LedgerInv, LedgerTypes, SessionInv, Request
    <3>6. ExchangeInv'
      BY <3>3, <3>4, <3>5 DEF ExchangeInv
    <3>. QED  BY <3>3, <3>6 DEF Fresh, LedgerInv, LedgerTypes
  <2>. QED  BY <2>1, <2>2, <2>3
<1>. HIDE DEF next
<1>12. LedgerTypes'
  BY <1>3, <1>5, <1>7, <1>8, <1>9, <1>11 DEF LedgerInv, LedgerTypes
<1>13. SessionInv'
  <2>a. connects \in Nat /\ connects' \in Nat
    BY <1>9, LedgerAssumption DEF LedgerInv, LedgerTypes
  <2>1. hook'.app # None \/ jobs'["read"] # None
    BY <1>6, <1>7
  <2>2. hook'.app = None => \A p \in Signings : jobs'[p] = None
    BY <1>7, LedgerAssumption DEF LedgerInv, SessionInv, Operations
  <2>3. \A i \in DOMAIN toDevice : toDevice[i].channel <= connects'
    <3>1. \A i \in DOMAIN toDevice : toDevice[i].channel \in Nat
      <4>1. toDevice \in Seq(Sent)
        BY DEF LedgerInv, LedgerTypes
      <4>2. \A i \in DOMAIN toDevice : toDevice[i] \in Sent
        BY <4>1
      <4>. QED  BY <4>2 DEF Sent
    <3>2. \A i \in DOMAIN toDevice : toDevice[i].channel <= connects
      BY DEF LedgerInv, SessionInv
    <3>. QED  BY <1>9, <2>a, <3>1, <3>2
  <2>4. \A i \in DOMAIN wire : wire[i].channel <= connects'
    <3>1. \A i \in DOMAIN wire : wire[i].channel \in Nat
      BY DEF LedgerInv, LedgerTypes, Report
    <3>2. \A i \in DOMAIN wire : wire[i].channel <= connects
      BY DEF LedgerInv, SessionInv
    <3>. QED  BY <1>9, <2>a, <3>1, <3>2
  <2>. QED  BY <1>9, <2>1, <2>2, <2>3, <2>4 DEF SessionInv
<1>. QED  BY <1>10, <1>11, <1>12, <1>13


LEMMA EventsAreBounded ==
  ASSUME LedgerTypes, Event
  PROVE  events' \in 0 .. MaxEvents
  BY LedgerAssumption DEF LedgerTypes, Event

\* A connection, or another account type, starts to be read.
LEMMA ReadStarts ==
  ASSUME LedgerInv, NEW app, NEW todo \in Seq(ReadingCommand), todo # <<>>, jobs["read"] = None,
         app \in (Apps \ {"BOLOS"}) \cup {None},
         jobs' = [jobs EXCEPT !["read"] = ReadJob(app, todo)],
         Enqueue("read"), Event, UNCHANGED <<deviceVars, hook, handed>>,
         \/ UNCHANGED <<connects, open>> /\ hook.app # None /\ app = hook.app
         \/ Request /\ hook.app = None /\ app = None /\ \A i \in DOMAIN todo : todo[i].op # "address"
  PROVE  LedgerInv'
<1>. PICK after : after = ReadJob(app, todo)
  OBVIOUS
<1>1. after \in ReadingJob /\ after.app = app /\ after.todo = todo /\ after.list = <<>>
  <2>1. <<>> \in Seq(Account)
    OBVIOUS
  <2>. QED  BY <2>1 DEF ReadJob, ReadingJob
<1>2. after # None /\ "read" \in Operations
  BY <1>1, LedgerAssumption DEF Operations
<1>3. events' \in 0 .. MaxEvents
  BY EventsAreBounded DEF LedgerInv
<1>4. LedgerTypes' /\ QueueInv' /\ SessionInv' /\ ExchangeInv' /\ (oddity => oddity')
  BY <1>1, <1>2, <1>3, EnqueueKeeps
<1>5. jobs'["read"] = after /\ UNCHANGED <<plugged, hook>>
  BY <1>2 DEF LedgerInv, LedgerTypes, deviceVars
<1>6. hook.app # None /\ ~oddity => plugged.app = hook.app /\ OfDevice(hook.accounts)
  BY DEF LedgerInv, ReadInv
<1>7. hook'.app # None /\ ~oddity' => plugged'.app = hook'.app /\ OfDevice(hook.accounts)'
  BY <1>4, <1>5, <1>6 DEF OfDevice, AddressAt
<1>8. ~oddity' /\ after.app # None => plugged'.app = after.app
  BY <1>1, <1>4, <1>5, <1>6
<1>9. \A i \in DOMAIN after.todo : after.todo[i].op = "address" => after.app # None
  BY <1>1
<1>10. OfDevice(jobs["read"].list)'
  BY <1>1, <1>5 DEF OfDevice
<1>11. ReadInv'
  BY <1>5, <1>7, <1>8, <1>9, <1>10 DEF ReadInv
<1>12. SignedByAccount'
  BY DEF LedgerInv, SignedByAccount
<1>. QED  BY <1>4, <1>11, <1>12 DEF LedgerInv

LEMMA ConnectKeeps ==
  ASSUME LedgerInv, Connect
  PROVE  LedgerInv'
<1>. PICK todo : todo = <<Command("name", <<>>, 1, None)>>
  OBVIOUS
<1>1. Command("name", <<>>, 1, None) \in ReadingCommand /\ Command("name", <<>>, 1, None).op # "address"
  BY DEF Command, ReadingCommand
<1>2. todo \in Seq(ReadingCommand) /\ todo # <<>> /\ \A i \in DOMAIN todo : todo[i].op # "address"
  BY <1>1
<1>3. /\ hook.app = None /\ jobs["read"] = None /\ Request
      /\ jobs' = [jobs EXCEPT !["read"] = ReadJob(None, todo)]
      /\ Enqueue("read") /\ Event /\ UNCHANGED <<deviceVars, hook, handed>>
  BY DEF Connect
<1>. QED  BY <1>2, <1>3, ReadStarts

LEMMA ChangeSchemeKeeps ==
  ASSUME LedgerInv, NEW next \in {"ledger-live", "bip44"}, ChangeScheme(next)
  PROVE  LedgerInv'
<1>. PICK app : app = hook.app
  OBVIOUS
<1>1. AddressCommands(next) \in Seq(ReadingCommand) /\ AddressCommands(next) # <<>>
  BY AddressCommandsTyped
<1>2. app \in (Apps \ {"BOLOS"}) \cup {None} /\ app # None
  BY LedgerAssumption DEF LedgerInv, LedgerTypes, ChangeScheme, Apps
<1>3. /\ jobs["read"] = None
      /\ jobs' = [jobs EXCEPT !["read"] = ReadJob(app, AddressCommands(next))]
      /\ Enqueue("read") /\ Event /\ UNCHANGED <<deviceVars, connects, open, hook, handed>>
  BY DEF ChangeScheme, ReadJob
<1>. QED  BY <1>1, <1>2, <1>3, ReadStarts

LEMMA StartSigningKeeps ==
  ASSUME LedgerInv, NEW o \in Signings, NEW op \in {"message", "tx"}, StartSigning(o, op)
  PROVE  LedgerInv'
<1>. PICK selected : selected = hook.accounts[hook.selected]
  OBVIOUS
<1>. PICK todo : todo = <<Command(op, selected.path, 1, o), Command(op, selected.path, 2, o)>>
  OBVIOUS
<1>. PICK after : after = [account |-> selected, payload |-> o, todo |-> todo]
  OBVIOUS
<1>1. /\ hook.app # None /\ jobs[o] = None /\ jobs' = [jobs EXCEPT ![o] = after]
      /\ Enqueue(o) /\ Event /\ UNCHANGED <<deviceVars, connects, open, hook, handed>>
  BY DEF StartSigning
<1>2. selected \in Account
  <2>1. hook.accounts \in Seq(Account) /\ hook.selected \in DOMAIN hook.accounts
    BY <1>1 DEF LedgerInv, LedgerTypes
  <2>. QED  BY <2>1
<1>3. todo \in Seq(SigningCommand) /\ todo # <<>>
  <2>1. \A part \in 1 .. 2 : Command(op, selected.path, part, o) \in SigningCommand
    BY <1>2 DEF Command, SigningCommand, Account
  <2>2. 1 \in 1 .. 2 /\ 2 \in 1 .. 2
    OBVIOUS
  <2>. QED  BY <2>1, <2>2
<1>4. after \in SigningJob /\ after.todo # <<>> /\ after # None /\ o \in Operations /\ o # "read"
  <2>1. after \in SigningJob
    BY <1>2, <1>3 DEF SigningJob
  <2>2. after.todo = todo
    OBVIOUS
  <2>3. o \in Operations /\ o # "read"
    BY LedgerAssumption DEF Operations
  <2>. QED  BY <1>3, <2>1, <2>2, <2>3, LedgerAssumption
<1>5. events' \in 0 .. MaxEvents
  BY <1>1, EventsAreBounded DEF LedgerInv
<1>6. LedgerTypes' /\ QueueInv' /\ SessionInv' /\ ExchangeInv' /\ (oddity => oddity')
  BY <1>1, <1>4, <1>5, EnqueueKeeps
<1>7. UNCHANGED <<plugged, hook>> /\ jobs'["read"] = jobs["read"]
  BY <1>1, <1>4 DEF LedgerInv, LedgerTypes, Operations, deviceVars
<1>8. ReadInv'
  BY <1>6, <1>7 DEF LedgerInv, ReadInv, OfDevice, AddressAt
<1>9. SignedByAccount'
  BY <1>1 DEF LedgerInv, SignedByAccount
<1>. QED  BY <1>6, <1>8, <1>9 DEF LedgerInv

LEMMA SelectAccountKeeps ==
  ASSUME LedgerInv, NEW i \in 1 .. Shown, SelectAccount(i)
  PROVE  LedgerInv'
<1>. PICK old : old = hook
  OBVIOUS
<1>1. /\ i \in DOMAIN old.accounts /\ hook' = [old EXCEPT !.selected = i] /\ Event
      /\ UNCHANGED <<deviceVars, transportVars, jobs, handed, oddity>>
  BY DEF SelectAccount
<1>2. old \in [app : (Apps \ {"BOLOS"}) \cup {None},
               scheme : {"ledger-live", "bip44", "legacy", "harmony"},
               accounts : Seq(Account), selected : 1 .. Shown]
  BY DEF LedgerInv, LedgerTypes
<1>3. /\ hook' \in [app : (Apps \ {"BOLOS"}) \cup {None},
                    scheme : {"ledger-live", "bip44", "legacy", "harmony"},
                    accounts : Seq(Account), selected : 1 .. Shown]
      /\ hook'.app = hook.app /\ hook'.accounts = hook.accounts /\ hook'.selected \in DOMAIN hook'.accounts
  BY <1>1, <1>2
<1>4. LedgerTypes'
  BY <1>1, <1>3, EventsAreBounded DEF LedgerInv, LedgerTypes, deviceVars, transportVars
<1>5. QueueInv' /\ SessionInv' /\ SignedByAccount'
  BY <1>1, <1>3 DEF LedgerInv, QueueInv, SessionInv, SignedByAccount, deviceVars, transportVars
<1>6. ExchangeInv'
  BY <1>1 DEF LedgerInv, ExchangeInv, Serving, Now, deviceVars, transportVars
<1>7. ReadInv'
  BY <1>1, <1>3 DEF LedgerInv, ReadInv, OfDevice, AddressAt, deviceVars
<1>. QED  BY <1>4, <1>5, <1>6, <1>7 DEF LedgerInv


LEMMA SendCommandKeeps ==
  ASSUME LedgerInv, SendCommand
  PROVE  LedgerInv'
<1>. PICK command : command = Head(Now.todo)
  OBVIOUS
<1>. PICK sending : sending = [channel |-> open, command |-> command]
  OBVIOUS
<1>1. /\ Serving /\ exchange.step = "sending" /\ toDevice' = Append(toDevice, sending)
      /\ exchange' = [exchange EXCEPT !.step = "reading"]
      /\ UNCHANGED <<plugged, unfinished, wire, connects, open, queue, reports, jobs, hook, handed, oddity, events>>
  BY DEF SendCommand
<1>2. command \in ReadingCommand \cup SigningCommand /\ open # 0 /\ plugged \in Device
  BY <1>1, ServedJob
<1>3. open \in Nat /\ open <= connects
  BY LedgerAssumption DEF LedgerInv, LedgerTypes
<1>4. sending \in Sent /\ sending.channel = open /\ sending.command = command
  BY <1>2, <1>3 DEF Sent
<1>5. /\ toDevice' \in Seq(Sent)
      /\ \A i \in DOMAIN toDevice' : (i \in DOMAIN toDevice /\ toDevice'[i] = toDevice[i]) \/ toDevice'[i] = sending
  <2>1. toDevice \in Seq(Sent)
    BY DEF LedgerInv, LedgerTypes
  <2>. QED  BY <1>1, <1>4, <2>1, AppendOf
<1>6. exchange' \in [step : {"sending", "reading"}, got : 0 .. 1] /\ exchange'.step = "reading"
  <2>1. exchange \in [step : {"sending", "reading"}, got : 0 .. 1]
    BY DEF LedgerInv, LedgerTypes
  <2>. QED  BY <1>1, <2>1
<1>7. LedgerTypes'
  BY <1>1, <1>5, <1>6 DEF LedgerInv, LedgerTypes
<1>8. QueueInv' /\ ReadInv' /\ SignedByAccount'
  BY <1>1 DEF LedgerInv, QueueInv, ReadInv, OfDevice, AddressAt, SignedByAccount
<1>9. SessionInv'
  <2>1. \A i \in DOMAIN toDevice' : toDevice'[i].channel <= connects
    BY <1>3, <1>4, <1>5 DEF LedgerInv, SessionInv
  <2>2. plugged # None
    BY <1>2, LedgerAssumption
  <2>. QED  BY <1>1, <2>1, <2>2 DEF LedgerInv, SessionInv
<1>10. ExchangeInv'
  BY <1>1, <1>4, <1>5, <1>6 DEF LedgerInv, ExchangeInv, Serving, Now
<1>. QED  BY <1>7, <1>8, <1>9, <1>10 DEF LedgerInv

\* A signing command's answer is whatever the device makes of it; a reading
\* command's is of the device alone.
LEMMA AnswerCommandKeeps ==
  ASSUME LedgerInv, NEW c, NEW reply, toDevice # <<>>, reply \in {Answers(c.command), StatusError}, AnswerCommand(c, reply)
  PROVE  LedgerInv'
<1>1. /\ c = Head(toDevice) /\ toDevice' = Tail(toDevice) /\ wire' = wire \o Reports(c.channel, reply)
      /\ (reply # Answers(c.command) => reply = StatusError)
      /\ UNCHANGED <<plugged, transportVars, jobs, hook, handed, oddity, events>>
  BY DEF AnswerCommand
<1>2. /\ toDevice' \in Seq(Sent) /\ c \in Sent /\ 1 \in DOMAIN toDevice /\ c = toDevice[1]
      /\ \A i \in DOMAIN toDevice' : i + 1 \in DOMAIN toDevice /\ toDevice'[i] = toDevice[i + 1]
  <2>1. toDevice \in Seq(Sent)
    BY DEF LedgerInv, LedgerTypes
  <2>. QED  BY <1>1, <2>1, TailOf
<1>3. plugged \in Device
  BY DEF LedgerInv, LedgerTypes, SessionInv
<1>4. c.channel \in Nat /\ c.command \in ReadingCommand \cup SigningCommand
  BY <1>2 DEF Sent
<1>5. reply \in Reply
  BY <1>3, <1>4, AnswersAreReplies DEF LedgerInv
<1>6. /\ Reports(c.channel, reply) \in Seq(Report)
      /\ \A i \in DOMAIN Reports(c.channel, reply) :
            /\ Reports(c.channel, reply)[i].channel = c.channel
            /\ Reports(c.channel, reply)[i].reply \in {reply, None}
  BY <1>4, <1>5, ReportsAreTyped
<1>7. /\ wire' \in Seq(Report)
      /\ \A i \in DOMAIN wire' :
            \/ i \in DOMAIN wire /\ wire'[i] = wire[i]
            \/ wire'[i].channel = c.channel /\ wire'[i].reply \in {reply, None}
  <2>1. wire \in Seq(Report)
    BY DEF LedgerInv, LedgerTypes
  <2>2. /\ wire' \in Seq(Report)
        /\ \A i \in DOMAIN wire' :
              \/ i \in DOMAIN wire /\ wire'[i] = wire[i]
              \/ \E j \in DOMAIN Reports(c.channel, reply) : wire'[i] = Reports(c.channel, reply)[j]
    BY <1>1, <1>6, <2>1, JoinOf
  <2>. QED  BY <1>6, <2>2
<1>8. unfinished' \in [op : {"message", "tx"}, path : Path, payload : Signings] \cup {None}
  <2>1. CASE c.command.op \notin {"message", "tx"}
    BY <2>1 DEF AnswerCommand, LedgerInv, LedgerTypes
  <2>2. CASE c.command.op \in {"message", "tx"}
    <3>1. c.command \in SigningCommand
      BY <1>4, <2>2 DEF ReadingCommand
    <3>. QED  BY <2>2, <3>1 DEF AnswerCommand, SigningCommand
  <2>. QED  BY <2>1, <2>2
<1>9. IsAnswer(reply, c.command, plugged)
  <2>1. c.command \in ReadingCommand => Answers(c.command) = ReadAnswer(c.command, plugged)
    <3>. PICK command : command = c.command
      OBVIOUS
    <3>1. command \in ReadingCommand => Answers(command) = ReadAnswer(command, plugged)
      BY ReadingAnswer
    <3>. QED  BY <3>1
  <2>. QED  BY <1>1, <2>1 DEF IsAnswer
<1>10. LedgerTypes'
  BY <1>1, <1>2, <1>7, <1>8 DEF LedgerInv, LedgerTypes, transportVars
<1>11. QueueInv' /\ ReadInv' /\ SignedByAccount'
  BY <1>1 DEF LedgerInv, QueueInv, ReadInv, OfDevice, AddressAt, SignedByAccount, transportVars
<1>12. SessionInv'
  <2>1. plugged # None
    BY <1>3, LedgerAssumption
  <2>2. \A i \in DOMAIN toDevice' : toDevice'[i].channel <= connects
    BY <1>2 DEF LedgerInv, SessionInv
  <2>3. \A i \in DOMAIN wire' : wire'[i].channel <= connects
    BY <1>2, <1>7 DEF LedgerInv, SessionInv
  <2>. QED  BY <1>1, <2>1, <2>2, <2>3 DEF LedgerInv, SessionInv, transportVars
<1>13. ExchangeInv'
  <2>1. /\ Now' = Now /\ Serving' = Serving
        /\ UNCHANGED <<plugged, connects, open, queue, exchange, reports, jobs, oddity>>
    BY <1>1 DEF Now, Serving, transportVars
  <2>2. Serving /\ ~oddity /\ c.channel = open => exchange.step = "reading" /\ c.command = Head(Now.todo)
    BY <1>2 DEF LedgerInv, ExchangeInv
  <2>3. \A command : IsAnswer(None, command, plugged)
    BY DEF IsAnswer
  <2>4. Serving /\ ~oddity =>
          \A i \in DOMAIN wire' : wire'[i].channel = open =>
              exchange.step = "reading" /\ IsAnswer(wire'[i].reply, Head(Now.todo), plugged)
    BY <1>7, <1>9, <2>2, <2>3 DEF LedgerInv, ExchangeInv
  <2>5. Serving /\ ~oddity =>
          \A i \in DOMAIN toDevice' : toDevice'[i].channel = open =>
              exchange.step = "reading" /\ toDevice'[i].command = Head(Now.todo)
    BY <1>2 DEF LedgerInv, ExchangeInv
  <2>. QED  BY <2>1, <2>4, <2>5 DEF LedgerInv, ExchangeInv
<1>. QED  BY <1>10, <1>11, <1>12, <1>13 DEF LedgerInv


LEMMA ReportArrivesKeeps ==
  ASSUME LedgerInv, ReportArrives
  PROVE  LedgerInv'
<1>. PICK report : report = Head(wire)
  OBVIOUS
<1>1. /\ wire # <<>> /\ wire' = Tail(wire)
      /\ reports' = IF open # 0 THEN Append(reports, report) ELSE reports
      /\ UNCHANGED <<plugged, unfinished, toDevice, connects, open, queue, exchange, jobs, hook, handed,
                     oddity, events>>
  BY DEF ReportArrives
<1>2. wire \in Seq(Report) /\ reports \in Seq(Report)
  BY DEF LedgerInv, LedgerTypes
<1>3. /\ wire' \in Seq(Report) /\ report \in Report /\ 1 \in DOMAIN wire /\ report = wire[1]
      /\ \A i \in DOMAIN wire' : i + 1 \in DOMAIN wire /\ wire'[i] = wire[i + 1]
  BY <1>1, <1>2, TailOf
<1>4. /\ reports' \in Seq(Report)
      /\ \A i \in DOMAIN reports' : (i \in DOMAIN reports /\ reports'[i] = reports[i]) \/ reports'[i] = report
  <2>1. CASE open # 0
    <3>1. reports' = Append(reports, report)
      BY <1>1, <2>1
    <3>. QED  BY <1>2, <1>3, <3>1, AppendOf
  <2>2. CASE open = 0
    BY <1>1, <1>2, <2>2
  <2>. QED  BY <2>1, <2>2
<1>5. LedgerTypes'
  BY <1>1, <1>3, <1>4 DEF LedgerInv, LedgerTypes
<1>6. QueueInv' /\ ReadInv' /\ SignedByAccount'
  BY <1>1 DEF LedgerInv, QueueInv, ReadInv, OfDevice, AddressAt, SignedByAccount
<1>7. SessionInv'
  <2>1. plugged # None
    BY <1>1 DEF LedgerInv, SessionInv
  <2>2. \A i \in DOMAIN wire' : wire'[i].channel <= connects
    BY <1>3 DEF LedgerInv, SessionInv
  <2>. QED  BY <1>1, <2>1, <2>2 DEF LedgerInv, SessionInv
<1>8. ExchangeInv'
  BY <1>1, <1>3, <1>4 DEF LedgerInv, ExchangeInv, Serving, Now
<1>. QED  BY <1>5, <1>6, <1>7, <1>8 DEF LedgerInv

\* What another tab asked for is on no channel of the page's.
LEMMA StrayReportKeeps ==
  ASSUME LedgerInv, NEW path \in Path, StrayReport(path)
  PROVE  LedgerInv'
<1>. PICK reply : reply = [type |-> "address", value |-> AddressAt(plugged.seed, path)]
  OBVIOUS
<1>1. /\ open # 0 /\ plugged # None /\ reports' = reports \o Reports(0, reply) /\ Event
      /\ UNCHANGED <<deviceVars, connects, open, queue, exchange, jobs, hook, handed, oddity>>
  BY DEF StrayReport, Reports
<1>2. reply \in Reply
  <2>1. plugged \in Device
    BY <1>1 DEF LedgerInv, LedgerTypes
  <2>2. AddressAt(plugged.seed, path) \in Address
    BY <2>1 DEF AddressAt, Address, Device
  <2>. QED  BY <2>2 DEF Reply
<1>3. /\ reports' \in Seq(Report)
      /\ \A i \in DOMAIN reports' : (i \in DOMAIN reports /\ reports'[i] = reports[i]) \/ reports'[i].channel = 0
  <2>1. reports \in Seq(Report) /\ 0 \in Nat
    BY DEF LedgerInv, LedgerTypes
  <2>2. /\ Reports(0, reply) \in Seq(Report)
        /\ \A i \in DOMAIN Reports(0, reply) : Reports(0, reply)[i].channel = 0
    BY <1>2, <2>1, ReportsAreTyped
  <2>3. /\ reports' \in Seq(Report)
        /\ \A i \in DOMAIN reports' :
              \/ i \in DOMAIN reports /\ reports'[i] = reports[i]
              \/ \E j \in DOMAIN Reports(0, reply) : reports'[i] = Reports(0, reply)[j]
    BY <1>1, <2>1, <2>2, JoinOf
  <2>. QED  BY <2>2, <2>3
<1>4. LedgerTypes'
  BY <1>1, <1>3, EventsAreBounded DEF LedgerInv, LedgerTypes, deviceVars
<1>5. QueueInv' /\ SessionInv' /\ ReadInv' /\ SignedByAccount'
  BY <1>1 DEF LedgerInv, QueueInv, SessionInv, ReadInv, OfDevice, AddressAt, SignedByAccount, deviceVars
<1>6. ExchangeInv'
  BY <1>1, <1>3 DEF LedgerInv, ExchangeInv, Serving, Now, deviceVars
<1>. QED  BY <1>4, <1>5, <1>6 DEF LedgerInv

\* Nothing is open without a device.
LEMMA PlugKeeps ==
  ASSUME LedgerInv, NEW d \in Device, Plug(d)
  PROVE  LedgerInv'
<1>1. /\ plugged = None /\ plugged' = d /\ Event
      /\ UNCHANGED <<unfinished, toDevice, wire, transportVars, jobs, hook, handed, oddity>>
  BY DEF Plug
<1>2. open = 0 /\ hook.app = None /\ jobs["read"] = None /\ ~Serving
  <2>1. ~Serving
    BY <1>1, ServedJob, LedgerAssumption
  <2>. QED  BY <1>1, <2>1 DEF LedgerInv, SessionInv, Operations
<1>3. LedgerTypes'
  BY <1>1, EventsAreBounded DEF LedgerInv, LedgerTypes, transportVars
<1>4. QueueInv' /\ SignedByAccount'
  BY <1>1 DEF LedgerInv, QueueInv, SignedByAccount, transportVars
<1>5. SessionInv'
  BY <1>1, LedgerAssumption DEF LedgerInv, SessionInv, transportVars
<1>6. ExchangeInv' /\ ReadInv'
  BY <1>1, <1>2 DEF ExchangeInv, ReadInv, Serving, transportVars
<1>. QED  BY <1>3, <1>4, <1>5, <1>6 DEF LedgerInv

\* With a transport open, the device is another one than the page knows.
LEMMA SwapKeeps ==
  ASSUME LedgerInv, NEW d \in Device, Swap(d)
  PROVE  LedgerInv'
<1>1. /\ plugged' = d /\ unfinished' = None /\ oddity' = (open # 0) /\ Event
      /\ UNCHANGED <<toDevice, wire, transportVars, jobs, hook, handed>>
  BY DEF Swap
<1>2. open = 0 => hook.app = None /\ jobs["read"] = None /\ ~Serving
  <2>1. Serving => open # 0
    BY ServedJob
  <2>. QED  BY <2>1 DEF LedgerInv, SessionInv, Operations
<1>3. LedgerTypes'
  BY <1>1, EventsAreBounded DEF LedgerInv, LedgerTypes, transportVars
<1>4. QueueInv' /\ SignedByAccount'
  BY <1>1 DEF LedgerInv, QueueInv, SignedByAccount, transportVars
<1>5. SessionInv'
  BY <1>1, LedgerAssumption DEF LedgerInv, SessionInv, transportVars
<1>6. ExchangeInv'
  BY <1>1, <1>2 DEF ExchangeInv, Serving, transportVars
<1>7. ReadInv'
  BY <1>1, <1>2 DEF LedgerInv, ReadInv, transportVars
<1>. QED  BY <1>3, <1>4, <1>5, <1>6, <1>7 DEF LedgerInv

LEMMA UnplugKeeps ==
  ASSUME LedgerInv, Unplug
  PROVE  LedgerInv'
<1>1. /\ plugged' = None /\ unfinished' = None /\ toDevice' = <<>> /\ wire' = <<>> /\ Event
      /\ UNCHANGED <<connects, handed>>
  BY DEF Unplug
<1>2. /\ open' = 0 /\ queue' \in Seq(Operations) /\ exchange' \in [step : {"sending", "reading"}, got : 0 .. 1]
      /\ reports' \in Seq(Report) /\ oddity' \in BOOLEAN
      /\ jobs' \in [Operations -> ReadingJob \cup SigningJob \cup {None}]
      /\ \A o \in Operations : jobs'[o] = None
      /\ hook'.app = None
      /\ hook' \in [app : (Apps \ {"BOLOS"}) \cup {None},
                   scheme : {"ledger-live", "bip44", "legacy", "harmony"},
                   accounts : Seq(Account), selected : 1 .. Shown]
      /\ QueueInv' /\ ExchangeInv' /\ ReadInv'
  <2>1. CASE open # 0
    <3>1. Closed
      BY <2>1 DEF Unplug
    <3>. QED  BY <3>1, ClosedHolds
  <2>2. CASE open = 0
    <3>1. UNCHANGED <<open, queue, exchange, reports, jobs, hook, oddity>>
      BY <2>2 DEF Unplug
    <3>2. ~Serving
      BY <2>2, ServedJob
    <3>3. hook.app = None /\ \A o \in Operations : jobs[o] = None
      BY <2>2 DEF LedgerInv, SessionInv
    <3>4. QueueInv'
      BY <3>1 DEF LedgerInv, QueueInv
    <3>5. ExchangeInv'
      BY <3>1, <3>2 DEF ExchangeInv, Serving
    <3>6. ReadInv'
      BY <3>1, <3>3 DEF ReadInv, Operations
    <3>. QED  BY <2>2, <3>1, <3>3, <3>4, <3>5, <3>6 DEF LedgerInv, LedgerTypes
  <2>. QED  BY <2>1, <2>2
<1>3. "read" \in Operations /\ Signings \subseteq Operations /\ <<>> \in Seq(Sent) /\ <<>> \in Seq(Report)
      /\ DOMAIN <<>> = {}
  BY DEF Operations
<1>4. LedgerTypes'
  BY <1>1, <1>2, <1>3, EventsAreBounded DEF LedgerInv, LedgerTypes
<1>5. SessionInv'
  BY <1>1, <1>2, <1>3 DEF SessionInv
<1>6. SignedByAccount'
  BY <1>1 DEF LedgerInv, SignedByAccount
<1>. QED  BY <1>2, <1>4, <1>5, <1>6 DEF LedgerInv

LEMMA LedgerInitHolds == LedgerInit => LedgerInv
<1>. SUFFICES ASSUME LedgerInit PROVE LedgerInv
  OBVIOUS
<1>1. /\ <<>> \in Seq(Sent) /\ <<>> \in Seq(Report) /\ <<>> \in Seq(Operations) /\ <<>> \in Seq(Account)
      /\ DOMAIN <<>> = {} /\ "read" \in Operations /\ Signings \subseteq Operations
  BY DEF Operations
<1>2. hook = [app |-> None, scheme |-> "harmony", accounts |-> <<>>, selected |-> 1] /\ 1 \in 1 .. Shown
  BY DEF LedgerInit, NoHook, Shown
<1>3. jobs \in [Operations -> ReadingJob \cup SigningJob \cup {None}] /\ \A o \in Operations : jobs[o] = None
  BY DEF LedgerInit
<1>4. hook \in [app : (Apps \ {"BOLOS"}) \cup {None},
                scheme : {"ledger-live", "bip44", "legacy", "harmony"},
                accounts : Seq(Account), selected : 1 .. Shown] /\ hook.app = None
  BY <1>1, <1>2
<1>5. LedgerTypes
  <2>1. connects \in 0 .. MaxConnects /\ open \in 0 .. connects /\ events \in 0 .. MaxEvents /\ oddity \in BOOLEAN
    <3>1. MaxConnects \in Nat /\ MaxEvents \in Nat
      BY LedgerAssumption
    <3>2. connects = 0 /\ open = 0 /\ events = 0
      BY DEF LedgerInit
    <3>3. oddity \in BOOLEAN
      BY DEF LedgerInit
    <3>. QED  BY <3>1, <3>2, <3>3
  <2>2. /\ toDevice \in Seq(Sent) /\ wire \in Seq(Report) /\ reports \in Seq(Report) /\ queue \in Seq(Operations)
        /\ exchange \in [step : {"sending", "reading"}, got : 0 .. 1] /\ plugged = None /\ unfinished = None
    BY <1>1 DEF LedgerInit, Fresh
  <2>3. jobs["read"] = None /\ \A o \in Signings : jobs[o] = None
    BY <1>1, <1>3
  <2>. QED  BY <1>3, <1>4, <2>1, <2>2, <2>3 DEF LedgerTypes
<1>6. QueueInv /\ SessionInv
  BY <1>1, <1>3, <1>4 DEF LedgerInit, QueueInv, SessionInv
<1>7. ExchangeInv /\ ReadInv /\ SignedByAccount
  BY <1>1, <1>3, <1>4 DEF LedgerInit, ExchangeInv, Serving, ReadInv, SignedByAccount
<1>. QED  BY <1>5, <1>6, <1>7 DEF LedgerInv

LEMMA LedgerNextKeeps == LedgerInv /\ [LedgerNext]_ledgerVars => LedgerInv'
<1>. SUFFICES ASSUME LedgerInv, [LedgerNext]_ledgerVars PROVE LedgerInv'
  OBVIOUS
<1>1. ASSUME NEW d \in Device, Plug(d) \/ Swap(d) PROVE LedgerInv'
  BY <1>1, PlugKeeps, SwapKeeps
<1>2. CASE Unplug
  BY <1>2, UnplugKeeps
<1>3. ASSUME NEW c \in {toDevice[i] : i \in DOMAIN toDevice}, NEW reply \in {Answers(c.command), StatusError},
             AnswerCommand(c, reply)
      PROVE  LedgerInv'
  <2>1. toDevice # <<>>
    BY <1>3 DEF AnswerCommand
  <2>. QED  BY <1>3, <2>1, AnswerCommandKeeps
<1>4. CASE ReportArrives
  BY <1>4, ReportArrivesKeeps
<1>5. ASSUME NEW scheme \in {"ledger-live", "bip44"}, StrayReport(<<scheme, 1>>) PROVE LedgerInv'
  <2>1. <<scheme, 1>> \in Path
    BY DEF Path, Shown
  <2>. QED  BY <1>5, <2>1, StrayReportKeeps
<1>6. CASE Connect
  BY <1>6, ConnectKeeps
<1>7. CASE Disconnect
  <2>1. Closed /\ Event /\ UNCHANGED <<deviceVars, connects, handed>>
    BY <1>7 DEF Disconnect
  <2>2. events' \in 0 .. MaxEvents
    BY <2>1, EventsAreBounded DEF LedgerInv
  <2>. QED  BY <2>1, <2>2, ClosedKeeps
<1>8. CASE SendCommand
  BY <1>8, SendCommandKeeps
<1>9. CASE FailSendCommand
  <2>1. Serving /\ FailOperation /\ UNCHANGED <<deviceVars, connects, handed, events>>
    BY <1>9 DEF FailSendCommand
  <2>. QED  BY <2>1, FailKeeps
<1>10. CASE ReadReport
  BY <1>10, ReadReportKeeps
<1>11. ASSUME NEW scheme \in {"ledger-live", "bip44"}, ChangeScheme(scheme) PROVE LedgerInv'
  BY <1>11, ChangeSchemeKeeps
<1>12. ASSUME NEW i \in 1 .. Shown, SelectAccount(i) PROVE LedgerInv'
  BY <1>12, SelectAccountKeeps
<1>13. ASSUME NEW o \in Signings, NEW op \in {"message", "tx"}, StartSigning(o, op) PROVE LedgerInv'
  BY <1>13, StartSigningKeeps
<1>14. CASE UNCHANGED ledgerVars
  <2>1. UNCHANGED <<plugged, unfinished, toDevice, wire, connects, open, queue, exchange, reports, jobs, hook,
                    handed, oddity, events>>
    BY <1>14 DEF ledgerVars, deviceVars, transportVars
  <2>2. LedgerTypes' /\ QueueInv' /\ SessionInv'
    BY <2>1 DEF LedgerInv, LedgerTypes, QueueInv, SessionInv
  <2>3. ExchangeInv' /\ ReadInv' /\ SignedByAccount'
    BY <2>1 DEF LedgerInv, ExchangeInv, Serving, Now, ReadInv, OfDevice, AddressAt, SignedByAccount
  <2>. QED  BY <2>2, <2>3 DEF LedgerInv
<1>15. ASSUME LedgerNext PROVE LedgerInv'
  <2>1. CASE DeviceStep
    BY <1>1, <1>2, <1>3, <1>4, <1>5, <2>1 DEF DeviceStep
  <2>2. CASE PageStep
    BY <1>6, <1>7, <1>8, <1>9, <1>10, <1>11, <1>12, <1>13, <2>2 DEF PageStep
  <2>. QED  BY <1>15, <2>1, <2>2 DEF LedgerNext
<1>. QED  BY <1>14, <1>15

\* The Ledger's invariant holds in every session with a device.
THEOREM LedgerInvariance == LedgerSpec => []LedgerInv
<1>. QED  BY LedgerInitHolds, LedgerNextKeeps, PTL DEF LedgerSpec

LEMMA LedgerInvTyped == LedgerInv => LedgerTypeOK
<1>. SUFFICES ASSUME LedgerInv PROVE LedgerTypeOK
  OBVIOUS
<1>1. hook.app \in {None, "ethereum", "harmony", "harmony-legacy"}
  BY DEF LedgerInv, LedgerTypes, Apps
<1>2. unfinished # None => unfinished.payload \in Signings
  BY DEF LedgerInv, LedgerTypes
<1>. QED  BY <1>1, <1>2 DEF LedgerInv, LedgerTypes, QueueInv, LedgerTypeOK

LEMMA LedgerInvShows == LedgerInv => SignedByAccount /\ ShowsDevice
  BY DEF LedgerInv, ReadInv, OfDevice, ShowsDevice

-----------------------------------------------------------------------------
(* The parts of the stake at the cutoff (CutoffParts).                      *)

PartType == [category : Stages, credited : BOOLEAN, count : Nat, atto : Nat]

Counts == [p \in PartType |-> p.count]
Attos == [p \in PartType |-> p.atto]
Zeroed(f, W) == [p \in PartType |-> IF p \in W THEN f[p] ELSE 0]

\* The total of parts is the sum of their counts and of their amounts.
LEMMA TotalIs ==
    ASSUME NEW s \in Seq(PartType)
    PROVE  /\ Total(s) = Count(Weigh(s, Counts), Weigh(s, Attos))
           /\ Weigh(s, Counts) \in Nat /\ Weigh(s, Attos) \in Nat
           /\ Counts \in [PartType -> Nat] /\ Attos \in [PartType -> Nat]
<1>1. Counts \in [PartType -> Nat] /\ Attos \in [PartType -> Nat]
  BY DEF Counts, Attos, PartType
<1>2. \A i \in DOMAIN s : Counts[s[i]] = s[i].count /\ Attos[s[i]] = s[i].atto
  <2>1. \A i \in DOMAIN s : s[i] \in PartType
    OBVIOUS
  <2>. QED  BY <2>1 DEF Counts, Attos
<1>3. [i \in DOMAIN s |-> s[i].count] = [i \in DOMAIN s |-> Counts[s[i]]]
      /\ [i \in DOMAIN s |-> s[i].atto] = [i \in DOMAIN s |-> Attos[s[i]]]
  BY <1>2
<1>4. Weigh(s, Counts) \in Nat /\ Weigh(s, Attos) \in Nat
  BY <1>1, WeighNat
<1>. QED  BY <1>1, <1>3, <1>4 DEF Total, Weigh

\* Parts that are left out weigh nothing.
LEMMA ThoseWeigh ==
    ASSUME NEW s \in Seq(PartType), NEW W, NEW f \in [PartType -> Int]
    PROVE  Weigh(Those(s, W), f) = Weigh(s, Zeroed(f, W))
<1>1. Zeroed(f, W) = [v \in PartType |-> IF v \in W THEN f[v] ELSE 0]
  BY DEF Zeroed
<1>. QED  BY <1>1, WeighThose

\* What chosen parts come to is what all come to, where others count for nothing.
LEMMA TotalOfThose ==
    ASSUME NEW s \in Seq(PartType), NEW W
    PROVE  /\ Those(s, W) \in Seq(PartType)
           /\ Total(Those(s, W)) = Count(Weigh(s, Zeroed(Counts, W)), Weigh(s, Zeroed(Attos, W)))
<1>1. Those(s, W) \in Seq(PartType)
  BY ThoseAre
<1>2. Counts \in [PartType -> Int] /\ Attos \in [PartType -> Int]
  BY DEF Counts, Attos, PartType
<1>3. Weigh(Those(s, W), Counts) = Weigh(s, Zeroed(Counts, W))
      /\ Weigh(Those(s, W), Attos) = Weigh(s, Zeroed(Attos, W))
  BY <1>2, ThoseWeigh
<1>. QED  BY <1>1, <1>3, TotalIs

\* One place that holds something is what there is.
LEMMA SumOnly ==
    ASSUME NEW n \in Nat, NEW s \in [1 .. n -> Int], NEW k \in 1 .. n, \A i \in 1 .. n : i # k => s[i] = 0
    PROVE  SumOf(s) = s[k]
<1>. DEFINE z == [i \in 1 .. n |-> 0]
<1>1. z \in [1 .. n -> Int] /\ (\A i \in 1 .. n : z[i] = 0) /\ s[k] \in Int
  OBVIOUS
<1>. HIDE DEF z
<1>2. SumOf(z) = 0
  BY <1>1, SumNothing
<1>3. \A i \in 1 .. n : i # k => s[i] = z[i]
  BY <1>1
<1>4. SumOf(s) = SumOf(z) + (s[k] - z[k])
  BY <1>1, <1>3, SumDiffers
<1>. QED  BY <1>1, <1>2, <1>4

\* What a stage has is a total, whether the catalog has the stage or not.
LEMMA StagesAreTotals ==
    ASSUME cutoff \in Cutoffs
    PROVE  /\ DOMAIN cutoff \subseteq Stages /\ \A c \in DOMAIN cutoff : cutoff[c] \in Totals
           /\ \A c : Stage(c) \in Totals
<1>1. DOMAIN cutoff \subseteq Stages /\ cutoff \in [DOMAIN cutoff -> Totals]
  BY FiguresAssumption DEF Totals
<1>2. Count(0, 0) \in Totals
  BY DEF Count, Totals
<1>. QED  BY <1>1, <1>2 DEF Stage

\* What is funded of a stage is no more than there is left or the stage has.
LEMMA FundedIs ==
    ASSUME cutoff \in Cutoffs, NEW left \in Totals, NEW c
    PROVE  /\ Funded(left, c) \in Totals /\ Minus(left, Funded(left, c)) \in Totals
           /\ Funded(left, c).count <= Stage(c).count /\ Funded(left, c).atto <= Stage(c).atto
<1>. PICK s : s = Stage(c)
  OBVIOUS
<1>1. s \in Totals
  BY StagesAreTotals
<1>2. left.count \in Nat /\ left.atto \in Nat /\ s.count \in Nat /\ s.atto \in Nat
  BY <1>1 DEF Totals
<1>3. \A a, b \in Nat : Least(a, b) \in Nat /\ Least(a, b) <= b /\ a - Least(a, b) \in Nat
  BY DEF Least
<1>4. Funded(left, c) = [count |-> Least(left.count, s.count), atto |-> Least(left.atto, s.atto)]
  BY DEF Funded, Count
<1>5. Least(left.count, s.count) \in Nat /\ Least(left.count, s.count) <= s.count
      /\ left.count - Least(left.count, s.count) \in Nat
      /\ Least(left.atto, s.atto) \in Nat /\ Least(left.atto, s.atto) <= s.atto
      /\ left.atto - Least(left.atto, s.atto) \in Nat
  BY <1>2, <1>3
<1>. QED  BY <1>4, <1>5 DEF Minus, Count, Totals

\* What is left of the credits after each stage, from all of them.
LEMMA LeftIs ==
    ASSUME cutoff \in Cutoffs, NEW credits \in Totals
    PROVE  /\ Left(credits)[0] = credits
           /\ \A k \in 1 .. 5 : Left(credits)[k] = Minus(Left(credits)[k - 1], Funded(Left(credits)[k - 1], Creditable[k]))
           /\ \A k \in 0 .. 5 : Left(credits)[k] \in Totals
<1>. DEFINE Next(l, k) == Minus(l, Funded(l, Creditable[k]))
            Solves(f) == f = [n \in 0 .. Len(Creditable) |-> IF n = 0 THEN credits ELSE Next(f[n - 1], n)]
            left == CHOOSE f : Solves(f)
<1>1. Len(Creditable) = 5
  BY DEF Creditable
<1>2. \E f : Solves(f)
  <2>1. PICK a, b, c, d, e : /\ a = Next(credits, 1) /\ b = Next(a, 2) /\ c = Next(b, 3)
                             /\ d = Next(c, 4) /\ e = Next(d, 5)
    OBVIOUS
  <2>. DEFINE f == [n \in 0 .. 5 |-> IF n = 0 THEN credits ELSE IF n = 1 THEN a ELSE IF n = 2 THEN b
                                     ELSE IF n = 3 THEN c ELSE IF n = 4 THEN d ELSE e]
  <2>. HIDE DEF Next
  <2>2. f[0] = credits /\ f[1] = a /\ f[2] = b /\ f[3] = c /\ f[4] = d /\ f[5] = e
    OBVIOUS
  <2>3. f = [n \in 0 .. 5 |-> f[n]]
    OBVIOUS
  <2>. HIDE DEF f
  <2>4. \A n \in 0 .. 5 : f[n] = IF n = 0 THEN credits ELSE Next(f[n - 1], n)
    <3>1. SUFFICES ASSUME NEW n \in 0 .. 5 PROVE f[n] = IF n = 0 THEN credits ELSE Next(f[n - 1], n)
      OBVIOUS
    <3>2. n = 0 \/ n = 1 \/ n = 2 \/ n = 3 \/ n = 4 \/ n = 5
      OBVIOUS
    <3>3. 1 - 1 = 0 /\ 2 - 1 = 1 /\ 3 - 1 = 2 /\ 4 - 1 = 3 /\ 5 - 1 = 4
      OBVIOUS
    <3>. QED  BY <2>1, <2>2, <3>2, <3>3
  <2>5. Solves(f)
    BY <1>1, <2>3, <2>4
  <2>. HIDE DEF Solves
  <2>. QED  BY <2>5
<1>3. Solves(left)
  <2>. HIDE DEF Solves
  <2>. QED  BY <1>2
<1>4. Left(credits) = left
  BY DEF Left
<1>. HIDE DEF left, Next
<1>5. \A n \in 0 .. 5 : left[n] = IF n = 0 THEN credits ELSE Next(left[n - 1], n)
  BY <1>1, <1>3
<1>6. left[0] = credits /\ \A k \in 1 .. 5 : left[k] = Next(left[k - 1], k)
  BY <1>5
<1>7. \A l \in Totals : \A k : Next(l, k) \in Totals
  BY FundedIs DEF Next
<1>8. \A k \in 0 .. 5 : left[k] \in Totals
  <2>1. left[0] \in Totals
    BY <1>6
  <2>2. left[1] = Next(left[0], 1) /\ left[2] = Next(left[1], 2) /\ left[3] = Next(left[2], 3)
        /\ left[4] = Next(left[3], 4) /\ left[5] = Next(left[4], 5)
    <3>1. 1 - 1 = 0 /\ 2 - 1 = 1 /\ 3 - 1 = 2 /\ 4 - 1 = 3 /\ 5 - 1 = 4
      OBVIOUS
    <3>. QED  BY <1>6, <3>1
  <2>3. left[1] \in Totals
    BY <1>7, <2>1, <2>2
  <2>4. left[2] \in Totals
    BY <1>7, <2>2, <2>3
  <2>5. left[3] \in Totals
    BY <1>7, <2>2, <2>4
  <2>6. left[4] \in Totals
    BY <1>7, <2>2, <2>5
  <2>7. left[5] \in Totals
    BY <1>7, <2>2, <2>6
  <2>8. \A k \in 0 .. 5 : k = 0 \/ k = 1 \/ k = 2 \/ k = 3 \/ k = 4 \/ k = 5
    OBVIOUS
  <2>. QED  BY <2>1, <2>3, <2>4, <2>5, <2>6, <2>7, <2>8
<1>. QED  BY <1>4, <1>6, <1>8 DEF Next

\* The stages, in the two orders that they are listed in.
LEMMA CreditableOrder ==
    /\ DOMAIN Creditable = 1 .. 5 /\ \A i \in 1 .. 5 : Creditable[i] \in Stages
    /\ \A i, j \in 1 .. 5 : Creditable[i] = Creditable[j] => i = j
<1>1. DOMAIN Creditable = 1 .. 5
  BY DEF Creditable
<1>2. \A i \in 1 .. 5 : i = 1 \/ i = 2 \/ i = 3 \/ i = 4 \/ i = 5
  OBVIOUS
<1>3. /\ Creditable[1] = "initial" /\ Creditable[2] = "confirmed" /\ Creditable[3] = "inactive"
      /\ Creditable[4] = "next_stage" /\ Creditable[5] = "manual_review"
  BY DEF Creditable
<1>4. \A i \in 1 .. 5 : Creditable[i] \in Stages
  BY <1>2, <1>3 DEF Stages
<1>5. \A i, j \in 1 .. 5 : Creditable[i] = Creditable[j] => i = j
  BY <1>2, <1>3
<1>. QED  BY <1>1, <1>4, <1>5

\* The rows outside are of every stage, once.
LEMMA OutsideOrderIs ==
    /\ DOMAIN OutsideOrder = 1 .. 8 /\ \A i \in 1 .. 8 : OutsideOrder[i] \in Stages
    /\ \A i, j \in 1 .. 8 : OutsideOrder[i] = OutsideOrder[j] => i = j
    /\ \A c \in Stages : \E i \in 1 .. 8 : OutsideOrder[i] = c
<1>1. DOMAIN OutsideOrder = 1 .. 8
  BY DEF OutsideOrder
<1>2. \A i \in 1 .. 8 : i = 1 \/ i = 2 \/ i = 3 \/ i = 4 \/ i = 5 \/ i = 6 \/ i = 7 \/ i = 8
  OBVIOUS
<1>3. /\ OutsideOrder[1] = "initial" /\ OutsideOrder[2] = "confirmed" /\ OutsideOrder[3] = "inactive"
      /\ OutsideOrder[4] = "below_threshold" /\ OutsideOrder[5] = "next_stage"
      /\ OutsideOrder[6] = "manual_review" /\ OutsideOrder[7] = "exchange" /\ OutsideOrder[8] = "not_issued"
  BY DEF OutsideOrder
<1>4. \A i \in 1 .. 8 : OutsideOrder[i] \in Stages
  BY <1>2, <1>3 DEF Stages
<1>5. \A i, j \in 1 .. 8 : OutsideOrder[i] = OutsideOrder[j] => i = j
  BY <1>2, <1>3
<1>6. \A c \in Stages : \E i \in 1 .. 8 : OutsideOrder[i] = c
  BY <1>3 DEF Stages
<1>. QED  BY <1>1, <1>4, <1>5, <1>6

OfCategory(c) == {p \in PartType : p.category = c}
IsCredited == {p \in PartType : p.credited}
IsShown == {p \in PartType : p.count > 0 \/ p.atto > 0}

\* The total of a category, as weights.
LEMMA TotalOfIs ==
    ASSUME NEW s \in Seq(PartType), NEW c
    PROVE  TotalOf(s, c) = Count(Weigh(s, Zeroed(Counts, OfCategory(c))), Weigh(s, Zeroed(Attos, OfCategory(c))))
<1>1. {i \in DOMAIN s : s[i].category = c} = {i \in DOMAIN s : s[i] \in OfCategory(c)}
  <2>1. \A i \in DOMAIN s : s[i] \in PartType
    OBVIOUS
  <2>. QED  BY <2>1 DEF OfCategory
<1>2. TotalOf(s, c) = Total(Those(s, OfCategory(c)))
  BY <1>1 DEF TotalOf, Those
<1>. QED  BY <1>2, TotalOfThose

\* The same of the parts that are credited, and of those there is something of.
LEMMA CreditedOfIs ==
    ASSUME NEW s \in Seq(PartType)
    PROVE  /\ Total(Chosen(s, {i \in DOMAIN s : s[i].credited}))
                = Count(Weigh(s, Zeroed(Counts, IsCredited)), Weigh(s, Zeroed(Attos, IsCredited)))
           /\ Chosen(s, {i \in DOMAIN s : s[i].count > 0 \/ s[i].atto > 0}) = Those(s, IsShown)
<1>0. \A i \in DOMAIN s : s[i] \in PartType
  OBVIOUS
<1>1. {i \in DOMAIN s : s[i].credited} = {i \in DOMAIN s : s[i] \in IsCredited}
  BY <1>0 DEF IsCredited
<1>2. {i \in DOMAIN s : s[i].count > 0 \/ s[i].atto > 0} = {i \in DOMAIN s : s[i] \in IsShown}
  BY <1>0 DEF IsShown
<1>3. Total(Chosen(s, {i \in DOMAIN s : s[i].credited})) = Total(Those(s, IsCredited))
  BY <1>1 DEF Those
<1>. QED  BY <1>2, <1>3, TotalOfThose DEF Those

\* What is gone of l is the sum of s.
LEMMA Declines ==
    ASSUME NEW s \in [1 .. 5 -> Int], NEW l \in [0 .. 5 -> Int], \A k \in 1 .. 5 : l[k] = l[k - 1] - s[k]
    PROVE  SumOf(s) + l[5] = l[0]
<1>1. s \in Seq(Int) /\ Len(s) = 5
  <2>1. 5 \in Nat
    OBVIOUS
  <2>. QED  BY <2>1, SumAsWeigh
<1>2. PICK p : SumsTo(s, p)
  BY <1>1, SumsExist
<1>3. /\ p \in [0 .. 5 -> Int] /\ p[0] = 0 /\ \A n \in 1 .. 5 : p[n] = p[n - 1] + s[n]
      /\ SumOf(s) = p[5]
  BY <1>1, <1>2, SumOfIs DEF SumsTo
<1>4. \A n \in 1 .. 5 : p[n - 1] + l[n - 1] = l[0] => p[n] + l[n] = l[0]
  <2>1. \A n \in 1 .. 5 : p[n - 1] \in Int /\ l[n - 1] \in Int /\ s[n] \in Int
    <3>1. \A n \in 1 .. 5 : n - 1 \in 0 .. 5
      OBVIOUS
    <3>. QED  BY <1>3, <3>1
  <2>. QED  BY <1>3, <2>1
<1>5. p[0] + l[0] = l[0]
  BY <1>3
<1>6. 1 - 1 = 0 /\ 2 - 1 = 1 /\ 3 - 1 = 2 /\ 4 - 1 = 3 /\ 5 - 1 = 4
  OBVIOUS
<1>. DEFINE Held(n) == p[n] + l[n] = l[0]
<1>7. \A n \in 1 .. 5 : Held(n - 1) => Held(n)
  BY <1>4
<1>8. Held(0)
  BY <1>5
<1>. HIDE DEF Held
<1>9. Held(5)
  BY <1>6, <1>7, <1>8
<1>. QED  BY <1>3, <1>9 DEF Held

\* A sum of at most one that is anything.
LEMMA SumAtMost ==
    ASSUME NEW n \in Nat, NEW s \in [1 .. n -> Nat], NEW b \in Nat, \A i \in 1 .. n : s[i] <= b,
           \A i, j \in 1 .. n : s[i] # 0 /\ s[j] # 0 => i = j
    PROVE  SumOf(s) <= b
<1>1. s \in [1 .. n -> Int]
  OBVIOUS
<1>2. CASE \A i \in 1 .. n : s[i] = 0
  <2>1. SumOf(s) = 0
    BY <1>1, <1>2, SumNothing
  <2>. QED  BY <2>1
<1>3. CASE \E k \in 1 .. n : s[k] # 0
  <2>1. PICK k \in 1 .. n : s[k] # 0
    BY <1>3
  <2>2. \A i \in 1 .. n : i # k => s[i] = 0
    BY <2>1
  <2>3. SumOf(s) = s[k]
    BY <1>1, <2>2, SumOnly
  <2>. QED  BY <2>3
<1>. QED  BY <1>2, <1>3

Fund(credits, i) == Funded(Left(credits)[i - 1], Creditable[i])

\* The credited parts are of the credits, and of a stage no more than it has.
LEMMA CreditedIs ==
    ASSUME cutoff \in Cutoffs, NEW credits \in Totals
    PROVE  /\ CreditedParts(credits) \in [1 .. 5 -> PartType]
           /\ \A i \in 1 .. 5 : CreditedParts(credits)[i] = Part(Creditable[i], TRUE, Fund(credits, i))
           /\ \A i \in 1 .. 5 : /\ Fund(credits, i) \in Totals
                                /\ Fund(credits, i).count <= Stage(Creditable[i]).count
                                /\ Fund(credits, i).atto <= Stage(Creditable[i]).atto
<1>1. \A i \in 1 .. 5 : /\ Fund(credits, i) \in Totals
                        /\ Fund(credits, i).count <= Stage(Creditable[i]).count
                        /\ Fund(credits, i).atto <= Stage(Creditable[i]).atto
  <2>1. \A i \in 1 .. 5 : Left(credits)[i - 1] \in Totals
    <3>1. \A i \in 1 .. 5 : i - 1 \in 0 .. 5
      OBVIOUS
    <3>. QED  BY <3>1, LeftIs
  <2>. QED  BY <2>1, FundedIs DEF Fund
<1>2. CreditedParts(credits) = [i \in 1 .. 5 |-> Part(Creditable[i], TRUE, Fund(credits, i))]
  BY CreditableOrder DEF CreditedParts, Fund
<1>3. \A i \in 1 .. 5 : Part(Creditable[i], TRUE, Fund(credits, i)) \in PartType
  <2>1. \A c \in Stages : \A t \in Totals : Part(c, TRUE, t) \in PartType
    BY DEF Part, PartType, Totals
  <2>. QED  BY <1>1, <2>1, CreditableOrder
<1>. QED  BY <1>1, <1>2, <1>3



\* All the credits are in a part or left.
LEMMA CreditedSum ==
    ASSUME cutoff \in Cutoffs, NEW credits \in Totals
    PROVE  /\ Weigh(CreditedParts(credits), Counts) + Unexplained(credits).count = credits.count
           /\ Weigh(CreditedParts(credits), Attos) + Unexplained(credits).atto = credits.atto
           /\ Unexplained(credits) \in Totals
<1>. PICK s, left : s = CreditedParts(credits) /\ left = Left(credits)
  OBVIOUS
<1>. DEFINE counts == [i \in 1 .. 5 |-> Counts[s[i]]]
            attos == [i \in 1 .. 5 |-> Attos[s[i]]]
            c == [k \in 0 .. 5 |-> left[k].count]
            a == [k \in 0 .. 5 |-> left[k].atto]
<1>1. /\ s \in [1 .. 5 -> PartType]
      /\ \A i \in 1 .. 5 : s[i] = Part(Creditable[i], TRUE, Fund(credits, i)) /\ Fund(credits, i) \in Totals
  BY CreditedIs
<1>2. 5 \in Nat /\ Counts \in [PartType -> Int] /\ Attos \in [PartType -> Int]
  BY DEF Counts, Attos, PartType
<1>3. /\ counts \in [1 .. 5 -> Int] /\ Weigh(s, Counts) = SumOf(counts)
      /\ attos \in [1 .. 5 -> Int] /\ Weigh(s, Attos) = SumOf(attos)
  <2>1. ASSUME NEW f \in [PartType -> Int]
        PROVE  /\ [i \in 1 .. 5 |-> f[s[i]]] \in [1 .. 5 -> Int]
               /\ Weigh(s, f) = SumOf([i \in 1 .. 5 |-> f[s[i]]])
    <3>1. DOMAIN s = 1 .. 5 /\ \A i \in 1 .. 5 : s[i] \in PartType
      BY <1>1
    <3>. QED  BY <2>1, <3>1 DEF Weigh
  <2>. QED  BY <1>2, <2>1
<1>4. \A i \in 1 .. 5 : counts[i] = Fund(credits, i).count /\ attos[i] = Fund(credits, i).atto
  BY <1>1 DEF Counts, Attos, Part
<1>5. \A k \in 0 .. 5 : left[k] \in Totals
  BY LeftIs
<1>6. c \in [0 .. 5 -> Int] /\ a \in [0 .. 5 -> Int]
  BY <1>5 DEF Totals
<1>7. \A k \in 1 .. 5 : left[k] = Minus(left[k - 1], Fund(credits, k)) /\ k - 1 \in 0 .. 5
  BY LeftIs DEF Fund
<1>8. \A k \in 1 .. 5 : c[k] = c[k - 1] - counts[k] /\ a[k] = a[k - 1] - attos[k]
  BY <1>4, <1>7 DEF Minus, Count
<1>9. c[0] = credits.count /\ a[0] = credits.atto /\ c[5] = left[5].count /\ a[5] = left[5].atto
  BY LeftIs
<1>10. Unexplained(credits) = left[5] /\ left[5] \in Totals
  <2>1. Len(Creditable) = 5
    BY DEF Creditable
  <2>. QED  BY <1>5, <2>1 DEF Unexplained
<1>. HIDE DEF counts, attos, c, a
<1>11. SumOf(counts) + c[5] = c[0] /\ SumOf(attos) + a[5] = a[0]
  BY <1>3, <1>6, <1>8, Declines
<1>. QED  BY <1>3, <1>9, <1>10, <1>11

\* Of every stage, at most what it has is credited.
LEMMA CreditedOf ==
    ASSUME cutoff \in Cutoffs, NEW credits \in Totals, NEW c \in Stages
    PROVE  /\ TotalOf(CreditedParts(credits), c) \in Totals
           /\ TotalOf(CreditedParts(credits), c).count <= Stage(c).count
           /\ TotalOf(CreditedParts(credits), c).atto <= Stage(c).atto
<1>. PICK s, b : s = CreditedParts(credits) /\ b = Stage(c)
  OBVIOUS
<1>1. /\ s \in [1 .. 5 -> PartType]
      /\ \A i \in 1 .. 5 : /\ s[i] = Part(Creditable[i], TRUE, Fund(credits, i)) /\ Fund(credits, i) \in Totals
                           /\ Fund(credits, i).count <= Stage(Creditable[i]).count
                           /\ Fund(credits, i).atto <= Stage(Creditable[i]).atto
  BY CreditedIs
<1>2. b.count \in Nat /\ b.atto \in Nat
  BY StagesAreTotals DEF Totals
<1>3. ASSUME NEW f \in [PartType -> Nat], NEW m \in Nat,
             \A i \in 1 .. 5 : Creditable[i] = c => f[s[i]] <= m
      PROVE  Weigh(s, Zeroed(f, OfCategory(c))) \in Nat /\ Weigh(s, Zeroed(f, OfCategory(c))) <= m
  <2>. DEFINE g == Zeroed(f, OfCategory(c))
              w == [i \in 1 .. 5 |-> g[s[i]]]
  <2>1. g \in [PartType -> Nat] /\ g \in [PartType -> Int]
        /\ \A p \in PartType : g[p] = IF p.category = c THEN f[p] ELSE 0
    BY DEF Zeroed, OfCategory
  <2>. HIDE DEF g
  <2>2. \A i \in 1 .. 5 : s[i] \in PartType /\ s[i].category = Creditable[i]
    BY <1>1 DEF Part
  <2>3. 5 \in Nat
    OBVIOUS
  <2>4. s \in Seq(PartType) /\ Weigh(s, g) = SumOf(w)
    <3>1. DOMAIN s = 1 .. 5
      BY <1>1
    <3>2. Weigh(s, g) = SumOf(w)
      BY <3>1 DEF Weigh
    <3>3. s \in Seq(PartType)
      <4>1. \A k \in Nat : \A h \in [1 .. k -> PartType] : h \in Seq(PartType)
        BY SeqDef
      <4>. QED  BY <1>1, <2>3, <4>1
    <3>. QED  BY <3>2, <3>3
  <2>5. w \in [1 .. 5 -> Nat] /\ \A i \in 1 .. 5 : w[i] = IF Creditable[i] = c THEN f[s[i]] ELSE 0
    BY <2>1, <2>2
  <2>. HIDE DEF w
  <2>6. \A i \in 1 .. 5 : w[i] <= m
    BY <1>3, <2>5
  <2>7. \A i, j \in 1 .. 5 : w[i] # 0 /\ w[j] # 0 => i = j
    <3>1. \A i \in 1 .. 5 : w[i] # 0 => Creditable[i] = c
      BY <2>5
    <3>. QED  BY <3>1, CreditableOrder
  <2>8. SumOf(w) <= m
    BY <2>3, <2>5, <2>6, <2>7, SumAtMost
  <2>9. Weigh(s, g) \in Nat
    BY <2>1, <2>4, WeighNat
  <2>. QED  BY <2>4, <2>8, <2>9 DEF g
<1>4. s \in Seq(PartType)
  <2>1. 5 \in Nat
    OBVIOUS
  <2>. QED  BY <1>1, <2>1, SeqDef
<1>5. Counts \in [PartType -> Nat] /\ Attos \in [PartType -> Nat]
  BY DEF Counts, Attos, PartType
<1>6. \A i \in 1 .. 5 : Creditable[i] = c => Counts[s[i]] <= b.count /\ Attos[s[i]] <= b.atto
  <2>1. \A i \in 1 .. 5 : s[i] \in PartType /\ Counts[s[i]] = s[i].count /\ Attos[s[i]] = s[i].atto
    BY <1>1 DEF Counts, Attos
  <2>. QED  BY <1>1, <2>1 DEF Part
<1>7. Weigh(s, Zeroed(Counts, OfCategory(c))) \in Nat /\ Weigh(s, Zeroed(Counts, OfCategory(c))) <= b.count
  BY <1>2, <1>3, <1>5, <1>6
<1>8. Weigh(s, Zeroed(Attos, OfCategory(c))) \in Nat /\ Weigh(s, Zeroed(Attos, OfCategory(c))) <= b.atto
  BY <1>2, <1>3, <1>5, <1>6
<1>9. TotalOf(s, c) = Count(Weigh(s, Zeroed(Counts, OfCategory(c))), Weigh(s, Zeroed(Attos, OfCategory(c))))
  BY <1>4, TotalOfIs
<1>. QED  BY <1>7, <1>8, <1>9 DEF Count, Totals

Outer(credits, c) == Part(c, FALSE, Minus(Stage(c), TotalOf(CreditedParts(credits), c)))

\* The other parts are what the credited ones leave of each stage.
LEMMA OutsideIs ==
    ASSUME cutoff \in Cutoffs, NEW credits \in Totals, NEW s, s = [i \in 1 .. 8 |-> Outer(credits, OutsideOrder[i])]
    PROVE  /\ s \in [1 .. 8 -> PartType] /\ \A i \in 1 .. 8 : ~s[i].credited
           /\ \A c \in Stages :
                 LET t == TotalOf(CreditedParts(credits), c)
                 IN  /\ Weigh(s, Zeroed(Counts, OfCategory(c))) = Stage(c).count - t.count
                     /\ Weigh(s, Zeroed(Attos, OfCategory(c))) = Stage(c).atto - t.atto
<1>. DEFINE t(c) == TotalOf(CreditedParts(credits), c)
<1>1. \A c \in Stages : /\ t(c) \in Totals /\ t(c).count <= Stage(c).count /\ t(c).atto <= Stage(c).atto
                        /\ Stage(c) \in Totals
  BY CreditedOf, StagesAreTotals
<1>. HIDE DEF t
<1>2. \A c \in Stages : /\ Outer(credits, c) \in PartType /\ ~Outer(credits, c).credited
                        /\ Outer(credits, c).category = c
                        /\ Outer(credits, c).count = Stage(c).count - t(c).count
                        /\ Outer(credits, c).atto = Stage(c).atto - t(c).atto
  <2>1. SUFFICES ASSUME NEW c \in Stages
                 PROVE  /\ Outer(credits, c) \in PartType /\ ~Outer(credits, c).credited
                        /\ Outer(credits, c).category = c
                        /\ Outer(credits, c).count = Stage(c).count - t(c).count
                        /\ Outer(credits, c).atto = Stage(c).atto - t(c).atto
    OBVIOUS
  <2>. PICK a, b : a = Stage(c) /\ b = t(c)
    OBVIOUS
  <2>2. Outer(credits, c) = [category |-> c, credited |-> FALSE, count |-> a.count - b.count,
                             atto |-> a.atto - b.atto]
    BY DEF Outer, Part, Minus, Count, t
  <2>3. a.count - b.count \in Nat /\ a.atto - b.atto \in Nat
    BY <1>1 DEF Totals
  <2>. QED  BY <2>2, <2>3 DEF PartType
<1>3. s \in [1 .. 8 -> PartType] /\ \A i \in 1 .. 8 : ~s[i].credited
  BY <1>2, OutsideOrderIs
<1>4. ASSUME NEW c \in Stages, NEW f \in [PartType -> Int]
      PROVE  Weigh(s, Zeroed(f, OfCategory(c))) = f[Outer(credits, c)]
  <2>. DEFINE g == Zeroed(f, OfCategory(c))
              w == [i \in 1 .. 8 |-> g[s[i]]]
  <2>1. g \in [PartType -> Int] /\ \A p \in PartType : g[p] = IF p.category = c THEN f[p] ELSE 0
    BY DEF Zeroed, OfCategory
  <2>. HIDE DEF g
  <2>2. 8 \in Nat
    OBVIOUS
  <2>3. Weigh(s, g) = SumOf(w) /\ w \in [1 .. 8 -> Int]
    <3>1. DOMAIN s = 1 .. 8 /\ \A i \in 1 .. 8 : s[i] \in PartType
      BY <1>3
    <3>2. Weigh(s, g) = SumOf(w)
      BY <3>1 DEF Weigh
    <3>. QED  BY <2>1, <3>1, <3>2
  <2>4. PICK k \in 1 .. 8 : OutsideOrder[k] = c
    BY OutsideOrderIs
  <2>5. \A i \in 1 .. 8 : i # k => w[i] = 0
    <3>1. SUFFICES ASSUME NEW i \in 1 .. 8, i # k PROVE w[i] = 0
      OBVIOUS
    <3>2. OutsideOrder[i] \in Stages /\ OutsideOrder[i] # c
      BY <2>4, <3>1, OutsideOrderIs
    <3>3. s[i] \in PartType /\ s[i].category = OutsideOrder[i]
      BY <1>2, <3>2
    <3>. QED  BY <2>1, <3>2, <3>3
  <2>6. w[k] = f[Outer(credits, c)]
    <3>1. s[k] = Outer(credits, c) /\ s[k] \in PartType /\ s[k].category = c
      BY <1>2, <2>4
    <3>. QED  BY <2>1, <3>1
  <2>. HIDE DEF w
  <2>7. SumOf(w) = w[k]
    BY <2>2, <2>3, <2>5, SumOnly
  <2>. QED  BY <2>3, <2>6, <2>7 DEF g
<1>5. Counts \in [PartType -> Int] /\ Attos \in [PartType -> Int]
  BY DEF Counts, Attos, PartType
<1>6. ASSUME NEW c \in Stages
      PROVE  /\ Weigh(s, Zeroed(Counts, OfCategory(c))) = Stage(c).count - t(c).count
             /\ Weigh(s, Zeroed(Attos, OfCategory(c))) = Stage(c).atto - t(c).atto
  <2>1. Counts[Outer(credits, c)] = Outer(credits, c).count /\ Attos[Outer(credits, c)] = Outer(credits, c).atto
    BY <1>2 DEF Counts, Attos
  <2>. QED  BY <1>2, <1>4, <1>5, <2>1
<1>. QED  BY <1>3, <1>6 DEF t

\* Parts of nothing add nothing.
LEMMA ShownWeigh ==
    ASSUME NEW all \in Seq(PartType), NEW f \in [PartType -> Int],
           \A p \in PartType : p.count = 0 /\ p.atto = 0 => f[p] = 0
    PROVE  Those(all, IsShown) \in Seq(PartType) /\ Weigh(Those(all, IsShown), f) = Weigh(all, f)
<1>1. Those(all, IsShown) \in Seq(PartType)
  BY ThoseAre
<1>2. Weigh(Those(all, IsShown), f) = Weigh(all, Zeroed(f, IsShown))
  BY ThoseWeigh
<1>3. \A p \in PartType : Zeroed(f, IsShown)[p] = f[p]
  <2>1. \A p \in PartType : p \notin IsShown => p.count = 0 /\ p.atto = 0
    BY DEF IsShown, PartType
  <2>. QED  BY <2>1 DEF Zeroed
<1>4. Weigh(all, Zeroed(f, IsShown)) = Weigh(all, f)
  <2>. PICK g : g = Zeroed(f, IsShown)
    OBVIOUS
  <2>. QED  BY <1>3, WeighSame
<1>. QED  BY <1>1, <1>2, <1>4

\* What the table's parts are made of: the same weights as all parts', where
\* nothing weighs nothing.
LEMMA CutoffPartsAre ==
    ASSUME cutoff \in Cutoffs, NEW credits \in Totals, NEW f \in [PartType -> Int],
           \A p \in PartType : p.count = 0 /\ p.atto = 0 => f[p] = 0,
           NEW s, s = [i \in 1 .. 8 |-> Outer(credits, OutsideOrder[i])]
    PROVE  /\ CutoffParts(credits) \in Seq(PartType)
           /\ Weigh(CutoffParts(credits), f) = Weigh(CreditedParts(credits), f) + Weigh(s, f)
<1>8. PICK credited : credited = CreditedParts(credits)
  OBVIOUS
<1>1. credited \in Seq(PartType) /\ s \in Seq(PartType)
  <2>1. \A m \in Nat : \A h \in [1 .. m -> PartType] : h \in Seq(PartType)
    BY SeqDef
  <2>2. credited \in [1 .. 5 -> PartType] /\ s \in [1 .. 8 -> PartType] /\ 5 \in Nat /\ 8 \in Nat
    BY <1>8, CreditedIs, OutsideIs
  <2>. QED  BY <2>1, <2>2
<1>9. PICK all : all = credited \o s
  OBVIOUS
<1>2. all \in Seq(PartType)
  BY <1>1, <1>9, ConcatProperties
<1>3. CutoffParts(credits) = Those(all, IsShown)
  <2>1. s = Mapped(LAMBDA c : Outer(credits, c), OutsideOrder)
    BY OutsideOrderIs DEF Mapped
  <2>2. CutoffParts(credits) = Chosen(all, {i \in DOMAIN all : all[i].count > 0 \/ all[i].atto > 0})
    BY <1>8, <1>9, <2>1 DEF CutoffParts, Outer
  <2>. QED  BY <1>2, <2>2, CreditedOfIs
<1>4. Those(all, IsShown) \in Seq(PartType) /\ Weigh(Those(all, IsShown), f) = Weigh(all, f)
  BY <1>2, ShownWeigh
<1>7. Weigh(all, f) = Weigh(credited, f) + Weigh(s, f)
  BY <1>1, <1>9, WeighJoined
<1>. QED  BY <1>3, <1>4, <1>7, <1>8

\* The parts come to the stages they are of, and the credited ones, with what is
\* unexplained, to the credits.
LEMMA TablePartsAddUp ==
    ASSUME cutoff \in Cutoffs, NEW credits \in Totals, NEW table,
           table.parts = CutoffParts(credits), table.unexplained = Unexplained(credits)
    PROVE  PartsAddUp(table, credits) /\ CutoffParts(credits) \in Seq(PartType)
<1>. PICK parts, credited : parts = CutoffParts(credits) /\ credited = CreditedParts(credits)
  OBVIOUS
<1>1. PICK s : s = [i \in 1 .. 8 |-> Outer(credits, OutsideOrder[i])]
  OBVIOUS
<1>2. Counts \in [PartType -> Int] /\ Attos \in [PartType -> Int]
      /\ \A p \in PartType : Counts[p] = p.count /\ Attos[p] = p.atto
  BY DEF Counts, Attos, PartType
<1>3. ASSUME NEW f \in [PartType -> Int], \A p \in PartType : p.count = 0 /\ p.atto = 0 => f[p] = 0, NEW W
      PROVE  /\ parts \in Seq(PartType)
             /\ Weigh(parts, Zeroed(f, W)) = Weigh(credited, Zeroed(f, W)) + Weigh(s, Zeroed(f, W))
  <2>. PICK g : g = Zeroed(f, W)
    OBVIOUS
  <2>1. g \in [PartType -> Int] /\ \A p \in PartType : p.count = 0 /\ p.atto = 0 => g[p] = 0
    BY <1>3 DEF Zeroed
  <2>. QED  BY <1>1, <2>1, CutoffPartsAre
<1>4. /\ \A p \in PartType : p.count = 0 /\ p.atto = 0 => Counts[p] = 0
      /\ \A p \in PartType : p.count = 0 /\ p.atto = 0 => Attos[p] = 0
  BY <1>2
<1>5. parts \in Seq(PartType)
  BY <1>2, <1>3, <1>4
<1>6. credited \in [1 .. 5 -> PartType] /\ credited \in Seq(PartType) /\ s \in [1 .. 8 -> PartType]
      /\ s \in Seq(PartType)
  <2>1. \A m \in Nat : \A h \in [1 .. m -> PartType] : h \in Seq(PartType)
    BY SeqDef
  <2>2. credited \in [1 .. 5 -> PartType] /\ s \in [1 .. 8 -> PartType] /\ 5 \in Nat /\ 8 \in Nat
    BY <1>1, CreditedIs, OutsideIs
  <2>. QED  BY <2>1, <2>2
<1>7. ASSUME NEW c \in DOMAIN cutoff
      PROVE  TotalOf(parts, c) = cutoff[c]
  <2>1. c \in Stages /\ Stage(c) = cutoff[c] /\ cutoff[c] \in Totals
    BY StagesAreTotals DEF Stage
  <2>. PICK t : t = TotalOf(credited, c)
    OBVIOUS
  <2>2. /\ t = Count(Weigh(credited, Zeroed(Counts, OfCategory(c))), Weigh(credited, Zeroed(Attos, OfCategory(c))))
        /\ t \in Totals
    BY <1>6, <2>1, TotalOfIs, CreditedOf
  <2>3. /\ Weigh(s, Zeroed(Counts, OfCategory(c))) = cutoff[c].count - t.count
        /\ Weigh(s, Zeroed(Attos, OfCategory(c))) = cutoff[c].atto - t.atto
    BY <1>1, <2>1, OutsideIs
  <2>4. /\ Weigh(parts, Zeroed(Counts, OfCategory(c))) = t.count + (cutoff[c].count - t.count)
        /\ Weigh(parts, Zeroed(Attos, OfCategory(c))) = t.atto + (cutoff[c].atto - t.atto)
    <3>1. /\ t.count = Weigh(credited, Zeroed(Counts, OfCategory(c)))
          /\ t.atto = Weigh(credited, Zeroed(Attos, OfCategory(c)))
      BY <2>2 DEF Count
    <3>. QED  BY <1>2, <1>3, <1>4, <2>3, <3>1
  <2>5. /\ Weigh(parts, Zeroed(Counts, OfCategory(c))) = cutoff[c].count
        /\ Weigh(parts, Zeroed(Attos, OfCategory(c))) = cutoff[c].atto
    <3>1. t.count \in Nat /\ t.atto \in Nat /\ cutoff[c].count \in Nat /\ cutoff[c].atto \in Nat
      BY <2>1, <2>2 DEF Totals
    <3>. QED  BY <2>4, <3>1
  <2>6. TotalOf(parts, c) = Count(cutoff[c].count, cutoff[c].atto)
    BY <1>5, <2>5, TotalOfIs
  <2>. QED  BY <2>1, <2>6 DEF Count, Totals
<1>8. Plus(Total(Chosen(parts, {i \in DOMAIN parts : parts[i].credited})), Unexplained(credits)) = credits
  <2>1. ASSUME NEW f \in [PartType -> Int]
        PROVE  /\ Weigh(credited, Zeroed(f, IsCredited)) = Weigh(credited, f)
               /\ Weigh(s, Zeroed(f, IsCredited)) = 0 /\ Weigh(credited, f) \in Int
    <3>1. ASSUME NEW i \in 1 .. 5
          PROVE  Zeroed(f, IsCredited)[credited[i]] = f[credited[i]]
      <4>1. credited[i] \in PartType /\ credited[i] = Part(Creditable[i], TRUE, Fund(credits, i))
        BY <1>6, CreditedIs
      <4>2. credited[i].credited
        BY <4>1 DEF Part
      <4>. QED  BY <4>1, <4>2 DEF Zeroed, IsCredited
    <3>2. ASSUME NEW i \in 1 .. 8
          PROVE  Zeroed(f, IsCredited)[s[i]] = 0
      <4>1. s[i] \in PartType /\ ~s[i].credited
        BY <1>1, <1>6, OutsideIs
      <4>. QED  BY <4>1 DEF Zeroed, IsCredited
    <3>3. Weigh(credited, Zeroed(f, IsCredited)) = Weigh(credited, f)
      <4>1. DOMAIN credited = 1 .. 5
        BY <1>6
      <4>2. [i \in DOMAIN credited |-> Zeroed(f, IsCredited)[credited[i]]]
                = [i \in DOMAIN credited |-> f[credited[i]]]
        BY <3>1, <4>1
      <4>. QED  BY <4>2 DEF Weigh
    <3>4. Weigh(s, Zeroed(f, IsCredited)) = 0
      <4>. DEFINE w == [i \in 1 .. 8 |-> Zeroed(f, IsCredited)[s[i]]]
      <4>1. DOMAIN s = 1 .. 8
        BY <1>6
      <4>2. Weigh(s, Zeroed(f, IsCredited)) = SumOf(w)
        BY <4>1 DEF Weigh
      <4>3. 8 \in Nat /\ w \in [1 .. 8 -> Int] /\ \A i \in 1 .. 8 : w[i] = 0
        BY <3>2
      <4>. HIDE DEF w
      <4>. QED  BY <4>2, <4>3, SumNothing
    <3>5. Weigh(credited, f) \in Int
      BY <1>6, WeighGrow
    <3>. QED  BY <3>3, <3>4, <3>5
  <2>2. /\ Weigh(parts, Zeroed(Counts, IsCredited)) = Weigh(credited, Counts)
        /\ Weigh(parts, Zeroed(Attos, IsCredited)) = Weigh(credited, Attos)
    <3>1. \A n \in Int : n + 0 = n
      OBVIOUS
    <3>2. ASSUME NEW f \in [PartType -> Int], \A p \in PartType : p.count = 0 /\ p.atto = 0 => f[p] = 0
          PROVE  Weigh(parts, Zeroed(f, IsCredited)) = Weigh(credited, f)
      <4>1. Weigh(parts, Zeroed(f, IsCredited))
                = Weigh(credited, Zeroed(f, IsCredited)) + Weigh(s, Zeroed(f, IsCredited))
        BY <1>3, <3>2
      <4>. QED  BY <2>1, <3>1, <4>1
    <3>. QED  BY <1>2, <1>4, <3>2
  <2>3. Total(Chosen(parts, {i \in DOMAIN parts : parts[i].credited}))
            = Count(Weigh(credited, Counts), Weigh(credited, Attos))
    BY <1>5, <2>2, CreditedOfIs
  <2>4. /\ Weigh(credited, Counts) + Unexplained(credits).count = credits.count
        /\ Weigh(credited, Attos) + Unexplained(credits).atto = credits.atto
    BY CreditedSum
  <2>5. Plus(Count(Weigh(credited, Counts), Weigh(credited, Attos)), Unexplained(credits))
            = Count(credits.count, credits.atto)
    BY <2>4 DEF Plus, Count
  <2>. QED  BY <2>3, <2>5 DEF Count, Totals
<1>. QED  BY <1>5, <1>7, <1>8 DEF PartsAddUp

-----------------------------------------------------------------------------
(* The groups of the parts, and their subtotals (Grouped, Subtotals).       *)

GroupNames == {"airdropped", "funding", "not_airdropped", "separate"}
GroupType == [group : GroupNames, parts : Seq(PartType), count : Nat, atto : Nat]
InGroup(g) == {p \in PartType : GroupOf(p) = g}
HasParts == {g \in GroupType : g.parts # <<>>}

GroupIn(parts, g) ==
    LET of == Those(parts, InGroup(g))
    IN  [group |-> g, parts |-> of, count |-> Total(of).count, atto |-> Total(of).atto]

\* The four groups and their order.
LEMMA GroupOrderIs ==
    /\ DOMAIN GroupOrder = 1 .. 4 /\ \A i \in 1 .. 4 : GroupOrder[i] \in GroupNames
    /\ \A g \in GroupNames : \E i \in 1 .. 4 : GroupOrder[i] = g
    /\ GroupOrder[1] = "airdropped" /\ GroupOrder[2] = "funding"
    /\ GroupOrder[3] = "not_airdropped" /\ GroupOrder[4] = "separate"
<1>1. DOMAIN GroupOrder = 1 .. 4
  BY DEF GroupOrder
<1>2. \A i \in 1 .. 4 : i = 1 \/ i = 2 \/ i = 3 \/ i = 4
  OBVIOUS
<1>3. /\ GroupOrder[1] = "airdropped" /\ GroupOrder[2] = "funding"
      /\ GroupOrder[3] = "not_airdropped" /\ GroupOrder[4] = "separate"
  BY DEF GroupOrder
<1>4. \A i \in 1 .. 4 : GroupOrder[i] \in GroupNames
  BY <1>2, <1>3 DEF GroupNames
<1>5. \A g \in GroupNames : \E i \in 1 .. 4 : GroupOrder[i] = g
  BY <1>3 DEF GroupNames
<1>. QED  BY <1>1, <1>3, <1>4, <1>5

\* A group is of the parts it names, and its amount is theirs.
LEMMA GroupInIs ==
    ASSUME NEW parts \in Seq(PartType), NEW g \in GroupNames
    PROVE  /\ GroupIn(parts, g) \in GroupType
           /\ GroupIn(parts, g).group = g /\ GroupIn(parts, g).parts = Those(parts, InGroup(g))
           /\ GroupIn(parts, g).atto = Weigh(parts, Zeroed(Attos, InGroup(g)))
<1>. PICK of : of = Those(parts, InGroup(g))
  OBVIOUS
<1>1. of \in Seq(PartType)
      /\ Total(of) = Count(Weigh(parts, Zeroed(Counts, InGroup(g))), Weigh(parts, Zeroed(Attos, InGroup(g))))
  BY TotalOfThose
<1>2. Total(of).count \in Nat /\ Total(of).atto \in Nat
  BY <1>1, TotalIs DEF Count
<1>3. GroupIn(parts, g) = [group |-> g, parts |-> of, count |-> Total(of).count, atto |-> Total(of).atto]
  BY DEF GroupIn
<1>. QED  BY <1>1, <1>2, <1>3 DEF GroupType, Count

\* The groups are the four, without those that have no part.
LEMMA GroupsAre ==
    ASSUME NEW parts \in Seq(PartType), NEW s, s = [i \in 1 .. 4 |-> GroupIn(parts, GroupOrder[i])]
    PROVE  s \in [1 .. 4 -> GroupType] /\ s \in Seq(GroupType) /\ Grouped(parts) = Those(s, HasParts)
<1>1. s \in [1 .. 4 -> GroupType]
  BY GroupInIs, GroupOrderIs
<1>2. s \in Seq(GroupType)
  <2>1. \A m \in Nat : \A h \in [1 .. m -> GroupType] : h \in Seq(GroupType)
    BY SeqDef
  <2>2. 4 \in Nat
    OBVIOUS
  <2>. QED  BY <1>1, <2>1, <2>2
<1>3. \A g : Chosen(parts, {i \in DOMAIN parts : GroupOf(parts[i]) = g}) = Those(parts, InGroup(g))
  <2>1. \A g : {i \in DOMAIN parts : GroupOf(parts[i]) = g} = {i \in DOMAIN parts : parts[i] \in InGroup(g)}
    <3>1. \A i \in DOMAIN parts : parts[i] \in PartType
      OBVIOUS
    <3>. QED  BY <3>1 DEF InGroup
  <2>. QED  BY <2>1 DEF Those
<1>4. Grouped(parts) = Chosen(s, {i \in DOMAIN s : s[i].parts # <<>>})
  <2>. DEFINE Group(g, of) == [group |-> g, parts |-> of, count |-> Total(of).count, atto |-> Total(of).atto]
              t == Mapped(LAMBDA g : Group(g, Chosen(parts, {i \in DOMAIN parts : GroupOf(parts[i]) = g})),
                          GroupOrder)
  <2>1. Grouped(parts) = Chosen(t, {i \in DOMAIN t : t[i].parts # <<>>})
    BY DEF Grouped
  <2>2. t = s
    BY <1>3, GroupOrderIs DEF Mapped, GroupIn
  <2>. QED  BY <2>1, <2>2
<1>5. {i \in DOMAIN s : s[i].parts # <<>>} = {i \in DOMAIN s : s[i] \in HasParts}
  BY <1>1 DEF HasParts
<1>. QED  BY <1>1, <1>2, <1>4, <1>5 DEF Those

\* Two roundings come to no more than one unit over that of the sum.
LEMMA Quotient ==
    ASSUME NEW x \in Nat, NEW u \in Nat \ {0}
    PROVE  x \div u \in Nat /\ (x \div u) * u <= x /\ x < (x \div u + 1) * u
<1>. QED  OBVIOUS

\* So the two that keep their rounding come to no more than one unit over.
LEMMA RoundTwo ==
    ASSUME NEW a \in Nat, NEW b \in Nat, NEW t \in Nat, a + b <= t, NEW unit \in Nat \ {0}
    PROVE  RoundAtto(a, unit) + RoundAtto(b, unit) <= RoundAtto(t, unit) + 1
<1>. PICK h : h = unit \div 2
  OBVIOUS
<1>1. h \in Nat /\ 2 * h <= unit
  OBVIOUS
<1>2. \A x \in Nat : RoundAtto(x, unit) = (x + h) \div unit
  BY DEF RoundAtto, Abs
<1>. PICK p, q, r : p = (a + h) \div unit /\ q = (b + h) \div unit /\ r = (t + h) \div unit
  OBVIOUS
<1>3. a + h \in Nat /\ b + h \in Nat /\ t + h \in Nat
  BY <1>1
<1>4. /\ p \in Nat /\ p * unit <= a + h
      /\ q \in Nat /\ q * unit <= b + h
      /\ r \in Nat /\ t + h < (r + 1) * unit
  BY <1>3, Quotient
<1>5. (p + q) * unit < (r + 2) * unit
  <2>1. (p + q) * unit = p * unit + q * unit /\ (r + 2) * unit = (r + 1) * unit + unit
    BY <1>4
  <2>2. p * unit \in Int /\ q * unit \in Int /\ (r + 1) * unit \in Int
    BY <1>4
  <2>3. p * unit + q * unit <= t + unit
    BY <1>1, <1>4, <2>2
  <2>. QED  BY <1>1, <1>4, <2>1, <2>2, <2>3
<1>6. \A m, n \in Int : m * unit < n * unit => m < n
  OBVIOUS
<1>7. p + q < r + 2
  BY <1>4, <1>5, <1>6
<1>. QED  BY <1>2, <1>4, <1>7

\* A sum of four.
LEMMA SumOfFour ==
    ASSUME NEW s \in [1 .. 4 -> Int]
    PROVE  SumOf(s) = s[1] + s[2] + s[3] + s[4]
<1>1. s \in Seq(Int) /\ Len(s) = 4
  <2>1. 4 \in Nat
    OBVIOUS
  <2>. QED  BY <2>1, SumAsWeigh
<1>2. PICK p : SumsTo(s, p)
  BY <1>1, SumsExist
<1>3. /\ p \in [0 .. 4 -> Int] /\ p[0] = 0 /\ \A n \in 1 .. 4 : p[n] = p[n - 1] + s[n]
      /\ SumOf(s) = p[4]
  BY <1>1, <1>2, SumOfIs DEF SumsTo
<1>4. s[1] \in Int /\ s[2] \in Int /\ s[3] \in Int /\ s[4] \in Int
  OBVIOUS
<1>5. 1 - 1 = 0 /\ 2 - 1 = 1 /\ 3 - 1 = 2 /\ 4 - 1 = 3
  OBVIOUS
<1>6. p[1] = p[0] + s[1] /\ p[2] = p[1] + s[2] /\ p[3] = p[2] + s[3] /\ p[4] = p[3] + s[4]
  BY <1>3, <1>5
<1>. QED  BY <1>3, <1>4, <1>6

Owns(unit) == [g \in GroupType |-> Own(g, unit)]

LEMMA FourAtMost ==
    ASSUME NEW s \in [1 .. 4 -> Nat], NEW m \in Nat, NEW n \in Nat,
           s[1] <= m, s[2] <= n, s[3] <= 0, s[4] <= 0
    PROVE  SumOf(s) <= m + n
<1>1. s \in [1 .. 4 -> Int] /\ s[1] \in Nat /\ s[2] \in Nat /\ s[3] \in Nat /\ s[4] \in Nat
  OBVIOUS
<1>2. SumOf(s) = s[1] + s[2] + s[3] + s[4]
  BY <1>1, SumOfFour
<1>. QED  BY <1>1, <1>2

\* What a group keeps of its own: its rounding, or nothing.
LEMMA OwnIs ==
    ASSUME NEW unit \in Nat \ {0}
    PROVE  /\ Owns(unit) \in [GroupType -> Nat]
           /\ \A g \in GroupType : Owns(unit)[g] = IF Fixed(g) THEN RoundAtto(g.atto, unit) ELSE 0
<1>1. \A g \in GroupType : g.atto \in Nat
  BY DEF GroupType
<1>. QED  BY <1>1, RoundIsNat DEF Owns, Own

\* WeighAdds, of parts.
LEMMA PartsAdd ==
    ASSUME NEW t \in Seq(PartType), NEW e1 \in [PartType -> Int], NEW e2 \in [PartType -> Int]
    PROVE  Weigh(t, [p \in PartType |-> e1[p] + e2[p]]) = Weigh(t, e1) + Weigh(t, e2)
<1>1. ASSUME NEW e3 \in [PartType -> Int], \A p \in PartType : e3[p] = e1[p] + e2[p]
      PROVE  Weigh(t, e3) = Weigh(t, e1) + Weigh(t, e2)
  BY <1>1, WeighAdds
<1>2. ASSUME NEW e3, e3 = [p \in PartType |-> e1[p] + e2[p]]
      PROVE  Weigh(t, e3) = Weigh(t, e1) + Weigh(t, e2)
  <2>1. e3 \in [PartType -> Int] /\ \A p \in PartType : e3[p] = e1[p] + e2[p]
    BY <1>2
  <2>. QED  BY <1>1, <2>1
<1>. QED  BY <1>2

\* What the two that keep their rounding come to, and that there are groups where
\* there is anything.
LEMMA OwnsAreBounded ==
    ASSUME NEW parts \in Seq(PartType), NEW unit \in Nat \ {0}
    PROVE  /\ Weigh(Grouped(parts), Owns(unit)) <= RoundAtto(Total(parts).atto, unit) + 1
           /\ Grouped(parts) = <<>> => Total(parts).atto = 0
           /\ Grouped(parts) \in Seq(GroupType)
           /\ \A i \in DOMAIN Grouped(parts) : Grouped(parts)[i].parts # <<>>
           /\ Total(parts).atto \in Nat
<1>1. PICK s : s = [i \in 1 .. 4 |-> GroupIn(parts, GroupOrder[i])]
  OBVIOUS
<1>2. s \in [1 .. 4 -> GroupType] /\ s \in Seq(GroupType) /\ Grouped(parts) = Those(s, HasParts)
  BY <1>1, GroupsAre
<1>3. \A i \in 1 .. 4 : /\ s[i].group = GroupOrder[i] /\ s[i].parts = Those(parts, InGroup(GroupOrder[i]))
                        /\ s[i].atto = Weigh(parts, Zeroed(Attos, InGroup(GroupOrder[i])))
  BY <1>1, GroupInIs, GroupOrderIs
<1>4. Total(parts).atto = Weigh(parts, Attos) /\ Weigh(parts, Attos) \in Nat
  BY TotalIs DEF Count
<1>5. s[1].atto \in Nat /\ s[2].atto \in Nat /\ s[1].atto + s[2].atto <= Weigh(parts, Attos)
  <2>1. PICK f, g, h : /\ f = Zeroed(Attos, InGroup("airdropped")) /\ g = Zeroed(Attos, InGroup("funding"))
                       /\ h = [p \in PartType |-> f[p] + g[p]]
    OBVIOUS
  <2>2. Attos \in [PartType -> Nat]
    BY DEF Attos, PartType
  <2>3. f \in [PartType -> Int] /\ g \in [PartType -> Int]
    BY <2>1, <2>2 DEF Zeroed
  <2>4. h \in [PartType -> Int] /\ \A p \in PartType : h[p] = f[p] + g[p]
    BY <2>1, <2>3
  <2>5. \A p \in PartType : h[p] <= Attos[p]
    <3>1. \A p \in PartType : ~(p \in InGroup("airdropped") /\ p \in InGroup("funding"))
      BY DEF InGroup
    <3>2. \A p \in PartType : f[p] = (IF p \in InGroup("airdropped") THEN Attos[p] ELSE 0)
                              /\ g[p] = (IF p \in InGroup("funding") THEN Attos[p] ELSE 0)
      BY <2>1 DEF Zeroed
    <3>3. \A p \in PartType : Attos[p] \in Nat
      BY <2>2
    <3>. QED  BY <2>4, <3>1, <3>2, <3>3
  <2>6. Weigh(parts, h) = Weigh(parts, f) + Weigh(parts, g)
    BY <2>1, <2>3, PartsAdd
  <2>7. Weigh(parts, h) <= Weigh(parts, Attos)
    <3>1. Attos \in [PartType -> Int]
      BY <2>2
    <3>. QED  BY <2>4, <2>5, <3>1, WeighBelow
  <2>8. 1 \in 1 .. 4 /\ 2 \in 1 .. 4
    OBVIOUS
  <2>9. s[1].atto = Weigh(parts, f) /\ s[2].atto = Weigh(parts, g)
    BY <1>3, <2>1, <2>8, GroupOrderIs
  <2>10. s[1].atto \in Nat /\ s[2].atto \in Nat
    <3>1. s[1] \in GroupType /\ s[2] \in GroupType
      BY <1>2, <2>8
    <3>. QED  BY <3>1 DEF GroupType
  <2>. QED  BY <2>6, <2>7, <2>9, <2>10
<1>6. Weigh(Grouped(parts), Owns(unit)) <= RoundAtto(Weigh(parts, Attos), unit) + 1
  <2>1. PICK own : own = Owns(unit)
    OBVIOUS
  <2>2. /\ own \in [GroupType -> Int]
        /\ \A g \in GroupType : own[g] \in Nat /\ own[g] = IF Fixed(g) THEN RoundAtto(g.atto, unit) ELSE 0
    BY <2>1, OwnIs
  <2>. DEFINE w == [g \in GroupType |-> IF g \in HasParts THEN own[g] ELSE 0]
              x == [i \in 1 .. 4 |-> w[s[i]]]
  <2>3. Weigh(Grouped(parts), own) = Weigh(s, w)
    <3>1. Weigh(Those(s, HasParts), own) = Weigh(s, w)
      BY <1>2, <2>2, WeighThose, SMTT(30)
    <3>. QED  BY <1>2, <3>1
  <2>4. /\ w \in [GroupType -> Int]
        /\ \A g \in GroupType : w[g] <= own[g] /\ w[g] \in Nat
    BY <2>2
  <2>. HIDE DEF w
  <2>5. DOMAIN s = 1 .. 4 /\ \A i \in 1 .. 4 : s[i] \in GroupType
    BY <1>2
  <2>6. x \in [1 .. 4 -> Int] /\ Weigh(s, w) = SumOf(x)
    BY <2>4, <2>5 DEF Weigh
  <2>7. \A i \in 1 .. 4 : x[i] <= own[s[i]] /\ x[i] \in Nat
    BY <2>4, <2>5
  <2>. HIDE DEF x
  <2>8. 1 \in 1 .. 4 /\ 2 \in 1 .. 4 /\ 3 \in 1 .. 4 /\ 4 \in 1 .. 4
    OBVIOUS
  <2>9. own[s[3]] = 0 /\ own[s[4]] = 0
    BY <1>3, <2>2, <2>5, <2>8, GroupOrderIs DEF Fixed
  <2>10. own[s[1]] = RoundAtto(s[1].atto, unit) /\ own[s[2]] = RoundAtto(s[2].atto, unit)
    BY <1>3, <2>2, <2>5, <2>8, GroupOrderIs DEF Fixed
  <2>11. SumOf(x) = x[1] + x[2] + x[3] + x[4]
    BY <2>6, SumOfFour
  <2>12. own[s[1]] + own[s[2]] <= RoundAtto(Weigh(parts, Attos), unit) + 1
    BY <1>4, <1>5, <2>10, RoundTwo
  <2>13. RoundAtto(Weigh(parts, Attos), unit) \in Nat /\ own[s[1]] \in Nat /\ own[s[2]] \in Nat
    BY <1>4, <2>2, <2>5, <2>8, RoundIsNat
  <2>14. SumOf(x) <= own[s[1]] + own[s[2]]
    <3>1. x[1] <= own[s[1]] /\ x[2] <= own[s[2]] /\ x[3] <= 0 /\ x[4] <= 0
      BY <2>7, <2>8, <2>9
    <3>2. x[1] \in Nat /\ x[2] \in Nat /\ x[3] \in Nat /\ x[4] \in Nat
      BY <2>7, <2>8
    <3>3. x \in [1 .. 4 -> Nat]
      BY <2>6, <2>7
    <3>. QED  BY <2>13, <3>1, <3>3, FourAtMost
  <2>15. SumOf(x) \in Int
    <3>1. x[1] \in Nat /\ x[2] \in Nat /\ x[3] \in Nat /\ x[4] \in Nat
      BY <2>7, <2>8
    <3>. QED  BY <2>11, <3>1
  <2>16. \A k, l, m, n \in Int : n <= k + l /\ k + l <= m + 1 => n <= m + 1
    OBVIOUS
  <2>17. SumOf(x) <= RoundAtto(Weigh(parts, Attos), unit) + 1
    <3>. QED  BY <2>12, <2>13, <2>14, <2>15, <2>16
  <2>. QED  BY <2>1, <2>3, <2>6, <2>17
<1>7. Grouped(parts) = <<>> => Weigh(parts, Attos) = 0
  <2>1. ASSUME Grouped(parts) = <<>> PROVE Weigh(parts, Attos) = 0
    <3>1. \A i \in 1 .. 4 : s[i] \notin HasParts
      <4>1. Those(s, HasParts) = <<>> /\ DOMAIN s = 1 .. 4
        BY <1>2, <2>1
      <4>. QED  BY <1>2, <4>1, ThoseAre
    <3>2. \A i \in 1 .. 4 : Those(parts, InGroup(GroupOrder[i])) = <<>>
      BY <1>2, <1>3, <3>1 DEF HasParts
    <3>3. \A g \in GroupNames : \A j \in DOMAIN parts : parts[j] \notin InGroup(g)
      <4>1. \A g \in GroupNames : Those(parts, InGroup(g)) = <<>>
        BY <3>2, GroupOrderIs
      <4>. QED  BY <4>1, ThoseAre
    <3>4. ASSUME NEW j \in DOMAIN parts PROVE FALSE
      <4>1. parts[j] \in PartType
        OBVIOUS
      <4>2. GroupOf(parts[j]) \in GroupNames
        BY DEF GroupOf, GroupNames
      <4>. QED  BY <3>3, <4>1, <4>2 DEF InGroup
    <3>5. parts = <<>>
      BY <3>4
    <3>6. Attos \in [PartType -> Int]
      BY DEF Attos, PartType
    <3>. QED  BY <3>5, <3>6, WeighGrow
  <2>. QED  BY <2>1
<1>8. Grouped(parts) \in Seq(GroupType) /\ \A i \in DOMAIN Grouped(parts) : Grouped(parts)[i].parts # <<>>
  <2>1. Those(s, HasParts) \in Seq(GroupType)
        /\ \A i \in DOMAIN Those(s, HasParts) : Those(s, HasParts)[i] \in HasParts
    BY <1>2, ThoseAre
  <2>. QED  BY <1>2, <2>1 DEF HasParts
<1>. QED  BY <1>4, <1>6, <1>7, <1>8

-----------------------------------------------------------------------------
(* The rounded subtotals (RoundAll, Subtotals, RoundedGroups).              *)

PlaceOf(s, W, i) == Cardinality({j \in 1 .. i : s[j] \in W})

\* The place of an element among the chosen is how many come up to it.
LEMMA PlacesGrow ==
    ASSUME NEW s, NEW W
    PROVE  /\ PlaceOf(s, W, 0) = 0
           /\ \A i \in Nat : PlaceOf(s, W, i) \in Nat
           /\ \A i, k \in Nat : i <= k => PlaceOf(s, W, i) <= PlaceOf(s, W, k)
<1>. DEFINE P(i) == {j \in 1 .. i : s[j] \in W}
<1>1. ASSUME NEW i \in Nat PROVE IsFiniteSet(P(i)) /\ Cardinality(P(i)) \in Nat
  <2>1. IsFiniteSet(1 .. i)
    <3>1. 1 \in Int /\ i \in Int
      OBVIOUS
    <3>. QED  BY <3>1, FS_Interval
  <2>2. P(i) \in SUBSET (1 .. i)
    OBVIOUS
  <2>. QED  BY <2>1, <2>2, FS_Subset, FS_CardinalityType
<1>2. Cardinality(P(0)) = 0
  <2>1. P(0) = {}
    OBVIOUS
  <2>. QED  BY <2>1, FS_EmptySet
<1>4. ASSUME NEW i \in Nat, NEW k \in Nat, i <= k
      PROVE  Cardinality(P(i)) <= Cardinality(P(k))
  <2>1. P(i) \in SUBSET P(k)
    BY <1>4
  <2>. HIDE DEF P
  <2>. QED  BY <1>1, <2>1, FS_Subset
<1>. QED  BY <1>1, <1>2, <1>4 DEF PlaceOf

\* An element that is chosen has the next place.
LEMMA NextPlace ==
    ASSUME NEW s, NEW W, NEW i \in Nat, NEW k, k = i + 1
    PROVE  PlaceOf(s, W, k) = PlaceOf(s, W, i) + (IF s[k] \in W THEN 1 ELSE 0)
<1>1. PICK was, now : was = {j \in 1 .. i : s[j] \in W} /\ now = {j \in 1 .. k : s[j] \in W}
  OBVIOUS
<1>2. IsFiniteSet(was) /\ Cardinality(was) \in Nat
  <2>1. IsFiniteSet(1 .. i)
    <3>1. 1 \in Int /\ i \in Int
      OBVIOUS
    <3>. QED  BY <3>1, FS_Interval
  <2>2. was \in SUBSET (1 .. i)
    BY <1>1
  <2>. QED  BY <2>1, <2>2, FS_Subset, FS_CardinalityType
<1>3. PlaceOf(s, W, k) = Cardinality(now) /\ PlaceOf(s, W, i) = Cardinality(was)
  BY <1>1 DEF PlaceOf
<1>4. CASE s[k] \in W
  <2>1. now = was \cup {k} /\ k \notin was
    BY <1>1, <1>4
  <2>2. Cardinality(was \cup {k}) = Cardinality(was) + 1
    BY <1>2, <2>1, FS_AddElement
  <2>. QED  BY <1>3, <1>4, <2>1, <2>2
<1>5. CASE s[k] \notin W
  <2>1. now = was
    BY <1>1, <1>5
  <2>. QED  BY <1>2, <1>3, <1>5, <2>1
<1>. QED  BY <1>4, <1>5

\* The last place is how many are chosen.
LEMMA PlacesOfAll ==
    ASSUME NEW V, NEW W, NEW s \in Seq(V)
    PROVE  /\ Len(Those(s, W)) \in Nat /\ Those(s, W) \in Seq(V)
           /\ PlaceOf(s, W, Len(s)) = Len(Those(s, W))
<1>. DEFINE T == {t \in Seq(V) : PlaceOf(t, W, Len(t)) = Len(Those(t, W))}
<1>1. <<>> \in T
  <2>1. <<>> \in Seq(V) /\ Len(<<>>) = 0
    BY EmptySeq
  <2>2. PlaceOf(<<>>, W, 0) = 0
    BY PlacesGrow
  <2>. QED  BY <2>1, <2>2, ThoseGrow
<1>2. ASSUME NEW t \in T, NEW v \in V PROVE Append(t, v) \in T
  <2>0. t \in Seq(V) /\ PlaceOf(t, W, Len(t)) = Len(Those(t, W))
    OBVIOUS
  <2>. HIDE DEF T
  <2>1. /\ t \in Seq(V) /\ PlaceOf(t, W, Len(t)) = Len(Those(t, W))
        /\ Those(t, W) \in Seq(V)
        /\ Those(Append(t, v), W) = IF v \in W THEN Append(Those(t, W), v) ELSE Those(t, W)
    <3>1. /\ Those(t, W) \in Seq(V)
          /\ Those(Append(t, v), W) = IF v \in W THEN Append(Those(t, W), v) ELSE Those(t, W)
      BY <2>0, ThoseGrow
    <3>. QED  BY <2>0, <3>1
  <2>9. PICK a, n, c : a = Append(t, v) /\ n = Len(t) /\ c = Those(t, W)
    OBVIOUS
  <2>2. a \in Seq(V) /\ n \in Nat /\ Len(a) = n + 1 /\ a[n + 1] = v /\ \A i \in 1 .. n : a[i] = t[i]
    BY <2>1, <2>9, LongerByOne
  <2>3. c \in Seq(V) /\ Len(c) \in Nat /\ Len(Append(c, v)) = Len(c) + 1
    BY <2>1, <2>9, LongerByOne
  <2>4. PlaceOf(a, W, n) = PlaceOf(t, W, n)
    <3>1. {j \in 1 .. n : a[j] \in W} = {j \in 1 .. n : t[j] \in W}
      BY <2>2
    <3>. QED  BY <3>1 DEF PlaceOf
  <2>5. PlaceOf(a, W, n + 1) = PlaceOf(a, W, n) + (IF v \in W THEN 1 ELSE 0)
    <3>1. ASSUME NEW m, m = n + 1
          PROVE  PlaceOf(a, W, m) = PlaceOf(a, W, n) + (IF a[m] \in W THEN 1 ELSE 0)
      BY <2>2, <3>1, NextPlace
    <3>. QED  BY <2>2, <3>1
  <2>6. PlaceOf(a, W, n + 1) = Len(Those(a, W))
    BY <2>1, <2>3, <2>4, <2>5, <2>9
  <2>. QED  BY <2>2, <2>6, <2>9 DEF T
<1>3. T \in SUBSET Seq(V)
  OBVIOUS
<1>. HIDE DEF T
<1>4. \A t \in Seq(V) : t \in T
  BY <1>1, <1>2, <1>3, SeqInduction
<1>5. Those(s, W) \in Seq(V)
  BY ThoseAre
<1>. QED  BY <1>4, <1>5 DEF T

\* Amounts put in their places, and nothing elsewhere, come to the same.
LEMMA SpreadSum ==
    ASSUME NEW V, NEW W, NEW s \in Seq(V), NEW rest \in [1 .. Len(Those(s, W)) -> Nat],
           NEW x, x = [i \in 1 .. Len(s) |-> IF s[i] \in W THEN rest[PlaceOf(s, W, i)] ELSE 0]
    PROVE  x \in [1 .. Len(s) -> Nat] /\ SumOf(x) = SumOf(rest)
<1>. PICK n, k : n = Len(s) /\ k = Len(Those(s, W))
  OBVIOUS
<1>. DEFINE pl(i) == PlaceOf(s, W, i)
<1>1. n \in Nat /\ k \in Nat /\ pl(n) = k /\ pl(0) = 0
  BY PlacesOfAll, PlacesGrow
<1>2. \A i \in 1 .. n : /\ pl(i) \in 0 .. k /\ pl(i - 1) \in 0 .. k
                        /\ pl(i) = pl(i - 1) + (IF s[i] \in W THEN 1 ELSE 0)
  <2>1. SUFFICES ASSUME NEW i \in 1 .. n
                 PROVE  /\ pl(i) \in 0 .. k /\ pl(i - 1) \in 0 .. k
                        /\ pl(i) = pl(i - 1) + (IF s[i] \in W THEN 1 ELSE 0)
    OBVIOUS
  <2>. PICK j : j = i - 1
    OBVIOUS
  <2>2. j \in Nat /\ i \in Nat /\ i = j + 1 /\ i <= n /\ j <= n
    BY <1>1
  <2>3. pl(j) \in Nat /\ pl(i) \in Nat /\ pl(i) <= pl(n) /\ pl(j) <= pl(n)
    BY <1>1, <2>2, PlacesGrow
  <2>4. pl(i) = pl(j) + (IF s[i] \in W THEN 1 ELSE 0)
    BY <2>2, NextPlace
  <2>. QED  BY <1>1, <2>3, <2>4
<1>. HIDE DEF pl
<1>3. x = [i \in 1 .. n |-> IF s[i] \in W THEN rest[pl(i)] ELSE 0] /\ rest \in [1 .. k -> Nat]
  BY DEF pl
<1>4. ASSUME NEW i \in 1 .. n PROVE x[i] \in Nat /\ (s[i] \in W => pl(i) \in 1 .. k)
  <2>1. s[i] \in W => pl(i) \in 1 .. k
    BY <1>1, <1>2
  <2>. QED  BY <1>3, <2>1
<1>5. x \in [1 .. n -> Nat]
  BY <1>3, <1>4
<1>6. x \in Seq(Int) /\ Len(x) = n /\ rest \in Seq(Int) /\ Len(rest) = k
  <2>1. x \in [1 .. n -> Int] /\ rest \in [1 .. k -> Int]
    BY <1>3, <1>5
  <2>. QED  BY <1>1, <2>1, SumAsWeigh
<1>7. PICK p : SumsTo(rest, p)
  BY <1>6, SumsExist
<1>8. /\ p \in [0 .. k -> Int] /\ p[0] = 0 /\ \A m \in 1 .. k : p[m] = p[m - 1] + rest[m]
      /\ SumOf(rest) = p[k]
  BY <1>6, <1>7, SumOfIs DEF SumsTo
<1>9. PICK q : q = [i \in 0 .. n |-> p[pl(i)]]
  OBVIOUS
<1>10. q \in [0 .. n -> Int] /\ q[0] = 0 /\ q[n] = p[k]
  <2>1. \A i \in 0 .. n : pl(i) \in 0 .. k
    BY <1>1, <1>2
  <2>. QED  BY <1>1, <1>8, <1>9, <2>1
<1>11. ASSUME NEW i \in 1 .. n PROVE q[i] = q[i - 1] + x[i]
  <2>1. i \in 0 .. n /\ i - 1 \in 0 .. n /\ pl(i - 1) \in 0 .. k
    BY <1>1, <1>2
  <2>2. q[i] = p[pl(i)] /\ q[i - 1] = p[pl(i - 1)] /\ p[pl(i - 1)] \in Int
    BY <1>8, <1>9, <2>1
  <2>3. CASE s[i] \in W
    <3>. PICK m : m = pl(i)
      OBVIOUS
    <3>1. m \in 1 .. k /\ pl(i - 1) = m - 1 /\ x[i] = rest[m]
      BY <1>2, <1>3, <1>4, <2>1, <2>3
    <3>. QED  BY <1>8, <2>2, <3>1
  <2>4. CASE s[i] \notin W
    <3>1. pl(i) = pl(i - 1) /\ x[i] = 0
      BY <1>2, <1>3, <2>1, <2>4
    <3>. QED  BY <2>2, <3>1
  <2>. QED  BY <2>3, <2>4
<1>12. SumsTo(x, q)
  BY <1>6, <1>10, <1>11 DEF SumsTo
<1>13. SumOf(x) = q[n]
  BY <1>6, <1>12, SumOfIs
<1>. QED  BY <1>5, <1>8, <1>10, <1>13

\* Totals rounded to a sum that they come to, or to nothing where it is negative.
LEMMA RoundAllIs ==
    ASSUME NEW V, \A v \in V : v.atto \in Nat, NEW ts \in Seq(V), NEW unit \in Nat \ {0}, NEW total \in Int,
           ts = <<>> => total = 0, NEW r, r = RoundAll(ts, unit, total)
    PROVE  /\ r \in [1 .. Len(ts) -> Nat]
           /\ total >= 0 => SumOf(r) = total
           /\ total < 0 => \A i \in 1 .. Len(ts) : r[i] = 0
<1>1. PICK n, terms : n = Len(ts) /\ terms = [i \in 1 .. n |-> Term(1, ts[i].atto)]
  OBVIOUS
<1>2. n \in Nat /\ DOMAIN ts = 1 .. n /\ \A i \in 1 .. n : ts[i].atto \in Nat
  BY <1>1
<1>3. terms \in [1 .. n -> TermType] /\ \A i \in 1 .. n : terms[i].sign = 1
  BY <1>1, <1>2 DEF TermType, Term
<1>4. r = RoundToTotal(terms, unit, total)
  BY <1>1, <1>2 DEF RoundAll, Mapped
<1>5. CASE n # 0
  <2>1. n \in Nat \ {0}
    BY <1>2, <1>5
  <2>2. LET q == RoundToTotal(terms, unit, total)
        IN  /\ q \in [1 .. n -> Nat]
            /\ total >= 0 => SumOf(q) = total
            /\ total < 0 => \A i \in 1 .. n : q[i] = 0
    BY <1>3, <2>1, RoundedUp, ZenonT(60)
  <2>. QED  BY <1>1, <1>4, <2>2
<1>6. CASE n = 0
  <2>1. total = 0
    <3>1. ts = <<>>
      BY <1>1, <1>2, <1>6
    <3>. QED  BY <3>1
  <2>2. PICK rounded : rounded = [i \in DOMAIN terms |-> RoundAtto(terms[i].atto, unit)]
    OBVIOUS
  <2>3. rounded \in [1 .. 0 -> Nat] /\ DOMAIN terms = 1 .. 0 /\ 0 \in Nat
    <3>1. DOMAIN terms = 1 .. 0
      BY <1>1, <1>6
    <3>2. \A i \in 1 .. 0 : FALSE
      OBVIOUS
    <3>. QED  BY <2>2, <3>1, <3>2
  <2>4. Signed(terms, rounded) = 0
    <3>1. PICK w : w = [i \in DOMAIN terms |-> terms[i].sign * rounded[i]]
      OBVIOUS
    <3>2. w \in [1 .. 0 -> Int] /\ \A i \in 1 .. 0 : w[i] = 0
      BY <2>3, <3>1
    <3>3. SumOf(w) = 0
      BY <2>3, <3>2, SumNothing
    <3>. QED  BY <3>1, <3>3 DEF Signed
  <2>5. r = Corrected(terms, unit, rounded, 0)
    <3>1. r = Corrected(terms, unit, rounded, total - Signed(terms, rounded))
      BY <1>4, <2>2 DEF RoundToTotal
    <3>. QED  BY <2>1, <2>4, <3>1
  <2>6. r = rounded
    <3>1. terms \in [1 .. 0 -> TermType] /\ unit \in Nat /\ 0 \in Int
      BY <1>3, <1>6
    <3>2. PICK c : Corrects(c, 0, terms, unit, rounded, 0)
      BY <2>3, <3>1, CorrectedSteps
    <3>3. Abs(0) = 0
      BY DEF Abs
    <3>. QED  BY <2>5, <3>2, <3>3 DEF Corrects
  <2>7. SumOf(r) = 0
    <3>1. rounded \in [1 .. 0 -> Int] /\ \A i \in 1 .. 0 : rounded[i] = 0
      BY <2>3
    <3>. QED  BY <2>3, <2>6, <3>1, SumNothing
  <2>8. Len(ts) = 0 /\ ~(total < 0)
    BY <1>1, <1>6, <2>1
  <2>9. r \in [1 .. Len(ts) -> Nat]
    BY <2>3, <2>6, <2>8
  <2>. QED  BY <2>1, <2>7, <2>8, <2>9
<1>. QED  BY <1>5, <1>6

Free == {g \in GroupType : ~Fixed(g)}

\* The subtotals come to the total, or, where those that keep their rounding come
\* to more and the rest to nothing, to one unit more.
LEMMA SubtotalsAre ==
    ASSUME NEW groups \in Seq(GroupType), NEW unit \in Nat \ {0}, NEW total \in Nat,
           Weigh(groups, Owns(unit)) <= total + 1, groups = <<>> => total = 0,
           NEW values, values = Subtotals(groups, unit, total)
    PROVE  /\ values \in [1 .. Len(groups) -> Nat]
           /\ \/ SumOf(values) = total
              \/ /\ SumOf(values) = total + 1
                 /\ \A i \in 1 .. Len(groups) : Fixed(groups[i]) \/ values[i] = 0
<1>1. PICK n, free, own : n = Len(groups) /\ free = Those(groups, Free) /\ own = Weigh(groups, Owns(unit))
  OBVIOUS
<1>2. n \in Nat /\ DOMAIN groups = 1 .. n /\ \A i \in 1 .. n : groups[i] \in GroupType
  BY <1>1
<1>3. \A g \in GroupType : g.atto \in Nat
  BY DEF GroupType
<1>4. \A i \in 1 .. n : groups[i] \in Free <=> ~Fixed(groups[i])
  BY <1>2 DEF Free
<1>5. free = Chosen(groups, {i \in DOMAIN groups : ~Fixed(groups[i])})
  <2>1. {i \in DOMAIN groups : ~Fixed(groups[i])} = {i \in DOMAIN groups : groups[i] \in Free}
    BY <1>2, <1>4
  <2>. QED  BY <1>1, <2>1 DEF Those
<1>6. own = SumOf(Mapped(LAMBDA g : Own(g, unit), groups))
  <2>1. [i \in DOMAIN groups |-> Owns(unit)[groups[i]]] = [i \in DOMAIN groups |-> Own(groups[i], unit)]
    BY <1>2 DEF Owns
  <2>. QED  BY <1>1, <2>1 DEF Weigh, Mapped
<1>7. PICK rest : rest = RoundAll(free, unit, total - own)
  OBVIOUS
<1>8. own \in Nat /\ own <= total + 1
  <2>1. Owns(unit) \in [GroupType -> Nat]
    BY OwnIs
  <2>. QED  BY <1>1, <2>1, WeighNat
<1>9. CASE free = <<>>
  <2>1. values = RoundAll(groups, unit, total)
    BY <1>5, <1>9 DEF Subtotals
  <2>2. total \in Int /\ total >= 0
    OBVIOUS
  <2>. QED  BY <1>3, <2>1, <2>2, RoundAllIs
<1>10. CASE free # <<>>
  <2>1. values = [i \in DOMAIN groups |-> IF Fixed(groups[i]) THEN Own(groups[i], unit)
                                          ELSE rest[Cardinality({j \in 1 .. i : ~Fixed(groups[j])})]]
    BY <1>5, <1>6, <1>7, <1>10 DEF Subtotals
  <2>2. \A i \in 1 .. n : Cardinality({j \in 1 .. i : ~Fixed(groups[j])}) = PlaceOf(groups, Free, i)
    <3>1. ASSUME NEW i \in 1 .. n
          PROVE  {j \in 1 .. i : ~Fixed(groups[j])} = {j \in 1 .. i : groups[j] \in Free}
      <4>1. 1 .. i \subseteq 1 .. n
        BY <1>2
      <4>. QED  BY <1>4, <4>1
    <3>. QED  BY <3>1 DEF PlaceOf
  <2>3. /\ free \in Seq(GroupType) /\ rest \in [1 .. Len(free) -> Nat]
        /\ total - own >= 0 => SumOf(rest) = total - own
        /\ total - own < 0 => \A i \in 1 .. Len(free) : rest[i] = 0
    <3>1. free \in Seq(GroupType)
      BY <1>1, ThoseAre
    <3>2. total - own \in Int
      BY <1>8
    <3>3. ASSUME NEW d \in Int, d = total - own
          PROVE  /\ rest \in [1 .. Len(free) -> Nat]
                 /\ d >= 0 => SumOf(rest) = d
                 /\ d < 0 => \A i \in 1 .. Len(free) : rest[i] = 0
      <4>1. rest = RoundAll(free, unit, d)
        BY <1>7, <3>3
      <4>. QED  BY <1>3, <1>10, <3>1, <4>1, RoundAllIs
    <3>. QED  BY <3>1, <3>2, <3>3
  <2>4. PICK x, y : /\ x = [i \in 1 .. n |-> IF groups[i] \in Free THEN rest[PlaceOf(groups, Free, i)] ELSE 0]
                    /\ y = [i \in 1 .. n |-> Owns(unit)[groups[i]]]
    OBVIOUS
  <2>5. x \in [1 .. n -> Nat] /\ SumOf(x) = SumOf(rest)
    BY <1>1, <2>3, <2>4, SpreadSum
  <2>6. y \in [1 .. n -> Nat] /\ SumOf(y) = own
    <3>1. y = [i \in DOMAIN groups |-> Owns(unit)[groups[i]]]
      BY <1>2, <2>4
    <3>2. Owns(unit) \in [GroupType -> Nat]
      BY OwnIs
    <3>. QED  BY <1>1, <1>2, <2>4, <3>1, <3>2 DEF Weigh
  <2>7. ASSUME NEW i \in 1 .. n
        PROVE  /\ values[i] = x[i] + y[i] /\ values[i] \in Nat
               /\ Fixed(groups[i]) \/ values[i] = x[i]
    <3>0. groups[i] \in GroupType /\ i \in DOMAIN groups
      BY <1>2
    <3>1. CASE Fixed(groups[i])
      <4>1. values[i] = Own(groups[i], unit) /\ x[i] = 0
        BY <1>4, <2>1, <2>4, <3>0, <3>1
      <4>2. y[i] = Own(groups[i], unit)
        BY <2>4, <3>0 DEF Owns
      <4>3. y[i] \in Nat
        BY <2>6
      <4>. QED  BY <3>1, <4>1, <4>2, <4>3
    <3>2. CASE ~Fixed(groups[i])
      <4>1. values[i] = x[i]
        BY <1>4, <2>1, <2>2, <2>4, <3>0, <3>2
      <4>2. y[i] = 0
        BY <2>4, <3>0, <3>2 DEF Owns, Own
      <4>3. x[i] \in Nat
        BY <2>5
      <4>. QED  BY <4>1, <4>2, <4>3
    <3>. QED  BY <3>1, <3>2
  <2>8. values \in [1 .. n -> Nat]
    BY <1>2, <2>1, <2>7
  <2>9. SumOf(values) = SumOf(x) + SumOf(y)
    <3>1. /\ x \in [1 .. n -> Int] /\ y \in [1 .. n -> Int] /\ values \in [1 .. n -> Int]
          /\ \A i \in 1 .. n : values[i] = x[i] + y[i]
      BY <2>5, <2>6, <2>7, <2>8
    <3>. QED  BY <1>2, <3>1, SumAdds, ZenonT(60)
  <2>10. CASE total - own >= 0
    <3>1. SumOf(values) = (total - own) + own
      BY <2>3, <2>5, <2>6, <2>9, <2>10
    <3>. QED  BY <1>1, <1>8, <2>8, <3>1
  <2>11. CASE total - own < 0
    <3>1. own = total + 1
      BY <1>8, <2>11
    <3>2. Len(free) \in Nat
      BY <2>3
    <3>3. SumOf(rest) = 0
      <4>1. rest \in [1 .. Len(free) -> Int] /\ \A i \in 1 .. Len(free) : rest[i] = 0
        BY <2>3, <2>11
      <4>. QED  BY <3>2, <4>1, SumNothing
    <3>4. \A i \in 1 .. n : x[i] = 0
      <4>1. SUFFICES ASSUME NEW i \in 1 .. n, ~(x[i] <= 0) PROVE FALSE
        BY <2>5
      <4>2. x[i] <= SumOf(x)
        BY <1>2, <2>5, SumHasEach
      <4>. QED  BY <2>5, <3>3, <4>1, <4>2
    <3>5. SumOf(values) = total + 1
      BY <2>5, <2>6, <2>9, <3>1, <3>3
    <3>6. \A i \in 1 .. n : Fixed(groups[i]) \/ values[i] = 0
      BY <2>7, <3>4
    <3>. QED  BY <1>1, <2>8, <3>5, <3>6
  <2>. QED  BY <1>8, <2>10, <2>11
<1>. QED  BY <1>9, <1>10

\* The rows of a group come to its subtotal, and the subtotals to the total.
LEMMA RoundedGroupsAddUp ==
    ASSUME NEW parts \in Seq(PartType), NEW unit \in Nat \ {0}, NEW table, table = RoundedGroups(parts, unit)
    PROVE  RowsAddUp(table.groups, table.total)
<1>1. PICK groups, total : groups = Grouped(parts) /\ total = RoundAtto(Total(parts).atto, unit)
  OBVIOUS
<1>2. PICK values : values = Subtotals(groups, unit, total)
  OBVIOUS
<1>3. /\ groups \in Seq(GroupType) /\ total \in Nat /\ Weigh(groups, Owns(unit)) <= total + 1
      /\ groups = <<>> => total = 0
      /\ \A i \in DOMAIN groups : groups[i].parts # <<>>
  <2>1. total \in Nat
    BY <1>1, OwnsAreBounded, RoundIsNat
  <2>2. groups = <<>> => total = 0
    <3>1. RoundAtto(0, unit) = 0
      <4>1. (unit \div 2) \div unit = 0
        OBVIOUS
      <4>2. unit \div 2 \in Int
        OBVIOUS
      <4>. QED  BY <4>1, <4>2 DEF RoundAtto, Abs
    <3>. QED  BY <1>1, <3>1, OwnsAreBounded
  <2>. QED  BY <1>1, <2>1, <2>2, OwnsAreBounded
<1>4. PICK n : n = Len(groups)
  OBVIOUS
<1>5. n \in Nat /\ DOMAIN groups = 1 .. n
  BY <1>3, <1>4
<1>6. /\ values \in [1 .. n -> Nat]
      /\ \/ SumOf(values) = total
         \/ SumOf(values) = total + 1 /\ \A i \in 1 .. n : Fixed(groups[i]) \/ values[i] = 0
  BY <1>2, <1>3, <1>4, SubtotalsAre
<1>7. PICK shownGroups : shownGroups = [i \in DOMAIN groups |->
                             [group |-> groups[i].group, count |-> groups[i].count, value |-> values[i],
                              rows |-> RoundAll(groups[i].parts, unit, values[i])]]
  OBVIOUS
<1>8. table.groups = shownGroups /\ table.total = total
  BY <1>1, <1>2, <1>7 DEF RoundedGroups, Rounded
<1>9. \A i \in 1 .. n : SumOf(shownGroups[i].rows) = shownGroups[i].value
  <2>1. ASSUME NEW i \in 1 .. n
        PROVE  SumOf(RoundAll(groups[i].parts, unit, values[i])) = values[i]
    <3>1. PICK ps, v, r : ps = groups[i].parts /\ v = values[i] /\ r = RoundAll(ps, unit, v)
      OBVIOUS
    <3>2. ps \in Seq(PartType) /\ ps # <<>> /\ v \in Int /\ v >= 0
      <4>1. groups[i] \in GroupType
        BY <1>3, <1>5
      <4>2. groups[i].parts \in Seq(PartType) /\ groups[i].parts # <<>>
        BY <1>3, <1>5, <4>1 DEF GroupType
      <4>3. values[i] \in Nat
        BY <1>6
      <4>. QED  BY <3>1, <4>2, <4>3
    <3>3. \A p \in PartType : p.atto \in Nat
      BY DEF PartType
    <3>4. SumOf(r) = v
      BY <3>1, <3>2, <3>3, RoundAllIs
    <3>. QED  BY <3>1, <3>4
  <2>. QED  BY <1>5, <1>7, <2>1
<1>10. Mapped(LAMBDA g : g.value, shownGroups) = values
  BY <1>5, <1>6, <1>7 DEF Mapped
<1>11. \A i \in 1 .. n : (Fixed(shownGroups[i]) <=> Fixed(groups[i])) /\ shownGroups[i].value = values[i]
  BY <1>5, <1>7 DEF Fixed
<1>12. DOMAIN shownGroups = 1 .. n
  BY <1>5, <1>7
<1>. QED  BY <1>6, <1>8, <1>9, <1>10, <1>11, <1>12 DEF RowsAddUp

-----------------------------------------------------------------------------
(* The two tables of what is shown (CutoffTable, HoldingsTable).            *)

\* A rounded amount is a whole number, of any sign.
LEMMA RoundIsInt ==
    ASSUME NEW unit \in Nat \ {0}
    PROVE  \A a \in Int : RoundAtto(a, unit) \in Int
<1>1. ASSUME NEW a \in Int PROVE RoundAtto(a, unit) \in Int
  <2>1. Abs(a) + unit \div 2 \in Nat
    BY DEF Abs
  <2>2. \A x \in Nat : x \div unit \in Nat
    OBVIOUS
  <2>3. (Abs(a) + unit \div 2) \div unit \in Nat
    BY <2>1, <2>2
  <2>4. \A q \in Nat : q \in Int /\ -q \in Int
    OBVIOUS
  <2>. QED  BY <2>3, <2>4 DEF RoundAtto
<1>. QED  BY <1>1

\* Airdropped, deposited and withdrawn round to what is left of them.
LEMMA HoldingsAre ==
    ASSUME NEW c \in Nat, NEW d \in Nat, NEW w \in Nat, NEW unit \in Nat \ {0}
    PROVE  HoldingsAddUp(RoundedHoldings(c, d, w, unit))
<1>1. PICK first, total : first = RoundAtto(c, unit) /\ total = RoundAtto(c + d - w, unit)
  OBVIOUS
<1>2. first \in Int /\ total \in Int /\ total - first \in Int
  <2>1. c \in Int /\ c + d - w \in Int
    OBVIOUS
  <2>2. first \in Int /\ total \in Int
    BY <1>1, <2>1, RoundIsInt
  <2>. QED  BY <2>2
<1>3. PICK rest : rest = RoundToTotal(<<Term(1, d), Term(-1, w)>>, unit, total - first)
  OBVIOUS
<1>4. rest \in [1 .. 2 -> Nat] /\ rest[1] - rest[2] = total - first
  BY <1>2, <1>3, RoundedDifference
<1>5. PICK values : values = <<first>> \o rest
  OBVIOUS
<1>6. values[1] = first /\ values[2] = rest[1] /\ values[3] = rest[2]
  <2>1. rest \in Seq(Nat) /\ Len(rest) = 2
    <3>1. \A m \in Nat : \A h \in [1 .. m -> Nat] : h \in Seq(Nat) /\ Len(h) = m
      BY SeqDef, LenProperties
    <3>2. 2 \in Nat
      OBVIOUS
    <3>. QED  BY <1>4, <3>1, <3>2
  <2>. QED  BY <1>2, <1>5, <2>1
<1>7. RoundedHoldings(c, d, w, unit) = [values |-> values, total |-> total]
  BY <1>1, <1>3, <1>5 DEF RoundedHoldings
<1>8. rest[1] \in Nat /\ rest[2] \in Nat
  BY <1>4
<1>9. first + rest[1] - rest[2] = total
  BY <1>2, <1>4, <1>8
<1>. QED  BY <1>6, <1>7, <1>9 DEF HoldingsAddUp

\* Both tables add up, for any summary of the type and any cutoff of the catalog.
LEMMA TablesOf ==
    ASSUME cutoff \in Cutoffs, NEW s \in SummaryType
    PROVE  AddUp(s, CutoffTable(s))
<1>1. PICK credits, unit, parts : credits = ReserveCredits(s) /\ unit = PageUnit(s) /\ parts = CutoffParts(credits)
  OBVIOUS
<1>2. credits \in Totals
  <2>1. s.credited \in SUBSET Members /\ s.creditedAtto \in Nat
    BY DEF SummaryType
  <2>2. Cardinality(s.credited) \in Nat
    BY <2>1, FiguresAssumption, FS_Subset, FS_CardinalityType
  <2>. QED  BY <1>1, <2>1, <2>2 DEF ReserveCredits, Count, Totals
<1>3. \A total : DisplayUnit(total) \in Nat \ {0}
  BY FiguresAssumption DEF DisplayUnit
<1>4. unit \in Nat \ {0}
  BY <1>1, <1>3 DEF PageUnit
<1>5. PICK table : table = CutoffTable(s)
  OBVIOUS
<1>6. /\ table.parts = parts /\ table.unexplained = Unexplained(credits)
      /\ table.rounded = RoundedGroups(parts, unit)
  BY <1>1, <1>5 DEF CutoffTable
<1>7. PartsAddUp(table, credits) /\ parts \in Seq(PartType)
  BY <1>1, <1>2, <1>6, TablePartsAddUp
<1>8. RowsAddUp(table.rounded.groups, table.rounded.total)
  BY <1>4, <1>6, <1>7, RoundedGroupsAddUp
<1>9. HoldingsAddUp(HoldingsTable(s))
  <2>1. s.creditedAtto \in Nat /\ s.otherDeposits.atto \in Nat /\ s.withdrawals.atto \in Nat
    BY DEF SummaryType, Totals
  <2>2. PICK u : u \in Nat \ {0} /\ HoldingsTable(s)
                    = RoundedHoldings(s.creditedAtto, s.otherDeposits.atto, s.withdrawals.atto, u)
    BY <1>1, <1>3, <1>4 DEF HoldingsTable
  <2>. QED  BY <2>1, <2>2, HoldingsAre
<1>. QED  BY <1>1, <1>5, <1>7, <1>8, <1>9 DEF AddUp

\* So the tables of what is shown do.
LEMMA SumsAddUp == SumsInv => TablesAddUp
<1>. SUFFICES ASSUME SumsInv, shown # None PROVE AddUp(Summary, CutoffTable(Summary))
  BY DEF TablesAddUp
<1>1. Summary \in SummaryType
  BY SummaryMatches DEF Matches
<1>2. cutoff \in Cutoffs
  BY DEF SumsInv, FiguresShape
<1>. QED  BY <1>1, <1>2, TablesOf

\* The two tables of what is shown add up: the parts to the stages they are of and
\* to the credits, the rows to the subtotals, those to the total or to one unit
\* more, the holdings to what is held, for any events, any cutoff and any units
\* (breakdown.ts, DelegatorBreakdown.tsx).
THEOREM FiguresAddUp == FiguresSpec => []TablesAddUp
<1>. QED  BY SumsInvariance, SumsAddUp, PTL

-----------------------------------------------------------------------------
(* The portal shows one part at a time, and each behaves as it does alone.  *)

\* A behaviour of the portal is one of every part: a part the tab is not at
\* rests.
THEOREM PortalIsItsParts ==
  PortalSpec => ClaimsSpec /\ LookupSpec /\ VaultSpec /\ ConfirmPageSpec /\ LedgerSpec
                /\ FiguresSpec /\ HistorySpec
<1>1. PortalInit => ClaimsInit /\ LookupInit /\ VaultInit /\ ConfirmPageInit /\ LedgerInit
                    /\ FiguresInit /\ HistoryInit
  BY DEF PortalInit
<1>2. ASSUME [PortalNext]_portalVars
      PROVE  [ClaimsNext]_claimsVars
  BY <1>2 DEF PortalNext, portalVars
<1>3. ASSUME [PortalNext]_portalVars
      PROVE  [LookupNext]_lookupVars
  BY <1>3 DEF PortalNext, portalVars
<1>4. ASSUME [PortalNext]_portalVars
      PROVE  [VaultNext]_vaultVars
  BY <1>4 DEF PortalNext, portalVars
<1>5. ASSUME [PortalNext]_portalVars
      PROVE  [ConfirmPageNext]_confirmPageVars
  BY <1>5 DEF PortalNext, portalVars
<1>6. ASSUME [PortalNext]_portalVars
      PROVE  [LedgerNext]_ledgerVars
  BY <1>6 DEF PortalNext, portalVars
<1>7. ASSUME [PortalNext]_portalVars
      PROVE  [FiguresNext]_figuresVars
  BY <1>7 DEF PortalNext, portalVars
<1>8. ASSUME [PortalNext]_portalVars
      PROVE  [HistoryNext]_historyVars
  BY <1>8 DEF PortalNext, portalVars
<1>. QED
  BY <1>1, <1>2, <1>3, <1>4, <1>5, <1>6, <1>7, <1>8, PTL
     DEF PortalSpec, ClaimsSpec, LookupSpec, VaultSpec, ConfirmPageSpec, LedgerSpec, FiguresSpec, HistorySpec


\* "Activity confirmed" is shown only for an address the API has a record of, by
\* that address and under the set the page was told of (ConfirmPage.tsx).
THEOREM PortalConfirmedIsRecorded == PortalSpec => []ConfirmedIsRecorded
<1>. QED  BY PortalIsItsParts, ConfirmInvariance, InvConfirmedIsRecorded, PTL

\* What is submitted for an address is signed by it, and was asked of the wallet on
\* a chain its session shared that address on (ConfirmPage.tsx, walletconnect.ts).
THEOREM PortalSubmittedIsOwn == PortalSpec => []SubmittedIsOwn
<1>. QED  BY PortalIsItsParts, ConfirmInvariance, InvSubmittedIsOwn, PTL

\* A signature a Ledger's page goes on with is by the account it was asked of,
\* over the bytes it was asked for (useLedger.ts sign, signer.ts send).
THEOREM PortalSignedByAccount == PortalSpec => []SignedByAccount
<1>. QED  BY PortalIsItsParts, LedgerInvariance, LedgerInvShows, PTL

\* The app and addresses that are shown are the device's (transport.ts exchange).
THEOREM PortalShowsDevice == PortalSpec => []ShowsDevice
<1>. QED  BY PortalIsItsParts, LedgerInvariance, LedgerInvShows, PTL

\* The page sums up the events of every block there was when its read began, each
\* once and in order, however the endpoint refused ranges and they were halved
\* (chain.ts readVaultLogs).
THEOREM PortalReadsEveryBlock == PortalSpec => []EveryBlockOnce
<1>1. FiguresSpec => []FiguresInv
  BY FiguresInitHolds, FiguresNextKeeps, PTL DEF FiguresSpec
<1>2. FiguresInv => EveryBlockOnce
  BY DEF FiguresInv, EveryBlockOnce, UpTo
<1>. QED  BY PortalIsItsParts, <1>1, <1>2, PTL

\* A claim is reported as paid only for rows its transaction paid, and for all of
\* the batch that it paid (claim.ts awaitClaim, BridgePage.tsx follow).
THEOREM PortalDoneIsPaid == PortalSpec => []DoneIsPaid
<1>. QED  BY PortalIsItsParts, ReportsArePayments, PTL

\* A claim the page says has ended has ended, as it says (BridgePage.tsx follow).
THEOREM PortalOutcomeIsFinal == PortalSpec => []OutcomeIsFinal
<1>. QED  BY PortalIsItsParts, EndedClaimsHaveEnded, PTL

\* Every row, card, date and pool that is shown is of the contract list the page
\* adopted, and every row is the address's (bridge.ts, snapshots.ts).
THEOREM PortalShownIsListed == PortalSpec => []ShownIsListed
<1>. QED  BY PortalIsItsParts, ShownRowsAreListed, PTL

\* Pages read from one load of the archive list the newest records of the address,
\* each once and none left out (archive.ts, HistoryPage.tsx).
THEOREM PortalPagesAreWhole == PortalSpec => []PagesAreWhole
<1>. QED  BY PortalIsItsParts, HistoryIsWhole, PTL

\* The summary is what the vault held after the block the page read up to, and who
\* governed it at which fee (chain.ts readVaultLogs, activity.ts summarize).
THEOREM PortalSummaryIsTheVault == PortalSpec => []SummaryIsTheVault
<1>. QED  BY PortalIsItsParts, SummaryMatchesVault, PTL

\* And the two tables beside it add up (breakdown.ts, DelegatorBreakdown.tsx).
THEOREM PortalTablesAddUp == PortalSpec => []TablesAddUp
<1>. QED  BY PortalIsItsParts, FiguresAddUp, PTL

\* The tab is at one part of the site, and what every part keeps has its type
\* (main.tsx, router.ts and the pages).
THEOREM PortalTyped == PortalSpec => []PortalTypeOK
<1>1. PortalSpec => [](page \in Parts)
  <2>1. PortalInit => page \in Parts
    BY DEF PortalInit
  <2>2. page \in Parts /\ [PortalNext]_portalVars => (page \in Parts)'
    BY DEF PortalNext, portalVars
  <2>. QED  BY <2>1, <2>2, PTL DEF PortalSpec
<1>2. ConfirmInv => ConfirmPageTypeOK
  BY DEF ConfirmInv
<1>3. /\ page \in Parts /\ BridgeTypeOK /\ AddressTypeOK /\ VaultTypeOK /\ ConfirmPageTypeOK
      /\ LedgerTypeOK /\ FiguresTypeOK /\ HistoryTypeOK
      => PortalTypeOK
  BY DEF PortalTypeOK
<1>. QED
  BY <1>1, <1>2, <1>3, PortalIsItsParts, BridgeTyped, LookupTyped, VaultTyped, ConfirmInvariance,
     LedgerInvariance, LedgerInvTyped, FiguresTyped, HistoryInvariance, InvHistoryTypeOK, PTL

=============================================================================
