------------------------------ MODULE LookupPages ------------------------------
(***************************************************************************)
(* The pages that look one thing up: the history of an account (app/tx),   *)
(* one transaction (app/tx/[hash]), a ledger entry (app/tools/ledger-keys),*)
(* a shared workspace (app/share/[token]) and the registered source of a   *)
(* contract (SourceVerificationFlow).                                      *)
(*                                                                         *)
(* One of them is mounted at a time.  Each asks a service and shows what   *)
(* it answers; the question and the network can change meanwhile, and only *)
(* the last of the five drops the answer to a former question.             *)
(***************************************************************************)
EXTENDS Naturals, Sequences

CONSTANTS
  Question,     \* accounts, hashes, ledger keys, tokens, contracts
  NoQuestion,
  Malformed,    \* those that make no ledger key, or whose snapshot is refused
  LookNetwork,
  LookTestnet,  \* its Horizon is asked for the networks that are not in HORIZON_URL
  LookUnlisted,
  WithRegistry, \* the networks of REGISTRY_CONTRACTS
  NoNet,
  Query,        \* questions asked and not answered yet
  MaxHistory    \* MAX_HISTORY

ASSUME LookAssumption ==
  /\ NoQuestion \notin Question /\ Malformed \subseteq Question
  /\ LookTestnet \in LookNetwork /\ LookUnlisted \subseteq LookNetwork \ {LookTestnet}
  /\ NoNet \notin LookNetwork /\ WithRegistry \subseteq LookNetwork
  /\ MaxHistory \in Nat \ {0}

VARIABLES
  page,          \* the page that is mounted
  question,      \* address; hash; keyXdr; token; contractId
  lookNetwork,   \* currentNetwork
  answer,        \* allRecords; tx; result; state; verification
  failed,        \* error is set, or the state is an error
  busy,          \* loading, isLoading; state "loading"
  fetched,       \* of app/tx
  asks,
  queries,       \* history of the ledger page: the keys that were queried
  stored,        \* the same in localStorage
  log,           \* history: the newest queries answered since the list was cleared
  crossed,       \* history: the newest answer was overtaken by another question
  listOvertaken  \* history: a query was answered after the list was cleared or left

lookVars == <<page, question, lookNetwork, answer, failed, busy, fetched, asks,
              queries, stored, log, crossed, listOvertaken>>
listVars == <<queries, stored, log, listOvertaken>>

Pages == {"history", "transaction", "ledger", "share", "source"}
NoAnswerYet == [of |-> NoQuestion, on |-> NoNet]
AnswerTo(a) == [of |-> a.of, on |-> a.on]
NoAsk == [at |-> "none", of |-> NoQuestion, on |-> NoNet,
          raced |-> FALSE, dropped |-> FALSE, list |-> <<>>]
QueryLists == UNION {[1 .. n -> Question] : n \in 0 .. MaxHistory}

LookHorizon(n) == IF n \in LookUnlisted THEN LookTestnet ELSE n

Asks(a) == asks[a].at # "none"
NewestQueries(list) == SubSeq(list, 1, IF Len(list) < MaxHistory THEN Len(list) ELSE MaxHistory)

LookInit ==
  /\ page = "none" /\ question = NoQuestion /\ lookNetwork \in LookNetwork
  /\ answer = NoAnswerYet /\ failed = FALSE /\ busy = FALSE /\ fetched = FALSE
  /\ asks = [a \in Query |-> NoAsk]
  /\ queries = <<>> /\ stored = <<>> /\ log = <<>>
  /\ crossed = FALSE /\ listOvertaken = FALSE

-----------------------------------------------------------------------------
(* Whatever happens while a question is under way may make its answer      *)
(* come too late.  Where the page is left, or the effect cancelled, the    *)
(* answer changes nothing any more, but for the list of a ledger query.    *)
Overtaken(drops) ==
  [a \in Query |->
    IF ~ Asks(a) \/ (drops /\ asks[a].at # "ledger") THEN NoAsk
    ELSE [asks[a] EXCEPT !.raced = TRUE, !.dropped = @ \/ drops]]

Asked(a, drops, q, n) ==
  [Overtaken(drops) EXCEPT ![a] =
    [NoAsk EXCEPT !.at = page, !.of = q, !.on = n, !.list = queries,
                  !.raced = \E b \in Query : Asks(b) /\ ~ drops]]

(* Its answer arrives, and this question is over. *)
AnswerArrives(a) ==
  /\ Asks(a) /\ ~ asks[a].dropped
  /\ asks' = [asks EXCEPT ![a] = NoAsk]
  /\ crossed' = asks[a].raced

OpenPage(p) ==
  /\ page = "none" /\ page' = p
  /\ answer' = NoAnswerYet /\ failed' = FALSE /\ fetched' = FALSE /\ crossed' = FALSE
  /\ queries' = IF p = "ledger" THEN stored ELSE <<>>
  /\ question' = NoQuestion /\ busy' = (p \in {"transaction", "share", "source"})
  /\ UNCHANGED <<lookNetwork, asks, stored, log, listOvertaken>>

LeavePage ==
  /\ page # "none" /\ page' = "none" /\ question' = NoQuestion
  /\ asks' = Overtaken(TRUE)
  /\ answer' = NoAnswerYet /\ failed' = FALSE /\ busy' = FALSE /\ fetched' = FALSE
  /\ queries' = <<>> /\ crossed' = FALSE
  /\ UNCHANGED <<lookNetwork, stored, log, listOvertaken>>

-----------------------------------------------------------------------------
(* app/tx.  The account is typed, and asked for with the button or with    *)
(* Enter, which does not mind that a question is under way.  What was      *)
(* there comes back if the answer of an older question arrives.            *)
TypeAccount(q) ==
  /\ page = "history" /\ question' = q
  /\ UNCHANGED <<page, lookNetwork, answer, failed, busy, fetched, asks, listVars, crossed>>

LoadHistory(a) ==
  /\ page = "history" /\ question # NoQuestion /\ ~ Asks(a)
  /\ asks' = Asked(a, FALSE, question, lookNetwork)
  /\ busy' = TRUE /\ fetched' = FALSE
  /\ UNCHANGED <<page, question, lookNetwork, answer, failed, listVars, crossed>>

HistoryLoaded(a) ==
  /\ page = "history" /\ AnswerArrives(a)
  /\ answer' = AnswerTo(asks[a]) /\ fetched' = TRUE /\ busy' = FALSE
  /\ UNCHANGED <<page, question, lookNetwork, failed, listVars>>

HistoryFails(a) ==
  /\ page = "history" /\ AnswerArrives(a)
  /\ busy' = FALSE
  /\ UNCHANGED <<page, question, lookNetwork, answer, failed, fetched, listVars>>

-----------------------------------------------------------------------------
(* Mutant: the former transaction stays in place until the answer comes.   *)
LoadsAgainSilently == UNCHANGED busy /\ failed' = FALSE

(* app/tx/[hash].  The effect on the hash and the Horizon of the network   *)
(* asks, and does not cancel what it asked before.                         *)
LoadsAgain == busy' = TRUE /\ failed' = FALSE

LoadTransaction(a, q, n) ==
  /\ page = "transaction" /\ ~ Asks(a)
  /\ \/ q # question /\ n = lookNetwork
     \/ q = question /\ LookHorizon(n) # LookHorizon(lookNetwork)
  /\ question' = q /\ lookNetwork' = n
  /\ asks' = Asked(a, FALSE, q, n)
  /\ LoadsAgain
  /\ UNCHANGED <<page, answer, fetched, listVars, crossed>>

TransactionLoaded(a) ==
  /\ page = "transaction" /\ AnswerArrives(a)
  /\ answer' = AnswerTo(asks[a]) /\ busy' = FALSE
  /\ UNCHANGED <<page, question, lookNetwork, failed, fetched, listVars>>

TransactionFails(a) ==
  /\ page = "transaction" /\ AnswerArrives(a)
  /\ failed' = TRUE /\ busy' = FALSE
  /\ UNCHANGED <<page, question, lookNetwork, answer, fetched, listVars>>

-----------------------------------------------------------------------------
(* app/tools/ledger-keys.  Every edit clears what is shown, through the    *)
(* effect on the inputs, and builds the key anew; what is being fetched    *)
(* goes on.  An entry of the list puts its inputs back.                    *)
EditKey(q) ==
  /\ page = "ledger" /\ q # question /\ question' = q
  /\ answer' = NoAnswerYet /\ failed' = (q \in Malformed)
  /\ asks' = Overtaken(FALSE)
  /\ UNCHANGED <<page, lookNetwork, busy, fetched, listVars, crossed>>

KeyBuilt == question \notin Malformed \cup {NoQuestion}

FetchEntry(a) ==
  /\ page = "ledger" /\ KeyBuilt /\ ~ busy /\ ~ Asks(a)
  /\ asks' = Asked(a, FALSE, question, lookNetwork)
  /\ busy' = TRUE /\ failed' = FALSE /\ answer' = NoAnswerYet
  /\ UNCHANGED <<page, question, lookNetwork, fetched, listVars, crossed>>

(* Mutant: the list grows. *)
EntryAddedToAll(ask) == <<ask.of>> \o ask.list

(* The list as it was when the button was clicked, with the new query.     *)
EntryAdded(ask) == NewestQueries(<<ask.of>> \o ask.list)

EntryAnswered(a) ==
  /\ page = "ledger" /\ AnswerArrives(a)
  /\ answer' = AnswerTo(asks[a]) /\ busy' = FALSE
  /\ queries' = EntryAdded(asks[a]) /\ stored' = queries'
  /\ log' = NewestQueries(<<asks[a].of>> \o log)
  /\ listOvertaken' = (listOvertaken \/ asks[a].list # log)
  /\ UNCHANGED <<page, question, lookNetwork, failed, fetched>>

(* The page has been left: the state is gone, and the list still stored.   *)
EntryAnsweredAfterwards(a) ==
  /\ asks[a].dropped
  /\ asks' = [asks EXCEPT ![a] = NoAsk]
  /\ stored' = EntryAdded(asks[a])
  /\ listOvertaken' = TRUE
  /\ UNCHANGED <<page, question, lookNetwork, answer, failed, busy, fetched, queries, log, crossed>>

EntryFails(a) ==
  /\ \/ page = "ledger" /\ AnswerArrives(a) /\ failed' = TRUE /\ busy' = FALSE
     \/ /\ asks[a].dropped
        /\ asks' = [asks EXCEPT ![a] = NoAsk] /\ UNCHANGED <<failed, busy, crossed>>
  /\ UNCHANGED <<page, question, lookNetwork, answer, fetched, listVars>>

(* Mutant: only what is shown is cleared. *)
ListCleared == queries' = <<>> /\ UNCHANGED stored

ListGone == queries' = <<>> /\ stored' = <<>>

ClearQueries ==
  /\ page = "ledger" /\ queries # <<>>
  /\ ListGone /\ log' = <<>>
  /\ UNCHANGED <<page, question, lookNetwork, answer, failed, busy, fetched, asks, crossed,
                 listOvertaken>>

-----------------------------------------------------------------------------
(* app/share/[token].  The effect on the token asks for the link; another  *)
(* token neither shows that it is loading nor cancels the first.           *)
OpenLink(a, q) ==
  /\ page = "share" /\ q # question /\ ~ Asks(a)
  /\ question' = q
  /\ asks' = Asked(a, FALSE, q, lookNetwork)
  /\ UNCHANGED <<page, lookNetwork, answer, failed, busy, fetched, listVars, crossed>>

(* The snapshot is read by importWorkspace, which refuses some.            *)
LinkAnswered(a) ==
  /\ page = "share" /\ AnswerArrives(a)
  /\ busy' = FALSE
  /\ \/ asks[a].of \notin Malformed /\ answer' = AnswerTo(asks[a]) /\ failed' = FALSE
     \/ answer' = NoAnswerYet /\ failed' = TRUE
  /\ UNCHANGED <<page, question, lookNetwork, fetched, listVars>>

-----------------------------------------------------------------------------
(* Mutant: the effect has no cleanup. *)
EffectGoesOn(a, q) == Asked(a, FALSE, q, lookNetwork)

(* SourceVerificationFlow.  The effect on the contract cancels its former  *)
(* run; the network is read when it begins, and a switch does not repeat   *)
(* it.  Where there is no registry nothing is asked.                       *)
EffectRuns(a, q) == Asked(a, TRUE, q, lookNetwork)

CheckSource(a, q) ==
  /\ page = "source" /\ q # question /\ ~ Asks(a)
  /\ question' = q
  /\ IF lookNetwork \in WithRegistry
     THEN asks' = EffectRuns(a, q) /\ busy' = TRUE /\ UNCHANGED answer
     ELSE asks' = Overtaken(TRUE) /\ busy' = FALSE /\ answer' = [of |-> q, on |-> lookNetwork]
  /\ UNCHANGED <<page, lookNetwork, failed, fetched, listVars, crossed>>

(* getRegisteredSource never throws: what cannot be read is no source.     *)
SourceAnswered(a) ==
  /\ page = "source" /\ AnswerArrives(a)
  /\ answer' = AnswerTo(asks[a]) /\ busy' = FALSE
  /\ UNCHANGED <<page, question, lookNetwork, failed, fetched, listVars>>

(* The network is switched in the header.  The page of a transaction asks  *)
(* again where the Horizon is another one: that is LoadTransaction.        *)
SwitchLookNetwork(n) ==
  /\ n # lookNetwork /\ lookNetwork' = n
  /\ page = "transaction" /\ question # NoQuestion =>
       LookHorizon(n) = LookHorizon(lookNetwork)
  /\ UNCHANGED <<page, question, answer, failed, busy, fetched, asks, listVars, crossed>>

LookNext ==
  \/ \E p \in Pages : OpenPage(p)
  \/ LeavePage \/ ClearQueries
  \/ \E q \in Question \cup {NoQuestion} : TypeAccount(q) \/ EditKey(q)
  \/ \E n \in LookNetwork : SwitchLookNetwork(n)
  \/ \E a \in Query :
       \/ LoadHistory(a) \/ HistoryLoaded(a) \/ HistoryFails(a)
       \/ TransactionLoaded(a) \/ TransactionFails(a)
       \/ FetchEntry(a) \/ EntryAnswered(a) \/ EntryAnsweredAfterwards(a) \/ EntryFails(a)
       \/ LinkAnswered(a) \/ SourceAnswered(a)
       \/ \E q \in Question :
            \/ OpenLink(a, q) \/ CheckSource(a, q)
            \/ \E n \in LookNetwork : LoadTransaction(a, q, n)

LookSpec == LookInit /\ [][LookNext]_lookVars

-----------------------------------------------------------------------------
UnderWayHere == \E a \in Query : Asks(a) /\ ~ asks[a].dropped

LookTypeOK ==
  /\ page \in Pages \cup {"none"} /\ question \in Question \cup {NoQuestion}
  /\ lookNetwork \in LookNetwork
  /\ answer \in [of : Question, on : LookNetwork] \cup {NoAnswerYet}
  /\ {failed, busy, fetched, crossed, listOvertaken} \subseteq BOOLEAN
  /\ \A a \in Query : \/ asks[a] = NoAsk
                    \/ /\ asks[a].at \in Pages /\ asks[a].of \in Question
                       /\ asks[a].on \in LookNetwork /\ asks[a].list \in QueryLists
  /\ {queries, stored, log} \subseteq QueryLists

(* A page that waits is waited for: it says that it is loading exactly     *)
(* while an answer is due, except where questions overlap.                 *)
WaitsForAnAnswer ==
  /\ page = "ledger" \/ (page = "source" /\ question # NoQuestion) => (busy <=> UnderWayHere)
  /\ page = "history" \/ (page = "transaction" /\ question # NoQuestion) =>
       /\ busy => UnderWayHere
       /\ UnderWayHere => busy \/ crossed
  /\ page = "history" /\ fetched /\ UnderWayHere => crossed

(* What is shown answers what is asked now, unless a question was asked or *)
(* edited while its answer was due; and always where the effect cancels.   *)
(* The page of a transaction shows what the Horizon of the current network *)
(* answers, through switches of the network: for the networks that are not *)
(* in HORIZON_URL, whose name it shows beside, that of testnet.            *)
ShownIsOfTheQuestion ==
  /\ page = "transaction" /\ question # NoQuestion /\ ~ busy /\ ~ failed /\ ~ crossed =>
       answer.of = question /\ LookHorizon(answer.on) = LookHorizon(lookNetwork)
  /\ page = "ledger" /\ answer # NoAnswerYet /\ ~ crossed => answer.of = question
  /\ page = "share" /\ ~ busy /\ ~ failed /\ ~ crossed /\ ~ UnderWayHere => answer.of = question
  /\ page = "source" /\ question # NoQuestion /\ ~ busy => answer.of = question

(* The list of recent queries is the newest ones since it was cleared, and *)
(* the same in storage, unless an answer came after it was cleared or left.*)
ListIsTheLog == ~ listOvertaken => stored = log /\ (page = "ledger" => queries = log)

(* Together: a page that looks something up shows the answer to what it    *)
(* asks, waits when one is due, and remembers what was answered.           *)
LookInv == LookTypeOK /\ WaitsForAnAnswer /\ ShownIsOfTheQuestion /\ ListIsTheLog
=============================================================================
