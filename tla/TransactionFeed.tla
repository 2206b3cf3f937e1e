--------------------------- MODULE TransactionFeed ---------------------------
(***************************************************************************)
(* The transaction feed of apps/web (components/transaction-feed.tsx): it  *)
(* polls Horizon for the payments of the connected account and merges what *)
(* is new into its list.                                                   *)
(*                                                                         *)
(* A change of account or network resets the feed, but a poll under way    *)
(* goes on and is merged into the list of the next one.  The effect that   *)
(* polls depends on the address of Horizon, the one that resets on the     *)
(* network: two networks may share a Horizon.  Records are abstracted to   *)
(* whose they are.                                                         *)
(***************************************************************************)
CONSTANTS
  Account,
  NoAccount,
  FeedNetwork,
  Testnet,      \* its Horizon serves the networks that are not in HORIZON_URL
  Unlisted,     \* the networks that are not
  FeedPoll      \* polls that may be under way at once

ASSUME FeedAssumption ==
  /\ NoAccount \notin Account
  /\ Testnet \in FeedNetwork /\ Unlisted \subseteq FeedNetwork /\ Testnet \notin Unlisted

VARIABLES
  account,     \* address, while connected
  feedNetwork,
  shown,       \* whose transactions are listed
  cursor,      \* whose transaction cursorRef holds, if any
  feedState,
  closedOver,  \* the feedState that poll was created with
  polling,     \* the interval is set
  polls,       \* polls[p]: a poll under way
  mixed,       \* history: a poll begun before the last reset was merged
  silenced     \* history: the network was switched within a Horizon, last

feedVars ==
  <<account, feedNetwork, shown, cursor, feedState, closedOver, polling, polls, mixed, silenced>>

Horizon(n) == IF n \in Unlisted THEN Testnet ELSE n
Feeds == [account : Account, horizon : FeedNetwork]
Feed == [account |-> account, horizon |-> Horizon(feedNetwork)]
FeedStates == {"idle", "loading", "ok", "empty", "account-missing", "error", "degraded"}

(* raced: the feed was reset since the poll began. *)
NoPoll == [op |-> "none"]
Polls == {NoPoll} \cup
  [op : {"first", "next"}, of : Feeds, knew : FeedStates, raced : BOOLEAN]

FeedInit ==
  /\ account = NoAccount /\ feedNetwork \in FeedNetwork
  /\ shown = {} /\ cursor = {} /\ feedState = "idle" /\ closedOver = "idle"
  /\ polling = FALSE /\ polls = [p \in FeedPoll |-> NoPoll]
  /\ mixed = FALSE /\ silenced = FALSE

(* Mutants: the cursor is kept; the list is kept. *)
ResetKeepsCursor == shown' = {} /\ UNCHANGED cursor /\ mixed' = FALSE
ResetKeepsList == UNCHANGED shown /\ cursor' = {} /\ mixed' = FALSE
Reset == shown' = {} /\ cursor' = {} /\ mixed' = FALSE

Raced == [p \in FeedPoll |-> IF polls[p] = NoPoll THEN NoPoll
                             ELSE [polls[p] EXCEPT !.raced = TRUE]]

(* poll(true) in slot p, of a feed, by a callback that knew a state. *)
FirstPoll(p, feed, knew) ==
  /\ polls[p] = NoPoll
  /\ polls' = [Raced EXCEPT ![p] = [op |-> "first", of |-> feed, knew |-> knew, raced |-> FALSE]]
  /\ feedState' = "loading" /\ polling' = TRUE

-----------------------------------------------------------------------------
(* The effects of a change of account: reset, and poll the new one with a  *)
(* new callback.                                                           *)
SwitchAccount(a) ==
  /\ a # account /\ account' = a
  /\ Reset /\ silenced' = FALSE /\ closedOver' = feedState
  /\ IF a = NoAccount
     THEN polls' = Raced /\ feedState' = "idle" /\ polling' = FALSE
     ELSE \E p \in FeedPoll :
            FirstPoll(p, [account |-> a, horizon |-> Horizon(feedNetwork)], feedState)
  /\ UNCHANGED feedNetwork

(* Of a change of network: without a new Horizon there is no new callback, *)
(* and the reset has stopped the polling.                                  *)
SwitchFeedNetwork(n) ==
  /\ n # feedNetwork /\ feedNetwork' = n
  /\ Reset
  /\ IF account = NoAccount \/ Horizon(n) = Horizon(feedNetwork)
     THEN /\ polls' = Raced /\ feedState' = "idle" /\ polling' = FALSE
          /\ silenced' = (account # NoAccount) /\ UNCHANGED closedOver
     ELSE /\ \E p \in FeedPoll : FirstPoll(p, [Feed EXCEPT !.horizon = Horizon(n)], feedState)
          /\ silenced' = FALSE /\ closedOver' = feedState
  /\ UNCHANGED account

(* The interval fires. *)
Tick(p) ==
  /\ polling /\ polls[p] = NoPoll
  /\ polls' = [polls EXCEPT ![p] =
       [op |-> "next", of |-> Feed, knew |-> closedOver, raced |-> FALSE]]
  /\ UNCHANGED <<account, feedNetwork, shown, cursor, feedState, closedOver, polling, mixed,
                 silenced>>

(* Mutant: the refresh does not set the interval again. *)
RefreshOnce(p) ==
  /\ account # NoAccount /\ feedState # "loading"
  /\ Reset /\ polls[p] = NoPoll
  /\ polls' = [Raced EXCEPT ![p] =
       [op |-> "first", of |-> Feed, knew |-> closedOver, raced |-> FALSE]]
  /\ feedState' = "loading" /\ polling' = FALSE /\ silenced' = FALSE
  /\ UNCHANGED <<account, feedNetwork, closedOver>>

(* handleRefresh *)
Refresh(p) ==
  /\ account # NoAccount /\ feedState # "loading"
  /\ Reset /\ FirstPoll(p, Feed, closedOver) /\ silenced' = FALSE
  /\ UNCHANGED <<account, feedNetwork, closedOver>>

-----------------------------------------------------------------------------
(* A poll is answered: nothing looks at whose it was. *)
Answered(p) == polls' = [polls EXCEPT ![p] = NoPoll]

Records(p) ==
  /\ polls[p] # NoPoll
  /\ shown' = shown \cup {polls[p].of} /\ cursor' = {polls[p].of}
  /\ feedState' = "ok" /\ mixed' = (mixed \/ polls[p].raced)
  /\ Answered(p)
  /\ UNCHANGED <<account, feedNetwork, closedOver, polling, silenced>>

NoRecords(p) ==
  /\ polls[p] # NoPoll
  /\ feedState' = IF polls[p].op = "first" THEN "empty" ELSE feedState
  /\ Answered(p)
  /\ UNCHANGED <<account, feedNetwork, shown, cursor, closedOver, polling, mixed, silenced>>

(* 404, or another error, judged by the feedState the callback knew. *)
PollThrows(p) ==
  /\ polls[p] # NoPoll
  /\ \/ feedState' = "account-missing"
     \/ feedState' = IF polls[p].knew = "ok" THEN "degraded" ELSE "error"
  /\ Answered(p)
  /\ UNCHANGED <<account, feedNetwork, shown, cursor, closedOver, polling, mixed, silenced>>

(* The page is left and mounted again: a new component, whose first        *)
(* effects poll; the polls of the old one find it unmounted.               *)
MountFeed(p) ==
  /\ shown' = {} /\ cursor' = {} /\ closedOver' = "idle"
  /\ polling' = (account # NoAccount)
  /\ feedState' = IF account = NoAccount THEN "idle" ELSE "loading"
  /\ polls' = [q \in FeedPoll |->
       IF q = p /\ account # NoAccount
       THEN [op |-> "first", of |-> Feed, knew |-> "idle", raced |-> FALSE] ELSE NoPoll]
  /\ mixed' = FALSE /\ silenced' = FALSE
  /\ UNCHANGED <<account, feedNetwork>>

FeedNext ==
  \/ \E a \in Account \cup {NoAccount} : SwitchAccount(a)
  \/ \E n \in FeedNetwork : SwitchFeedNetwork(n)
  \/ \E p \in FeedPoll :
       Tick(p) \/ Refresh(p) \/ Records(p) \/ NoRecords(p) \/ PollThrows(p) \/ MountFeed(p)

FeedSpec == FeedInit /\ [][FeedNext]_feedVars

-----------------------------------------------------------------------------
(* The feed has its types; the cursor is of a feed that is listed. *)
FeedTypeOK ==
  /\ account \in Account \cup {NoAccount} /\ feedNetwork \in FeedNetwork
  /\ shown \subseteq Feeds /\ cursor \subseteq shown
  /\ {feedState, closedOver} \subseteq FeedStates
  /\ {polling, mixed, silenced} \subseteq BOOLEAN
  /\ polls \in [FeedPoll -> Polls]

(* What is listed, and the cursor of the next poll, are of the connected   *)
(* account on the Horizon of the chosen network, unless a poll that was    *)
(* under way at the last reset has been merged since.                      *)
FeedIsOfItsAccount ==
  ~ mixed => shown \subseteq (IF account = NoAccount THEN {} ELSE {Feed})

(* The feed of a connected account is polled, unless the network was last  *)
(* switched to one with the same Horizon: then only a refresh resumes it.  *)
PolledUnlessSilenced == account # NoAccount /\ ~ silenced => polling

(* Together: the list is of the shown account, and somebody polls for it.  *)
FeedInv ==
  /\ FeedTypeOK /\ FeedIsOfItsAccount /\ PolledUnlessSilenced
=============================================================================
