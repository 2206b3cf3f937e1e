---------------------------- MODULE BrowserProofs ----------------------------
(***************************************************************************)
(* Theorems about the components of apps/web that run beside each other,   *)
(* one after the other: the watch of a transaction, the wallet session,    *)
(* the feed, the account page, the forms, the contract pages, and the      *)
(* lookup pages.  They share no state, so each is proved of its own        *)
(* specification.                                                          *)
(***************************************************************************)
EXTENDS MCBrowser, LookupPages, FiniteSetTheorems, TLAPS

-----------------------------------------------------------------------------
(* The safety of TxWatch for every limit of polls and of ticks: types, one *)
(* channel at a time, and nothing reported after a terminal status.        *)

Events == {"pending", "final", "error"}

(* What a final event of the wire says is true, however the wire changes.  *)
WireTrue(w, f) == \A i \in DOMAIN w : w[i] = "final" => f

LEMMA WireGrows ==
  ASSUME NEW w \in Seq(Events), NEW e \in Events, NEW f \in BOOLEAN,
         WireTrue(w, f), e = "final" => f
  PROVE  Append(w, e) \in Seq(Events) /\ WireTrue(Append(w, e), f)
BY DEF WireTrue, Events

LEMMA WireShrinks ==
  ASSUME NEW w \in Seq(Events), w # <<>>, NEW f \in BOOLEAN, WireTrue(w, f)
  PROVE  /\ Tail(w) \in Seq(Events) /\ WireTrue(Tail(w), f)
         /\ Head(w) = "final" => f
BY DEF WireTrue, Events

LEMMA WireEmpty ==
  ASSUME NEW f PROVE <<>> \in Seq(Events) /\ WireTrue(<<>>, f)
BY DEF WireTrue, Events

LEMMA PollLimits == {0, 1} \subseteq 0 .. MaxPolls /\ 0 \in 0 .. MaxTicks
BY WatchAssumption

LEMMA UpdatesCount == ASSUME NEW n \in Nat PROVE n + 1 \in Nat
OBVIOUS

WatchSafe == TypeOK /\ Inv

(* Nothing is running and nothing is on the wire at first.                 *)
LEMMA WatchBegins == Init => WatchSafe
<1> SUFFICES ASSUME Init PROVE WatchSafe
  OBVIOUS
<1>1. wire \in Seq(Events) /\ WireTrue(wire, final)
  BY WireEmpty DEF Init
<1>2. TypeOK
  BY <1>1, PollLimits DEF Init, TypeOK, Status, Events
<1>3. Inv
  BY <1>1 DEF Init, Inv, OneChannel, Connected, Polling, WireTrue
<1> QED BY <1>2, <1>3 DEF WatchSafe

(* A step that closes the EventSource, whatever it does with the polls.    *)
LEMMA WireClosed ==
  ASSUME CloseStream
  PROVE  wire' \in Seq(Events) /\ WireTrue(wire', final')
BY WireEmpty DEF CloseStream

(* Every step keeps the types and the invariant.                           *)
LEMMA WatchSteps == WatchSafe /\ [Next]_vars => WatchSafe'
<1> SUFFICES ASSUME TypeOK, Inv, [Next]_vars PROVE WatchSafe'
  BY DEF WatchSafe
<1>w. wire \in Seq(Events) /\ WireTrue(wire, final)
  BY DEF TypeOK, Events, Inv, WireTrue
<1> USE DEF TypeOK, WatchSafe, Status, Inv, OneChannel, Connected, Polling,
            sseVars, pollVars, reportVars, Events
<1>1. CASE Finalize
  <2>1. WireTrue(wire', final') /\ wire' \in Seq(Events)
    BY <1>1, <1>w DEF Finalize, WireTrue
  <2> QED BY <1>1, <2>1 DEF Finalize, WireTrue
<1>2. CASE WatchStream
  BY <1>2 DEF WatchStream, NotStarted
<1>3. CASE WatchByPolling
  BY <1>3, PollLimits DEF WatchByPolling, NotStarted, StartPolling
<1>4. CASE TimerFires
  BY <1>4, PollLimits, WireClosed DEF TimerFires, CloseStream, StartPolling, WireTrue
<1>5. CASE Opened
  BY <1>5 DEF Opened
<1>6. CASE ConnectFails
  BY <1>6, PollLimits, WireClosed DEF ConnectFails, CloseStream, StartPolling, WireTrue
<1>7. CASE ErrorAfterOpen /\ es = "open"
  BY <1>7, WireClosed DEF ErrorAfterOpen, CloseStream, WireTrue
<1>8. CASE PendingMessage
  BY <1>8, <1>w, WireShrinks, UpdatesCount DEF PendingMessage, OnUpdate, WireTrue
<1>9. CASE FinalMessage
  BY <1>9, <1>w, WireShrinks, WireClosed, UpdatesCount
     DEF FinalMessage, OnUpdate, CloseStream, WireTrue
<1>10. CASE StreamTick
  <2>0. ticks' \in 0 .. MaxTicks
    BY <1>10, WatchAssumption DEF StreamTick
  <2>1. PICK event \in Answers :
          /\ wire' = Append(wire, event)
          /\ stream' = IF event = "final" THEN "ended" ELSE "live"
    BY <1>10 DEF StreamTick
  <2>2. event \in Events /\ (event = "final" => final)
    BY <2>1 DEF Answers
  <2>3. wire' \in Seq(Events) /\ WireTrue(wire', final)
    BY <1>w, <2>1, <2>2, WireGrows
  <2> QED BY <1>10, <2>0, <2>1, <2>3 DEF StreamTick, WireTrue
<1>11. CASE StreamTimesOut
  BY <1>11 DEF StreamTimesOut
<1>12. CASE PollPending
  BY <1>12, UpdatesCount DEF PollPending, OnUpdate
<1>13. CASE PollFinal
  BY <1>13, UpdatesCount DEF PollFinal, OnUpdate
<1>14. CASE PollNotOk
  BY <1>14 DEF PollNotOk
<1>15. CASE PollFails
  BY <1>15 DEF PollFails
<1>16. CASE PollAgain
  <2>1. attempts' \in 0 .. MaxPolls
    BY <1>16, WatchAssumption DEF PollAgain
  <2> QED BY <1>16, <2>1 DEF PollAgain
<1>17. CASE Cleanup
  <2>1. CASE Connected
    BY <1>17, <2>1, WireClosed DEF Cleanup, CloseStream, WireTrue, NotStarted
  <2>2. CASE ~ Connected
    BY <1>17, <2>2 DEF Cleanup, NotStarted
  <2> QED BY <2>1, <2>2
<1>18. CASE UNCHANGED vars
  BY <1>18 DEF vars
<1> QED
  BY <1>1, <1>2, <1>3, <1>4, <1>5, <1>6, <1>7, <1>8, <1>9, <1>10, <1>11, <1>12, <1>13,
     <1>14, <1>15, <1>16, <1>17, <1>18
  DEF Next, ConnectionEnds, Dispatch, ErrorEvent, PollAnswered

(* watchTxStatus keeps its variables typed, and polls at most              *)
(* maxPollAttempts times.                                                  *)
THEOREM WatchTypeCorrect == Spec => []TypeOK
<1>1. WatchSafe => TypeOK
  BY DEF WatchSafe
<1> QED BY WatchBegins, WatchSteps, <1>1, PTL DEF Spec

(* watchTxStatus has at most one channel in use, and a terminal status or  *)
(* the cleanup shuts both.                                                 *)
THEOREM WatchHolds == Spec => []WatchInv
<1>1. WatchSafe => WatchInv
  BY DEF WatchSafe, WatchInv
<1> QED BY WatchBegins, WatchSteps, <1>1, PTL DEF Spec

(* watchTxStatus never uses the EventSource and the polling loop together. *)
THEOREM ChannelsExclude == Spec => []OneChannel
<1>1. WatchSafe => OneChannel
  BY DEF WatchSafe, Inv
<1> QED BY WatchBegins, WatchSteps, <1>1, PTL DEF Spec

(* onUpdate hears nothing after a terminal status, and hears of one only   *)
(* when the transaction has it.                                            *)
THEOREM FinalStays == Spec => FinalIsLast
<1> DEFINE Kept == [/\ reported = "final" => UNCHANGED reportVars
                    /\ reported' = "final" => final]_vars
<1>1. ASSUME WatchSafe, [Next]_vars PROVE Kept
  <2>1. WatchSafe'
    BY <1>1, WatchSteps
  <2>2. CASE Next
    <3>1. wire # <<>> /\ Head(wire) = "final" => final
      BY <1>1, WireShrinks DEF WatchSafe, TypeOK, Inv, WireTrue, Events
    <3> USE DEF WatchSafe, Inv, Connected, Polling, reportVars
    <3>2. CASE UNCHANGED reportVars
      BY <1>1, <3>2
    <3>3. CASE PendingMessage
      BY <1>1, <3>3 DEF PendingMessage, OnUpdate
    <3>4. CASE FinalMessage
      BY <1>1, <3>1, <3>4 DEF FinalMessage, OnUpdate
    <3>5. CASE PollPending
      BY <1>1, <3>5 DEF PollPending, OnUpdate
    <3>6. CASE PollFinal
      BY <1>1, <3>6 DEF PollFinal, OnUpdate
    <3> QED
      BY <2>2, <3>2, <3>3, <3>4, <3>5, <3>6
      DEF Next, Finalize, WatchStream, WatchByPolling, TimerFires, Opened, ConnectFails,
          ConnectionEnds, Dispatch, ErrorEvent, ErrorAfterOpen, StreamTick, StreamTimesOut,
          PollAnswered, PollNotOk, PollFails, PollAgain, Cleanup, pollVars, sseVars
  <2> QED BY <1>1, <2>2
<1> QED BY WatchBegins, WatchSteps, <1>1, PTL DEF Spec, FinalIsLast

(* After the cleanup at most the poll in flight reports, and ends the loop.*)
THEOREM CleanupHolds == Spec => CleanupLeavesOnePoll
<1> DEFINE Kept == [cleaned =>
       /\ ~ UNCHANGED reportVars => poll = "asking" /\ poll' = "ended"
       /\ poll \in {"off", "ended"} => UNCHANGED poll]_vars
<1>1. ASSUME WatchSafe, [Next]_vars PROVE Kept
  <2>1. CASE Next /\ cleaned
    <3>1. ~ Connected /\ ~ timer /\ (poll # "off" => stopped)
      BY <1>1, <2>1 DEF WatchSafe, Inv
    <3>2. CASE PollPending
      BY <3>1, <3>2 DEF PollPending, OnUpdate, reportVars
    <3>3. CASE PollFinal
      BY <3>1, <3>3 DEF PollFinal, OnUpdate, reportVars
    <3>4. CASE PollAgain
      BY <3>1, <3>4 DEF PollAgain, reportVars
    <3>5. CASE PollNotOk \/ PollFails
      BY <3>1, <3>5 DEF PollNotOk, PollFails, reportVars
    <3>6. CASE UNCHANGED reportVars /\ UNCHANGED poll
      BY <3>6
    <3> QED
      BY <2>1, <3>1, <3>2, <3>3, <3>4, <3>5, <3>6
      DEF Next, Finalize, WatchStream, WatchByPolling, TimerFires, Opened, ConnectFails,
          ConnectionEnds, Dispatch, ErrorEvent, PendingMessage, FinalMessage, ErrorAfterOpen,
          StreamTick, StreamTimesOut, PollAnswered, Cleanup, NotStarted, Connected,
          pollVars, sseVars, reportVars
  <2> QED BY <1>1, <2>1
<1> QED BY WatchBegins, WatchSteps, <1>1, PTL DEF Spec, CleanupLeavesOnePoll

-----------------------------------------------------------------------------
(* The safety of WalletSession for any number of providers, networks,      *)
(* calls under way and reloads: the status that is shown is true but for   *)
(* the races named, and no wallet is forgotten behind its provider's back. *)
(*                                                                         *)
(* Neither is inductive.  A call writes what it has read before its await, *)
(* so the proof needs that the session has not changed since, unless the   *)
(* call is marked as raced (CallsAreFresh): every action that changes the  *)
(* session marks all the others.                                           *)

(* A call under way names a provider. *)
CallsHaveWallets == \A c \in WalletCall : calls[c].op # "none" => calls[c].wallet \in Provider

FreshCall(call) ==
  call.op \in {"revalidate", "disconnect"} /\ ~ call.raced =>
    /\ wallet # NoWallet /\ call.wallet = wallet
    /\ call.op = "revalidate" => call.held = atConnect

CallsAreFresh == \A c \in WalletCall : FreshCall(calls[c])

WalletCore == WalletTypeOK /\ CallsHaveWallets /\ CallsAreFresh /\ StatusHonestUnlessRaced

LEMMA NoCallIsTyped ==
  /\ NoCall \in Waiting /\ NoCall.op = "none" /\ Never \in AtConnect
  /\ Never.network = NoNetwork
BY DEF NoCall, Waiting, Never, AtConnect, Known

LEMMA WalletBegins == WalletInit => WalletCore
<1> SUFFICES ASSUME WalletInit PROVE WalletCore
  OBVIOUS
<1>1. WalletTypeOK
  <2>1. pageLoads \in 0 .. MaxPageLoads
    BY WalletAssumption DEF WalletInit
  <2> QED BY <2>1, NoCallIsTyped DEF WalletInit, WalletTypeOK
<1>2. CallsHaveWallets /\ CallsAreFresh
  BY NoCallIsTyped DEF WalletInit, CallsHaveWallets, CallsAreFresh, FreshCall
<1>3. StatusHonestUnlessRaced
  BY DEF WalletInit, StatusHonestUnlessRaced
<1> QED BY <1>1, <1>2, <1>3 DEF WalletCore

-----------------------------------------------------------------------------
(* Calls that begin, end or are overtaken keep their types and wallets.    *)
LEMMA WaitingKeeps ==
  ASSUME WalletCore, NEW c \in WalletCall, NEW o \in {"connect", "disconnect", "revalidate"},
         NEW w \in Provider, NEW h \in AtConnect, Waits(c, o, w, h)
  PROVE  /\ calls' \in [WalletCall -> Waiting] /\ CallsHaveWallets'
         /\ calls'[c] = [op |-> o, wallet |-> w, held |-> h, raced |-> FALSE]
         /\ \A d \in WalletCall : d # c => calls'[d] = calls[d]
<1>1. [op |-> o, wallet |-> w, held |-> h, raced |-> FALSE] \in Waiting
  BY DEF Waiting
<1> QED BY <1>1 DEF WalletCore, WalletTypeOK, Waits, CallsHaveWallets

LEMMA EndingKeeps ==
  ASSUME WalletCore, NEW c \in WalletCall, Ends(c)
  PROVE  /\ calls' \in [WalletCall -> Waiting] /\ CallsHaveWallets'
         /\ calls'[c] = NoCall
         /\ \A d \in WalletCall : d # c => calls'[d] = calls[d]
BY NoCallIsTyped DEF WalletCore, WalletTypeOK, Ends, CallsHaveWallets

(* After the session has changed no call passes for fresh.                 *)
LEMMA SessionEnds ==
  ASSUME WalletCore, NEW c \in WalletCall, EndsSession(c)
  PROVE  calls' \in [WalletCall -> Waiting] /\ CallsHaveWallets' /\ CallsAreFresh'
<1>1. ASSUME NEW d \in WalletCall
      PROVE  /\ calls'[d] \in Waiting
             /\ calls'[d].op # "none" => calls'[d].wallet \in Provider
             /\ calls'[d].op # "none" => calls'[d].raced
  <2>1. CASE d = c \/ calls[d].op = "none"
    BY <2>1, NoCallIsTyped DEF EndsSession
  <2>2. CASE d # c /\ calls[d].op # "none"
    <3>1. calls'[d] = [calls[d] EXCEPT !.raced = TRUE]
      BY <2>2 DEF EndsSession
    <3>2. calls[d] \in Waiting /\ calls[d].wallet \in Provider
      BY <2>2 DEF WalletCore, WalletTypeOK, CallsHaveWallets
    <3> QED BY <3>1, <3>2 DEF Waiting
  <2> QED BY <2>1, <2>2
<1>2. calls' \in [WalletCall -> Waiting]
  <2>1. calls' = [d \in WalletCall |-> calls'[d]]
    BY DEF EndsSession
  <2> QED BY <1>1, <2>1
<1>3. CallsHaveWallets' /\ CallsAreFresh'
  BY <1>1 DEF CallsHaveWallets, CallsAreFresh, FreshCall
<1> QED BY <1>2, <1>3

(* The two ways a session changes. *)
LEMMA ClearHolds ==
  ASSUME WalletCore, NEW c \in WalletCall, Clear(c), UNCHANGED <<network, pageLoads>>
  PROVE  WalletCore'
<1>1. /\ wallet' = NoWallet /\ atConnect' = Never /\ sessionStatus' = "disconnected"
      /\ overtaken' = FALSE /\ switched' = FALSE /\ EndsSession(c)
      /\ network' = network /\ pageLoads' = pageLoads
  BY DEF Clear, Verdict
<1>2. calls' \in [WalletCall -> Waiting] /\ CallsHaveWallets' /\ CallsAreFresh'
  BY <1>1, SessionEnds
<1>3. WalletTypeOK'
  BY <1>1, <1>2, NoCallIsTyped DEF WalletCore, WalletTypeOK
<1>4. StatusHonestUnlessRaced'
  BY <1>1 DEF StatusHonestUnlessRaced
<1> QED BY <1>2, <1>3, <1>4 DEF WalletCore

LEMMA ConnectAnsweredHolds ==
  ASSUME WalletCore, NEW c \in WalletCall, NEW passphrase \in Known, ConnectAnswered(c, passphrase)
  PROVE  WalletCore'
<1>1. /\ wallet' = calls[c].wallet /\ calls[c].wallet \in Provider
      /\ atConnect' = [network |-> network, passphrase |-> passphrase]
      /\ sessionStatus' = "valid" /\ overtaken' = FALSE /\ switched' = FALSE
      /\ EndsSession(c) /\ network' = network /\ pageLoads' = pageLoads
  BY DEF ConnectAnswered, Verdict, WalletCore, CallsHaveWallets
<1>2. calls' \in [WalletCall -> Waiting] /\ CallsHaveWallets' /\ CallsAreFresh'
  BY <1>1, SessionEnds
<1>3. network \in Network /\ wallet' # NoWallet /\ network # NoNetwork
  BY <1>1, WalletAssumption DEF WalletCore, WalletTypeOK
<1>4. WalletTypeOK'
  <2>1. atConnect' \in AtConnect /\ atConnect'.network # NoNetwork
    BY <1>1, <1>3 DEF AtConnect, Known
  <2> QED BY <1>1, <1>2, <1>3, <2>1 DEF WalletCore, WalletTypeOK
<1>5. StatusHonestUnlessRaced'
  BY <1>1, <1>3 DEF StatusHonestUnlessRaced
<1> QED BY <1>2, <1>4, <1>5 DEF WalletCore

-----------------------------------------------------------------------------
(* A call begins with the session of the moment.                           *)
LEMMA BeginningHolds ==
  ASSUME WalletCore, NEW c \in WalletCall, NEW o \in {"connect", "disconnect", "revalidate"},
         NEW w \in Provider, NEW h \in AtConnect, Waits(c, o, w, h),
         o # "connect" => w = wallet, o = "revalidate" => h = atConnect,
         UNCHANGED <<session, network, switched, pageLoads>>
  PROVE  WalletCore'
<1>1. /\ calls' \in [WalletCall -> Waiting] /\ CallsHaveWallets'
      /\ calls'[c] = [op |-> o, wallet |-> w, held |-> h, raced |-> FALSE]
      /\ \A d \in WalletCall : d # c => calls'[d] = calls[d]
  BY WaitingKeeps
<1>2. w # NoWallet
  BY WalletAssumption
<1>3. CallsAreFresh'
  <2>1. ASSUME NEW d \in WalletCall PROVE FreshCall(calls[d])'
    <3>1. CASE d = c
      BY <1>1, <1>2, <3>1 DEF FreshCall, session
    <3>2. CASE d # c
      BY <1>1, <3>2 DEF FreshCall, session, WalletCore, CallsAreFresh
    <3> QED BY <3>1, <3>2
  <2> QED BY <2>1 DEF CallsAreFresh
<1>4. WalletTypeOK' /\ StatusHonestUnlessRaced'
  BY <1>1 DEF WalletCore, WalletTypeOK, StatusHonestUnlessRaced, session
<1> QED BY <1>1, <1>3, <1>4 DEF WalletCore

(* A call ends and says what it says of a session that is as it was.       *)
LEMMA EndingHolds ==
  ASSUME WalletCore, NEW c \in WalletCall, Ends(c), UNCHANGED <<wallet, atConnect>>
  PROVE  CallsAreFresh'
<1>1. calls'[c] = NoCall /\ \A d \in WalletCall : d # c => calls'[d] = calls[d]
  BY EndingKeeps
<1>2. ASSUME NEW d \in WalletCall PROVE FreshCall(calls[d])'
  <2>1. CASE d = c
    BY <1>1, <2>1, NoCallIsTyped DEF FreshCall
  <2>2. CASE d # c
    BY <1>1, <2>2 DEF FreshCall, WalletCore, CallsAreFresh
  <2> QED BY <2>1, <2>2
<1> QED BY <1>2 DEF CallsAreFresh

(* revalidateSession judges by what it has read: where that is still so,   *)
(* "valid" is true.                                                        *)
LEMMA RevalidatedHolds ==
  ASSUME WalletCore, NEW c \in WalletCall, NEW passphrase \in Known, Revalidated(c, passphrase)
  PROVE  WalletCore'
<1>1. /\ calls[c].op = "revalidate"
      /\ sessionStatus' = IF Mismatch(calls[c].held, passphrase) THEN "mismatch" ELSE "valid"
      /\ overtaken' = calls[c].raced /\ switched' = FALSE /\ Ends(c)
      /\ UNCHANGED <<wallet, atConnect, network, pageLoads>>
  BY DEF Revalidated, Verdict
<1>2. calls' \in [WalletCall -> Waiting] /\ CallsHaveWallets' /\ CallsAreFresh'
  BY <1>1, EndingKeeps, EndingHolds
<1>3. WalletTypeOK'
  <2>1. calls[c].raced \in BOOLEAN
    BY DEF WalletCore, WalletTypeOK, Waiting
  <2> QED BY <1>1, <1>2, <2>1 DEF WalletCore, WalletTypeOK
<1>4. StatusHonestUnlessRaced'
  <2>1. SUFFICES ASSUME ~ calls[c].raced
        PROVE  wallet # NoWallet /\ (sessionStatus' = "valid" => atConnect.network = network)
    BY <1>1 DEF StatusHonestUnlessRaced
  <2>2. wallet # NoWallet /\ calls[c].held = atConnect
    BY <1>1, <2>1 DEF WalletCore, CallsAreFresh, FreshCall
  <2>3. atConnect.network # NoNetwork
    BY <2>2 DEF WalletCore, WalletTypeOK
  <2>4. sessionStatus' = "valid" => ~ Mismatch(calls[c].held, passphrase)
    BY <1>1
  <2> QED BY <2>2, <2>3, <2>4 DEF Mismatch
<1> QED BY <1>2, <1>3, <1>4 DEF WalletCore

LEMMA RevalidationFailsHolds ==
  ASSUME WalletCore, NEW c \in WalletCall, RevalidationFails(c) PROVE WalletCore'
<1>1. CASE wallet = NoWallet
  BY <1>1, ClearHolds DEF RevalidationFails
<1>2. CASE wallet # NoWallet
  <2>1. wallet \in Provider /\ Never \in AtConnect
    BY <1>2, NoCallIsTyped DEF WalletCore, WalletTypeOK
  <2>2. /\ Waits(c, "disconnect", wallet, Never)
        /\ UNCHANGED <<session, network, switched, pageLoads>>
    BY <1>2 DEF RevalidationFails
  <2> QED BY <2>1, <2>2, BeginningHolds
<1> QED BY <1>1, <1>2

LEMMA RevalidateHolds == ASSUME WalletCore, NEW c \in WalletCall, Revalidate(c) PROVE WalletCore'
<1>1. CASE wallet = NoWallet
  <2>1. /\ sessionStatus' = "disconnected" /\ overtaken' = FALSE /\ switched' = FALSE
        /\ UNCHANGED <<wallet, atConnect, network, pageLoads, calls>>
    BY <1>1 DEF Revalidate, Verdict
  <2> QED BY <2>1 DEF WalletCore, WalletTypeOK, CallsHaveWallets, CallsAreFresh, FreshCall,
                      StatusHonestUnlessRaced
<1>2. CASE wallet # NoWallet
  <2>1. wallet \in Provider /\ atConnect \in AtConnect
    BY <1>2 DEF WalletCore, WalletTypeOK
  <2>2. /\ Waits(c, "revalidate", wallet, atConnect)
        /\ UNCHANGED <<session, network, switched, pageLoads>>
    BY <1>2 DEF Revalidate, session
  <2> QED BY <2>1, <2>2, BeginningHolds
<1> QED BY <1>1, <1>2

(* A reload drops all calls and leaves the session unvetted.               *)
LEMMA LoadPageHolds == ASSUME WalletCore, LoadPage PROVE WalletCore'
<1>1. /\ pageLoads < MaxPageLoads /\ pageLoads' = pageLoads + 1
      /\ sessionStatus' = "disconnected" /\ overtaken' = FALSE /\ switched' = FALSE
      /\ calls' = [d \in WalletCall |-> NoCall]
      /\ UNCHANGED <<wallet, atConnect, network>>
  BY DEF LoadPage
<1>2. calls' \in [WalletCall -> Waiting] /\ CallsHaveWallets' /\ CallsAreFresh'
  BY <1>1, NoCallIsTyped DEF CallsHaveWallets, CallsAreFresh, FreshCall
<1>3. WalletTypeOK'
  <2>1. pageLoads' \in 0 .. MaxPageLoads
    BY <1>1, WalletAssumption DEF WalletCore, WalletTypeOK
  <2> QED BY <1>1, <1>2, <2>1 DEF WalletCore, WalletTypeOK
<1>4. StatusHonestUnlessRaced'
  BY <1>1 DEF StatusHonestUnlessRaced
<1> QED BY <1>2, <1>3, <1>4 DEF WalletCore

-----------------------------------------------------------------------------
LEMMA WalletSteps == WalletCore /\ [WalletNext]_walletVars => WalletCore'
<1> SUFFICES ASSUME WalletCore, [WalletNext]_walletVars PROVE WalletCore'
  OBVIOUS
<1>1. ASSUME NEW c \in WalletCall, NEW p \in Provider, Connect(c, p) PROVE WalletCore'
  BY <1>1, BeginningHolds, NoCallIsTyped DEF Connect
<1>2. ASSUME NEW c \in WalletCall, NEW q \in Known, ConnectAnswered(c, q) PROVE WalletCore'
  BY <1>2, ConnectAnsweredHolds
<1>3. ASSUME NEW c \in WalletCall, ConnectRefused(c) PROVE WalletCore'
  <2>1. Ends(c) /\ UNCHANGED <<session, network, switched, pageLoads>>
    BY <1>3 DEF ConnectRefused
  <2>2. calls' \in [WalletCall -> Waiting] /\ CallsHaveWallets' /\ CallsAreFresh'
    BY <2>1, EndingKeeps, EndingHolds DEF session
  <2>3. WalletTypeOK' /\ StatusHonestUnlessRaced'
    BY <2>1, <2>2 DEF WalletCore, WalletTypeOK, StatusHonestUnlessRaced, session
  <2> QED BY <2>2, <2>3 DEF WalletCore
<1>4. ASSUME NEW c \in WalletCall, Disconnect(c) PROVE WalletCore'
  <2>1. wallet \in Provider
    BY <1>4 DEF Disconnect, WalletCore, WalletTypeOK
  <2> QED BY <1>4, <2>1, BeginningHolds, NoCallIsTyped DEF Disconnect
<1>5. ASSUME NEW c \in WalletCall, DisconnectAnswered(c) PROVE WalletCore'
  BY <1>5, ClearHolds DEF DisconnectAnswered
<1>6. ASSUME NEW c \in WalletCall, Revalidate(c) PROVE WalletCore'
  BY <1>6, RevalidateHolds
<1>7. ASSUME NEW c \in WalletCall, RevalidationAnswered(c) PROVE WalletCore'
  BY <1>7, RevalidationFailsHolds, RevalidatedHolds DEF RevalidationAnswered
<1>8. CASE LoadPage
  BY <1>8, LoadPageHolds
<1>9. ASSUME NEW n \in Network, SetNetwork(n) PROVE WalletCore'
  BY <1>9 DEF SetNetwork, session, WalletCore, WalletTypeOK, CallsHaveWallets, CallsAreFresh,
              FreshCall, StatusHonestUnlessRaced
<1>10. CASE UNCHANGED walletVars
  BY <1>10 DEF walletVars, session, WalletCore, WalletTypeOK, CallsHaveWallets, CallsAreFresh,
               FreshCall, StatusHonestUnlessRaced
<1> QED
  BY <1>1, <1>2, <1>3, <1>4, <1>5, <1>6, <1>7, <1>8, <1>9, <1>10 DEF WalletNext

(* The status in the header is true of the session, unless the network was *)
(* switched since or the revalidation that set it was overtaken.           *)
THEOREM StatusIsHonest == WalletSpec => []WalletInv
<1>1. WalletCore => WalletInv
  BY DEF WalletCore, WalletInv
<1> QED BY WalletBegins, WalletSteps, <1>1, PTL DEF WalletSpec

(* disconnectWallet tells the provider of the wallet it forgets, unless    *)
(* another has been connected while the provider was asked.                *)
THEOREM ForgottenWereTold == WalletSpec => ForgottenAreDisconnected
<1> DEFINE Told == wallet # NoWallet /\ wallet' = NoWallet =>
                     \E c \in WalletCall :
                       calls[c].op = "disconnect" /\ (calls[c].wallet = wallet \/ calls[c].raced)
<1>1. WalletCore /\ [WalletNext]_walletVars => [Told]_walletVars
  <2> SUFFICES ASSUME WalletCore, WalletNext, wallet # NoWallet, wallet' = NoWallet
               PROVE  \E c \in WalletCall :
                        /\ calls[c].op = "disconnect"
                        /\ calls[c].wallet = wallet \/ calls[c].raced
    BY DEF walletVars, session
  <2>1. ASSUME NEW c \in WalletCall, DisconnectAnswered(c)
        PROVE  /\ calls[c].op = "disconnect"
               /\ calls[c].wallet = wallet \/ calls[c].raced
    BY <2>1 DEF DisconnectAnswered, WalletCore, CallsAreFresh, FreshCall
  <2>2. ASSUME NEW c \in WalletCall, NEW q \in Known, ConnectAnswered(c, q) PROVE FALSE
    BY <2>2, WalletAssumption DEF ConnectAnswered, WalletCore, CallsHaveWallets
  <2>3. PICK c \in WalletCall : DisconnectAnswered(c)
    BY <2>2 DEF WalletNext, Connect, ConnectRefused, Disconnect, Revalidate,
                RevalidationAnswered, RevalidationFails, Revalidated, LoadPage, SetNetwork,
                session
  <2> QED BY <2>1, <2>3
<1>2. WalletSpec => []WalletCore
  BY WalletBegins, WalletSteps, PTL DEF WalletSpec
<1> QED BY <1>1, <1>2, PTL DEF WalletSpec, ForgottenAreDisconnected

-----------------------------------------------------------------------------
(* TransactionFeed for any number of accounts, networks and polls.  A poll *)
(* that no reset has come in between is of the feed that is shown; every   *)
(* action that changes the feed marks those under way.                     *)
PollsAreFresh ==
  \A p \in FeedPoll : polls[p] # NoPoll /\ ~ polls[p].raced =>
    account # NoAccount /\ polls[p].of = Feed

PollingHasAccount == polling => account # NoAccount

FeedCore == FeedInv /\ PollsAreFresh /\ PollingHasAccount

LEMMA FeedIsTyped ==
  ASSUME FeedTypeOK
  PROVE  /\ account # NoAccount => Feed \in Feeds
         /\ \A n \in FeedNetwork : Horizon(n) \in FeedNetwork
BY FeedAssumption DEF FeedTypeOK, Feed, Feeds, Horizon

LEMMA FeedStatesAreTyped ==
  /\ {"idle", "loading", "ok", "empty", "account-missing", "error", "degraded"} \subseteq FeedStates
  /\ NoPoll \in Polls
  /\ \A p \in Polls : p # NoPoll =>
       /\ p.of \in Feeds /\ p.raced \in BOOLEAN
       /\ p = [op |-> p.op, of |-> p.of, knew |-> p.knew, raced |-> p.raced]
       /\ p.op \in {"first", "next"} /\ p.knew \in FeedStates
BY DEF FeedStates, Polls

(* A poll that begins.                                                     *)
LEMMA PollIsTyped ==
  ASSUME NEW op \in {"first", "next"}, NEW of \in Feeds, NEW knew \in FeedStates,
         NEW r \in BOOLEAN
  PROVE  [op |-> op, of |-> of, knew |-> knew, raced |-> r] \in Polls
BY DEF Polls

LEMMA RacedMarks ==
  ASSUME polls \in [FeedPoll -> Polls]
  PROVE  /\ Raced \in [FeedPoll -> Polls]
         /\ \A p \in FeedPoll : Raced[p] # NoPoll => Raced[p].raced
<1>1. ASSUME NEW p \in FeedPoll, polls[p] # NoPoll
      PROVE  [polls[p] EXCEPT !.raced = TRUE] \in Polls /\ [polls[p] EXCEPT !.raced = TRUE].raced
  <2>1. polls[p] \in [op : {"first", "next"}, of : Feeds, knew : FeedStates, raced : BOOLEAN]
    BY <1>1 DEF Polls
  <2>2. /\ [polls[p] EXCEPT !.raced = TRUE] \in
             [op : {"first", "next"}, of : Feeds, knew : FeedStates, raced : BOOLEAN]
        /\ [polls[p] EXCEPT !.raced = TRUE].raced
    BY <2>1
  <2> QED BY <2>2 DEF Polls
<1> QED BY <1>1, FeedStatesAreTyped DEF Raced

(* What follows a reset, with a first poll of the feed or without.         *)
LEMMA ResetHolds ==
  ASSUME FeedCore, Reset, account' \in Account \cup {NoAccount}, feedNetwork' \in FeedNetwork,
         feedState' \in FeedStates, closedOver' \in FeedStates,
         polling' \in BOOLEAN, silenced' \in BOOLEAN,
         polls' \in [FeedPoll -> Polls], PollsAreFresh',
         account' # NoAccount /\ ~ silenced' => polling', PollingHasAccount'
  PROVE  FeedCore'
<1>1. FeedTypeOK'
  BY DEF FeedTypeOK, Reset
<1> QED BY <1>1 DEF FeedCore, FeedInv, FeedIsOfItsAccount, PolledUnlessSilenced, Reset

LEMMA FirstPollHolds ==
  ASSUME FeedCore, Reset, account' \in Account, feedNetwork' \in FeedNetwork,
         closedOver' \in FeedStates, silenced' = FALSE,
         NEW p \in FeedPoll, NEW knew \in FeedStates, FirstPoll(p, Feed', knew)
  PROVE  FeedCore'
<1> DEFINE newPoll == [op |-> "first", of |-> Feed', knew |-> knew, raced |-> FALSE]
<1>1. account' # NoAccount /\ Feed' \in Feeds
  BY FeedAssumption DEF Feed, Feeds, Horizon
<1>2. newPoll \in Polls /\ newPoll.of = Feed'
  BY <1>1, PollIsTyped
<1>3. polls' = [Raced EXCEPT ![p] = newPoll] /\ feedState' = "loading" /\ polling' = TRUE
  BY DEF FirstPoll
<1> HIDE DEF newPoll
<1>4. Raced \in [FeedPoll -> Polls] /\ \A q \in FeedPoll : Raced[q] # NoPoll => Raced[q].raced
  BY RacedMarks DEF FeedCore, FeedInv, FeedTypeOK
<1>5. polls' \in [FeedPoll -> Polls] /\ PollsAreFresh' /\ PollingHasAccount'
  BY <1>1, <1>2, <1>3, <1>4 DEF PollsAreFresh, PollingHasAccount
<1> QED BY <1>3, <1>5, ResetHolds, FeedStatesAreTyped

(* A reset that stops the polling.                                         *)
LEMMA StopHolds ==
  ASSUME FeedCore, Reset, account' \in Account \cup {NoAccount}, feedNetwork' \in FeedNetwork,
         closedOver' \in FeedStates, polls' = Raced, feedState' = "idle", polling' = FALSE,
         silenced' \in BOOLEAN, account' # NoAccount => silenced'
  PROVE  FeedCore'
<1>1. Raced \in [FeedPoll -> Polls] /\ \A q \in FeedPoll : Raced[q] # NoPoll => Raced[q].raced
  BY RacedMarks DEF FeedCore, FeedInv, FeedTypeOK
<1>2. polls' \in [FeedPoll -> Polls] /\ PollsAreFresh' /\ PollingHasAccount'
  BY <1>1 DEF PollsAreFresh, PollingHasAccount
<1> QED BY <1>2, ResetHolds, FeedStatesAreTyped

LEMMA SwitchAccountHolds ==
  ASSUME FeedCore, NEW a \in Account \cup {NoAccount}, SwitchAccount(a) PROVE FeedCore'
<1>1. /\ account' = a /\ feedNetwork' = feedNetwork /\ feedNetwork \in FeedNetwork
      /\ closedOver' = feedState /\ feedState \in FeedStates /\ silenced' = FALSE /\ Reset
  BY DEF SwitchAccount, FeedCore, FeedInv, FeedTypeOK
<1>2. CASE a = NoAccount
  BY <1>1, <1>2, StopHolds DEF SwitchAccount
<1>3. CASE a # NoAccount
  <2>1. PICK p \in FeedPoll :
          FirstPoll(p, [account |-> a, horizon |-> Horizon(feedNetwork)], feedState)
    BY <1>3 DEF SwitchAccount
  <2>2. Feed' = [account |-> a, horizon |-> Horizon(feedNetwork)]
    BY <1>1 DEF Feed, Horizon
  <2> QED BY <1>1, <1>3, <2>1, <2>2, FirstPollHolds
<1> QED BY <1>2, <1>3

LEMMA SwitchFeedNetworkHolds ==
  ASSUME FeedCore, NEW n \in FeedNetwork, SwitchFeedNetwork(n) PROVE FeedCore'
<1>1. /\ account' = account /\ feedNetwork' = n /\ account \in Account \cup {NoAccount}
      /\ closedOver \in FeedStates /\ feedState \in FeedStates /\ Reset
  BY DEF SwitchFeedNetwork, FeedCore, FeedInv, FeedTypeOK
<1>2. CASE account = NoAccount \/ Horizon(n) = Horizon(feedNetwork)
  <2>1. /\ polls' = Raced /\ feedState' = "idle" /\ polling' = FALSE
        /\ silenced' = (account # NoAccount) /\ closedOver' = closedOver
    BY <1>2 DEF SwitchFeedNetwork
  <2> QED BY <1>1, <2>1, StopHolds
<1>3. CASE ~ (account = NoAccount \/ Horizon(n) = Horizon(feedNetwork))
  <2>1. /\ silenced' = FALSE /\ closedOver' = feedState
        /\ \E p \in FeedPoll : FirstPoll(p, [Feed EXCEPT !.horizon = Horizon(n)], feedState)
    BY <1>3 DEF SwitchFeedNetwork
  <2>2. Feed' = [Feed EXCEPT !.horizon = Horizon(n)]
    BY <1>1 DEF Feed, Horizon
  <2>3. PICK p \in FeedPoll : FirstPoll(p, Feed', feedState)
    BY <2>1, <2>2
  <2> QED BY <1>1, <1>3, <2>1, <2>3, FirstPollHolds
<1> QED BY <1>2, <1>3

LEMMA RefreshHolds == ASSUME FeedCore, NEW p \in FeedPoll, Refresh(p) PROVE FeedCore'
<1>1. /\ account' = account /\ feedNetwork' = feedNetwork /\ closedOver' = closedOver
      /\ account # NoAccount /\ Reset /\ silenced' = FALSE /\ FirstPoll(p, Feed, closedOver)
  BY DEF Refresh
<1>2. account \in Account /\ feedNetwork \in FeedNetwork /\ closedOver \in FeedStates
  BY <1>1 DEF FeedCore, FeedInv, FeedTypeOK
<1>3. Feed' = Feed
  BY <1>1 DEF Feed, Horizon
<1> QED BY <1>1, <1>2, <1>3, FirstPollHolds

LEMMA FeedTickHolds == ASSUME FeedCore, NEW p \in FeedPoll, Tick(p) PROVE FeedCore'
<1> DEFINE newPoll == [op |-> "next", of |-> Feed, knew |-> closedOver, raced |-> FALSE]
<1>1. /\ polls' = [polls EXCEPT ![p] = newPoll] /\ polling
      /\ UNCHANGED <<account, feedNetwork, shown, cursor, feedState, closedOver, polling,
                     mixed, silenced>>
  BY DEF Tick
<1>2. account # NoAccount /\ Feed \in Feeds
  BY <1>1, FeedIsTyped DEF FeedCore, FeedInv, PollingHasAccount
<1>3. newPoll \in Polls /\ newPoll.of = Feed
  BY <1>2, PollIsTyped DEF FeedCore, FeedInv, FeedTypeOK
<1> HIDE DEF newPoll
<1>4. Feed' = Feed
  BY <1>1 DEF Feed, Horizon
<1>5. polls' \in [FeedPoll -> Polls] /\ PollsAreFresh'
  BY <1>1, <1>2, <1>3, <1>4 DEF FeedCore, FeedInv, FeedTypeOK, PollsAreFresh
<1>6. FeedTypeOK'
  BY <1>1, <1>5 DEF FeedCore, FeedInv, FeedTypeOK
<1> QED
  BY <1>1, <1>4, <1>5, <1>6
     DEF FeedCore, FeedInv, FeedIsOfItsAccount, PolledUnlessSilenced, PollingHasAccount

(* The answers: the feed is the same, and one asked less is under way.     *)
LEMMA AnsweredHolds ==
  ASSUME FeedCore, NEW p \in FeedPoll, Answered(p),
         UNCHANGED <<account, feedNetwork>>
  PROVE  /\ polls' \in [FeedPoll -> Polls] /\ PollsAreFresh' /\ Feed' = Feed
<1>1. polls' = [polls EXCEPT ![p] = NoPoll] /\ polls \in [FeedPoll -> Polls]
  BY DEF Answered, FeedCore, FeedInv, FeedTypeOK
<1>2. Feed' = Feed
  BY DEF Feed, Horizon
<1>3. polls' \in [FeedPoll -> Polls]
  BY <1>1, FeedStatesAreTyped
<1> QED BY <1>1, <1>2, <1>3 DEF PollsAreFresh, FeedCore

LEMMA RecordsHold == ASSUME FeedCore, NEW p \in FeedPoll, Records(p) PROVE FeedCore'
<1>1. /\ polls[p] # NoPoll /\ Answered(p) /\ UNCHANGED <<account, feedNetwork>>
      /\ shown' = shown \cup {polls[p].of} /\ cursor' = {polls[p].of}
      /\ feedState' = "ok" /\ mixed' = (mixed \/ polls[p].raced)
      /\ UNCHANGED <<closedOver, polling, silenced>>
  BY DEF Records
<1>2. polls[p].of \in Feeds /\ polls[p].raced \in BOOLEAN
  BY <1>1, FeedStatesAreTyped DEF FeedCore, FeedInv, FeedTypeOK
<1>3. polls' \in [FeedPoll -> Polls] /\ PollsAreFresh' /\ Feed' = Feed
  BY <1>1, AnsweredHolds
<1>4. FeedTypeOK'
  BY <1>1, <1>2, <1>3, FeedStatesAreTyped DEF FeedCore, FeedInv, FeedTypeOK
<1>5. ~ polls[p].raced => account # NoAccount /\ polls[p].of = Feed
  BY <1>1 DEF FeedCore, PollsAreFresh
<1>6. FeedIsOfItsAccount' /\ PolledUnlessSilenced' /\ PollingHasAccount'
  BY <1>1, <1>3, <1>5
     DEF FeedCore, FeedInv, FeedIsOfItsAccount, PolledUnlessSilenced, PollingHasAccount
<1> QED BY <1>3, <1>4, <1>6 DEF FeedCore, FeedInv

(* An answer that only changes the state the user reads.                   *)
LEMMA StateChangeHolds ==
  ASSUME FeedCore, NEW p \in FeedPoll, Answered(p), feedState' \in FeedStates,
         UNCHANGED <<account, feedNetwork, shown, cursor, closedOver, polling, mixed, silenced>>
  PROVE  FeedCore'
<1>1. polls' \in [FeedPoll -> Polls] /\ PollsAreFresh' /\ Feed' = Feed
  BY AnsweredHolds
<1>2. FeedTypeOK'
  BY <1>1 DEF FeedCore, FeedInv, FeedTypeOK
<1> QED
  BY <1>1, <1>2
     DEF FeedCore, FeedInv, FeedIsOfItsAccount, PolledUnlessSilenced, PollingHasAccount

LEMMA NoRecordsHold == ASSUME FeedCore, NEW p \in FeedPoll, NoRecords(p) PROVE FeedCore'
<1>1. feedState' \in FeedStates
  BY FeedStatesAreTyped DEF NoRecords, FeedCore, FeedInv, FeedTypeOK
<1> QED BY <1>1, StateChangeHolds DEF NoRecords

LEMMA PollThrowsHolds == ASSUME FeedCore, NEW p \in FeedPoll, PollThrows(p) PROVE FeedCore'
<1>1. feedState' \in FeedStates
  BY FeedStatesAreTyped DEF PollThrows
<1> QED BY <1>1, StateChangeHolds DEF PollThrows

LEMMA MountFeedHolds == ASSUME FeedCore, NEW p \in FeedPoll, MountFeed(p) PROVE FeedCore'
<1> DEFINE newPoll == [op |-> "first", of |-> Feed, knew |-> "idle", raced |-> FALSE]
<1>1. /\ Reset /\ closedOver' = "idle" /\ polling' = (account # NoAccount)
      /\ feedState' = (IF account = NoAccount THEN "idle" ELSE "loading")
      /\ polls' = [q \in FeedPoll |-> IF q = p /\ account # NoAccount THEN newPoll ELSE NoPoll]
      /\ silenced' = FALSE /\ UNCHANGED <<account, feedNetwork>>
  BY DEF MountFeed, Reset
<1>2. /\ account \in Account \cup {NoAccount} /\ feedNetwork \in FeedNetwork
      /\ account # NoAccount => Feed \in Feeds
  BY FeedIsTyped DEF FeedCore, FeedInv, FeedTypeOK
<1>3. (account # NoAccount => newPoll \in Polls) /\ newPoll.of = Feed
  BY <1>2, PollIsTyped, FeedStatesAreTyped
<1> HIDE DEF newPoll
<1>4. Feed' = Feed
  BY <1>1 DEF Feed, Horizon
<1>5. polls' \in [FeedPoll -> Polls] /\ PollsAreFresh' /\ PollingHasAccount'
  BY <1>1, <1>3, <1>4, FeedStatesAreTyped DEF PollsAreFresh, PollingHasAccount
<1>6. /\ feedState' \in FeedStates /\ closedOver' \in FeedStates /\ polling' \in BOOLEAN
      /\ silenced' \in BOOLEAN
  BY <1>1, FeedStatesAreTyped
<1> QED BY <1>1, <1>2, <1>5, <1>6, ResetHolds

LEMMA FeedBegins == FeedInit => FeedCore
BY FeedStatesAreTyped
   DEF FeedInit, FeedCore, FeedInv, FeedTypeOK, FeedIsOfItsAccount, PolledUnlessSilenced,
       PollsAreFresh, PollingHasAccount

LEMMA FeedSteps == FeedCore /\ [FeedNext]_feedVars => FeedCore'
<1> SUFFICES ASSUME FeedCore, [FeedNext]_feedVars PROVE FeedCore'
  OBVIOUS
<1>1. CASE UNCHANGED feedVars
  BY <1>1 DEF feedVars, FeedCore, FeedInv, FeedTypeOK, FeedIsOfItsAccount,
              PolledUnlessSilenced, PollsAreFresh, PollingHasAccount, Feed, Horizon
<1> QED
  BY <1>1, SwitchAccountHolds, SwitchFeedNetworkHolds, FeedTickHolds, RefreshHolds,
     RecordsHold, NoRecordsHold, PollThrowsHolds, MountFeedHolds DEF FeedNext

(* The feed lists only what is of the connected account on the network     *)
(* that is shown, unless a poll that outlived a reset has been merged; and *)
(* it is polled, unless a switch within a Horizon has stopped it.          *)
THEOREM FeedHolds == FeedSpec => []FeedInv
<1>1. FeedCore => FeedInv
  BY DEF FeedCore
<1> QED BY FeedBegins, FeedSteps, <1>1, PTL DEF FeedSpec

-----------------------------------------------------------------------------
(* AccountPage for any number of wallets, networks, fetches and buttons.   *)
(* Unless fetches overlapped, at most one is under way and it is of what   *)
(* the page shows.                                                         *)
OneFetch ==
  ~ fetchesOverlapped => \A f, g \in AccFetch : ~ NoFetch(f) /\ ~ NoFetch(g) => f = g
FetchIsCurrent ==
  accWallet # NoAccountYet /\ ~ fetchesOverlapped =>
    \A f \in AccFetch : NoFetch(f) \/ accFetches[f] = AccountOf(accWallet, accNetwork)


Fetched == {NoAccountData} \cup [address : Wallet, network : AccNetwork]

FetchCore ==
  /\ accWallet \in Wallet \cup {NoAccountYet} /\ accNetwork \in AccNetwork
  /\ accLoading \in BOOLEAN /\ fetchesOverlapped \in BOOLEAN
  /\ accountData \in Fetched /\ accFetches \in [AccFetch -> Fetched]
  /\ accLoading => \E f \in AccFetch : ~ NoFetch(f)
  /\ AccountIsCurrentUnlessRaced
  /\ OneFetch /\ FetchIsCurrent

(* Of one funding: while it asks or polls its mount is there, or was left, *)
(* or its interval was lost; pollRef refers to the interval that was not   *)
(* lost; it times out after its last poll, and is over for a reason.       *)
ButtonType ==
  [at : {"unused", "mounted", "left"}, dialog : BOOLEAN, isLoading : BOOLEAN,
   isPolling : BOOLEAN, pollRef : Funding \cup {NoFunding}]
Phases == {"unused", "requesting", "polling", "over"}
FundingType ==
  [of : Button \cup {Nobody}, phase : Phases, attempts : 0 .. PollMax, flying : 0 .. MaxFlying,
   said : SUBSET {"refused", "funded", "timedOut"},
   leftEarly : BOOLEAN, lost : BOOLEAN, cutOff : BOOLEAN]

FundingFine(f, r, at, ref) ==
  /\ r.phase # "unused" => r.of \in Button
  /\ r.of \in Button => at # "unused"
  /\ r.phase = "requesting" => at = "mounted" \/ r.leftEarly
  /\ r.phase = "polling" => at = "mounted" \/ r.leftEarly \/ r.lost
  /\ r.phase = "polling" => ref = f \/ r.lost
  /\ r.phase = "over" => r.said # {} \/ r.cutOff \/ at # "mounted"
  /\ "timedOut" \in r.said => r.attempts = PollMax
FundingHolds(f) ==
  FundingFine(f, fundings[f], buttons[fundings[f].of].at, buttons[fundings[f].of].pollRef)

OneMounted == \A b, c \in Button : Mounted(b) /\ Mounted(c) => b = c
RefIsOfTheMount == \A b \in Button, f \in Funding : buttons[b].pollRef = f => fundings[f].of = b

ButtonCore ==
  /\ buttons \in [Button -> ButtonType] /\ fundings \in [Funding -> FundingType]
  /\ \A f \in Funding : FundingHolds(f)
  /\ \A b \in Button : buttons[b].dialog => Mounted(b)
  /\ OneMounted /\ RefIsOfTheMount

AccountCore == FetchCore /\ ButtonCore

-----------------------------------------------------------------------------
(* The fetches of the dashboard.                                           *)

LEMMA FetchTypes ==
  /\ NoAccountData \in Fetched
  /\ \A a \in Wallet, n \in AccNetwork :
       AccountOf(a, n) \in Fetched /\ AccountOf(a, n) # NoAccountData
<1>1. NoAccountData.address = NoAccountYet
  BY DEF NoAccountData
<1>2. \A a \in Wallet, n \in AccNetwork : AccountOf(a, n).address = a
  BY DEF AccountOf
<1> QED BY <1>1, <1>2, AccountAssumption DEF Fetched, AccountOf

LEMMA BeginsFetchHolds ==
  ASSUME FetchCore, NEW f \in AccFetch, NEW a \in Wallet, NEW n \in AccNetwork,
         BeginsFetch(f, a, n), accWallet' = a, accNetwork' = n, UNCHANGED accountData
  PROVE  FetchCore'
<1>1. /\ accFetches' = [accFetches EXCEPT ![f] = AccountOf(a, n)]
      /\ fetchesOverlapped' = (\E g \in AccFetch : ~ NoFetch(g))
      /\ accLoading' = TRUE
  BY DEF BeginsFetch, ShowsLoading
<1>2. accFetches \in [AccFetch -> Fetched] /\ accountData' \in Fetched
  BY DEF FetchCore
<1>3. /\ accFetches' \in [AccFetch -> Fetched]
      /\ accFetches'[f] = AccountOf(a, n) /\ AccountOf(a, n) # NoAccountData
      /\ \A g \in AccFetch \ {f} : accFetches'[g] = accFetches[g]
  BY <1>1, <1>2, FetchTypes
<1>4. ~ fetchesOverlapped' => \A g \in AccFetch \ {f} : accFetches'[g] = NoAccountData
  BY <1>1, <1>3 DEF NoFetch
<1>5. OneFetch' /\ FetchIsCurrent' /\ \E g \in AccFetch : ~ NoFetch(g)'
  BY <1>3, <1>4 DEF OneFetch, FetchIsCurrent, NoFetch
<1>6. AccountIsCurrentUnlessRaced'
  BY <1>1 DEF AccountIsCurrentUnlessRaced
<1>7. fetchesOverlapped' \in BOOLEAN
  BY <1>1
<1> QED BY <1>1, <1>2, <1>3, <1>5, <1>6, <1>7 DEF FetchCore

LEMMA SwitchWalletHolds ==
  ASSUME FetchCore, NEW f \in AccFetch, NEW a \in Wallet \cup {NoAccountYet}, SwitchWallet(f, a)
  PROVE  FetchCore'
<1>1. CASE a = NoAccountYet
  <2>1. /\ accWallet' = NoAccountYet
        /\ UNCHANGED <<accNetwork, accountData, accLoading, accFetches, fetchesOverlapped>>
    BY <1>1 DEF SwitchWallet
  <2> QED
    BY <2>1 DEF FetchCore, AccountIsCurrentUnlessRaced, OneFetch, FetchIsCurrent, NoFetch
<1>2. CASE a # NoAccountYet
  <2>1. /\ accWallet' = a /\ accNetwork' = accNetwork /\ UNCHANGED accountData
        /\ BeginsFetch(f, a, accNetwork) /\ a \in Wallet /\ accNetwork \in AccNetwork
    BY <1>2 DEF SwitchWallet, FetchCore
  <2> QED BY <2>1, BeginsFetchHolds
<1> QED BY <1>1, <1>2

LEMMA SwitchAccNetworkHolds ==
  ASSUME FetchCore, NEW f \in AccFetch, NEW n \in AccNetwork, SwitchAccNetwork(f, n)
  PROVE  FetchCore'
<1>1. CASE accWallet = NoAccountYet
  <2>1. /\ accNetwork' = n /\ accWallet' = NoAccountYet
        /\ UNCHANGED <<accountData, accLoading, accFetches, fetchesOverlapped>>
    BY <1>1 DEF SwitchAccNetwork
  <2> QED
    BY <1>1, <2>1 DEF FetchCore, AccountIsCurrentUnlessRaced, OneFetch, FetchIsCurrent, NoFetch
<1>2. CASE accWallet # NoAccountYet
  <2>1. /\ accNetwork' = n /\ accWallet' = accWallet /\ UNCHANGED accountData
        /\ BeginsFetch(f, accWallet, n) /\ accWallet \in Wallet
    BY <1>2 DEF SwitchAccNetwork, FetchCore
  <2> QED BY <2>1, BeginsFetchHolds
<1> QED BY <1>1, <1>2

LEMMA RefreshAccountHolds ==
  ASSUME FetchCore, NEW f \in AccFetch, RefreshAccount(f) PROVE FetchCore'
<1>1. /\ accNetwork' = accNetwork /\ accWallet' = accWallet /\ UNCHANGED accountData
      /\ BeginsFetch(f, accWallet, accNetwork) /\ accWallet \in Wallet
      /\ accNetwork \in AccNetwork
  BY DEF RefreshAccount, FetchCore
<1> QED BY <1>1, BeginsFetchHolds

LEMMA AccountAnsweredHolds ==
  ASSUME FetchCore, NEW f \in AccFetch, NEW found \in BOOLEAN, AccountAnswered(f, found)
  PROVE  FetchCore'
<1>1. /\ ~ NoFetch(f) /\ accFetches' = [accFetches EXCEPT ![f] = NoAccountData]
      /\ accountData' = (IF found THEN accFetches[f] ELSE NoAccountData)
      /\ accLoading' = FALSE
      /\ UNCHANGED <<accWallet, accNetwork, fetchesOverlapped>>
  BY DEF AccountAnswered
<1>2. /\ accFetches' \in [AccFetch -> Fetched] /\ accountData' \in Fetched
      /\ \A g \in AccFetch : accFetches'[g] \in {accFetches[g], NoAccountData}
  BY <1>1, FetchTypes DEF FetchCore
<1>3. OneFetch' /\ FetchIsCurrent'
  BY <1>1, <1>2 DEF FetchCore, OneFetch, FetchIsCurrent, NoFetch
<1>4. AccountIsCurrentUnlessRaced'
  BY <1>1 DEF FetchCore, FetchIsCurrent, NoFetch, AccountIsCurrentUnlessRaced
<1> QED BY <1>1, <1>2, <1>3, <1>4 DEF FetchCore

LEMMA FetchRests == FetchCore /\ UNCHANGED fetchVars => FetchCore'
BY DEF fetchVars, FetchCore, AccountIsCurrentUnlessRaced, OneFetch, FetchIsCurrent, NoFetch

-----------------------------------------------------------------------------
(* The buttons.                                                            *)

LEMMA NoRequestHolds ==
  /\ NoRequest \in FundingType /\ NoRequest.phase = "unused" /\ NoRequest.of = Nobody
  /\ NoRequest.said = {} /\ NoRequest.flying = 0
BY AccountAssumption DEF NoRequest, FundingType, Phases

LEMMA ConfirmedHolds ==
  ASSUME NEW b \in Button
  PROVE  /\ Confirmed(b) \in FundingType /\ Confirmed(b).of = b
         /\ Confirmed(b).phase = "requesting" /\ Confirmed(b).said = {}
<1>1. Confirmed(b) = [NoRequest EXCEPT !.of = b, !.phase = "requesting"]
  BY DEF Confirmed
<1> QED BY <1>1, NoRequestHolds DEF FundingType, Phases

LEMMA NewButtonHolds ==
  /\ NewButton \in ButtonType /\ NewButton.at = "unused"
  /\ NewButton.pollRef = NoFunding /\ ~ NewButton.dialog
BY DEF NewButton, ButtonType

(* What a step leaves of a mount.                                          *)
MountKept(b) == buttons'[b].at = buttons[b].at /\ buttons'[b].pollRef = buttons[b].pollRef

LEMMA MountHolds ==
  ASSUME ButtonCore, NEW b \in Button, MountButton(b) PROVE ButtonCore'
<1>1. /\ buttons' = [buttons EXCEPT ![b].at = "mounted"] /\ fundings' = fundings
      /\ buttons[b].at = "unused" /\ \A c \in Button : ~ Mounted(c)
      /\ buttons \in [Button -> ButtonType]
  BY DEF MountButton, ButtonCore
<1>2. /\ buttons' \in [Button -> ButtonType] /\ buttons'[b].at = "mounted"
      /\ \A c \in Button \ {b} : buttons'[c] = buttons[c]
      /\ \A c \in Button : /\ buttons'[c].pollRef = buttons[c].pollRef
                           /\ buttons'[c].dialog = buttons[c].dialog
  BY <1>1 DEF ButtonType
<1>3. ASSUME NEW f \in Funding PROVE FundingHolds(f)'
  <2>1. FundingHolds(f)
    BY DEF ButtonCore
  <2> QED BY <1>1, <1>2, <2>1 DEF FundingHolds, FundingFine, Mounted
<1> QED BY <1>1, <1>2, <1>3 DEF ButtonCore, OneMounted, RefIsOfTheMount, Mounted

LEMMA UnmountHolds ==
  ASSUME ButtonCore, NEW b \in Button, UnmountButton(b) PROVE ButtonCore'
<1>1. /\ Mounted(b) /\ fundings' = [f \in Funding |-> AfterLeaving(b, f)]
      /\ buttons \in [Button -> ButtonType] /\ fundings \in [Funding -> FundingType]
      /\ buttons' = [buttons EXCEPT ![b] = [NewButton EXCEPT !.at = "left",
                                                             !.pollRef = buttons[b].pollRef]]
  BY DEF UnmountButton, ButtonCore
<1>2. buttons[b].pollRef \in Funding \cup {NoFunding}
  BY <1>1 DEF ButtonType
<1>3. /\ buttons' \in [Button -> ButtonType] /\ buttons'[b].at = "left"
      /\ ~ buttons'[b].dialog /\ buttons'[b].pollRef = buttons[b].pollRef
      /\ \A c \in Button \ {b} : buttons'[c] = buttons[c]
  BY <1>1, <1>2 DEF ButtonType, NewButton
<1>4. ASSUME NEW f \in Funding
      PROVE  /\ fundings'[f] \in FundingType
             /\ fundings'[f].of = fundings[f].of /\ fundings'[f].said = fundings[f].said
             /\ fundings'[f].attempts = fundings[f].attempts
             /\ fundings'[f].lost <=> fundings[f].lost
             /\ fundings'[f].cutOff <=> fundings[f].cutOff
             /\ fundings'[f].phase = IF Watched(b, f) THEN "over" ELSE fundings[f].phase
             /\ fundings'[f].leftEarly <=> fundings[f].leftEarly \/ AskedAtLeaving(b, f)
  <2> DEFINE early == fundings[f].leftEarly \/ AskedAtLeaving(b, f)
             next == IF Watched(b, f) THEN "over" ELSE fundings[f].phase
  <2>1. fundings[f] \in FundingType /\ early \in BOOLEAN /\ next \in Phases
    BY <1>1 DEF FundingType, AskedAtLeaving, Phases
  <2>a. fundings'[f] = AfterLeaving(b, f)
    BY <1>1
  <2>2. fundings'[f] = [fundings[f] EXCEPT !.leftEarly = early, !.phase = next]
    BY <2>a DEF AfterLeaving
  <2> HIDE DEF early, next
  <2>3. /\ fundings'[f] \in FundingType
        /\ fundings'[f].of = fundings[f].of /\ fundings'[f].said = fundings[f].said
        /\ fundings'[f].attempts = fundings[f].attempts
        /\ fundings'[f].lost = fundings[f].lost /\ fundings'[f].cutOff = fundings[f].cutOff
        /\ fundings'[f].phase = next /\ fundings'[f].leftEarly = early
    BY <2>1, <2>2 DEF FundingType
  <2> QED BY <2>3 DEF early, next
<1>5. ASSUME NEW f \in Funding PROVE FundingHolds(f)'
  <2>1. FundingHolds(f) /\ fundings[f] \in FundingType
    BY <1>1 DEF ButtonCore
  <2>2. fundings[f].of = b => buttons'[fundings[f].of].at = "left"
    BY <1>3
  <2>3. fundings[f].of \in Button /\ fundings[f].of # b =>
          buttons'[fundings[f].of] = buttons[fundings[f].of]
    BY <1>3
  <2> DEFINE r == fundings[f]
             q == fundings'[f]
  <2>4. /\ q.of = r.of /\ q.said = r.said /\ q.attempts = r.attempts
        /\ r.lost => q.lost
        /\ r.cutOff => q.cutOff
        /\ r.leftEarly => q.leftEarly
        /\ q.phase = "over" => r.phase = "over" \/ Watched(b, f)
        /\ q.phase \in {"over", r.phase}
        /\ q.phase = "requesting" /\ r.of = b => q.leftEarly
        /\ q.phase = "polling" => ~ Watched(b, f)
    BY <1>4 DEF AskedAtLeaving, Watched, IntervalRuns
  <2>5. Watched(b, f) => r.of = b /\ r.phase = "polling"
    BY DEF ButtonCore, RefIsOfTheMount, Watched, IntervalRuns
  <2>6. q.phase = "polling" => r.phase = "polling" /\ (r.of = b => buttons[b].pollRef # f)
    BY <2>4 DEF Watched, IntervalRuns
  <2>7. /\ r.of = b => buttons'[r.of].at = "left"
        /\ r.of \in Button /\ r.of # b => buttons'[r.of] = buttons[r.of]
    BY <2>2, <2>3
  <2>8. FundingFine(f, r, buttons[r.of].at, buttons[r.of].pollRef)
    BY <2>1 DEF FundingHolds
  <2> HIDE DEF r, q
  <2>9. ASSUME r.of = b PROVE FundingFine(f, q, buttons'[q.of].at, buttons'[q.of].pollRef)
    BY <2>4, <2>6, <2>7, <2>8, <2>9 DEF FundingFine
  <2>10. ASSUME r.of # b PROVE FundingFine(f, q, buttons'[q.of].at, buttons'[q.of].pollRef)
    <3>1. FundingFine(f, q, buttons[r.of].at, buttons[r.of].pollRef)
      BY <2>4, <2>5, <2>8, <2>10 DEF FundingFine
    <3>2. CASE r.of \in Button
      BY <2>4, <2>7, <2>10, <3>1, <3>2 DEF FundingFine
    <3>3. CASE r.of \notin Button
      BY <2>4, <2>5, <2>8, <2>10, <3>1, <3>3 DEF FundingFine
    <3> QED BY <3>2, <3>3
  <2> QED BY <2>9, <2>10 DEF FundingHolds, q
<1>6. OneMounted' /\ \A c \in Button : buttons'[c].dialog => Mounted(c)'
  BY <1>3 DEF ButtonCore, OneMounted, Mounted
<1>7. RefIsOfTheMount'
  BY <1>3, <1>4 DEF ButtonCore, RefIsOfTheMount
<1>8. fundings' \in [Funding -> FundingType]
  BY <1>1, <1>4
<1> QED BY <1>3, <1>5, <1>6, <1>7, <1>8 DEF ButtonCore

(* Steps that leave the mounts but for what they show.                     *)
LEMMA ShownHolds ==
  ASSUME ButtonCore, fundings' = fundings, buttons' \in [Button -> ButtonType],
         \A b \in Button : MountKept(b) /\ (buttons'[b].dialog => Mounted(b))
  PROVE  ButtonCore'
<1>1. ASSUME NEW f \in Funding PROVE FundingHolds(f)'
  <2>1. FundingHolds(f)
    BY DEF ButtonCore
  <2> QED BY <2>1 DEF FundingHolds, FundingFine, Mounted, MountKept
<1> QED BY <1>1 DEF ButtonCore, OneMounted, RefIsOfTheMount, Mounted, MountKept

LEMMA DialogHolds ==
  ASSUME ButtonCore, NEW b \in Button, OpenDialog(b) \/ CloseDialog(b) PROVE ButtonCore'
<1>1. PICK open \in BOOLEAN : /\ buttons' = [buttons EXCEPT ![b].dialog = open]
                              /\ open => Mounted(b)
                              /\ fundings' = fundings
  BY DEF OpenDialog, CloseDialog
<1>2. /\ buttons' \in [Button -> ButtonType] /\ buttons'[b].dialog = open
      /\ \A c \in Button \ {b} : buttons'[c] = buttons[c]
      /\ \A c \in Button : MountKept(c)
  BY <1>1 DEF ButtonCore, ButtonType, MountKept
<1> QED BY <1>1, <1>2, ShownHolds DEF ButtonCore

LEMMA FundAccountHolds ==
  ASSUME ButtonCore, NEW b \in Button, NEW f \in Funding, FundAccount(b, f) PROVE ButtonCore'
<1>1. /\ buttons' = [buttons EXCEPT ![b].isLoading = TRUE]
      /\ fundings' = [fundings EXCEPT ![f] = Confirmed(b)]
      /\ Mounted(b) /\ fundings[f] = NoRequest
      /\ buttons \in [Button -> ButtonType] /\ fundings \in [Funding -> FundingType]
  BY DEF FundAccount, ButtonCore
<1>2. /\ buttons' \in [Button -> ButtonType]
      /\ \A c \in Button : MountKept(c) /\ buttons'[c].dialog = buttons[c].dialog
  BY <1>1 DEF ButtonType, MountKept
<1>3. /\ fundings' \in [Funding -> FundingType] /\ fundings'[f] = Confirmed(b)
      /\ \A g \in Funding \ {f} : fundings'[g] = fundings[g]
  BY <1>1, ConfirmedHolds
<1>4. FundingHolds(f)'
  BY <1>1, <1>2, <1>3, ConfirmedHolds DEF FundingHolds, FundingFine, Mounted, MountKept
<1>5. ASSUME NEW g \in Funding, g # f PROVE FundingHolds(g)'
  <2>1. FundingHolds(g)
    BY DEF ButtonCore
  <2> QED BY <1>2, <1>3, <1>5, <2>1 DEF FundingHolds, FundingFine, Mounted, MountKept
<1>6. \A c \in Button : buttons[c].pollRef # f
  BY <1>1, NoRequestHolds, AccountAssumption DEF ButtonCore, RefIsOfTheMount
<1>7. RefIsOfTheMount'
  BY <1>2, <1>3, <1>6 DEF ButtonCore, RefIsOfTheMount, MountKept
<1> QED BY <1>2, <1>3, <1>4, <1>5, <1>7 DEF ButtonCore, OneMounted, Mounted, MountKept

LEMMA FundAcceptedHolds ==
  ASSUME ButtonCore, NEW b \in Button, NEW f \in Funding, FundAccepted(b, f) PROVE ButtonCore'
<1> DEFINE Then(g) == IF g = f THEN [fundings[g] EXCEPT !.phase = "polling"]
                      ELSE [fundings[g] EXCEPT !.lost = @ \/ Watched(b, g)]
<1>1. /\ buttons' = [buttons EXCEPT ![b].isLoading = FALSE, ![b].isPolling = Mounted(b),
                                   ![b].pollRef = f]
      /\ fundings' = [g \in Funding |-> Then(g)]
      /\ fundings[f].of = b /\ fundings[f].phase = "requesting"
      /\ buttons \in [Button -> ButtonType] /\ fundings \in [Funding -> FundingType]
  BY DEF FundAccepted, ButtonCore, RefersTo, Mounted
<1> DEFINE p == Mounted(b)
<1>c. p \in BOOLEAN
  BY DEF Mounted
<1>a. buttons' = [buttons EXCEPT ![b].isLoading = FALSE, ![b].isPolling = p, ![b].pollRef = f]
  BY <1>1
<1> HIDE DEF p
<1>b. buttons \in [Button -> ButtonType]
  BY <1>1
<1>2. /\ buttons' \in [Button -> ButtonType] /\ buttons'[b].pollRef = f
      /\ buttons'[b].at = buttons[b].at /\ buttons'[b].dialog = buttons[b].dialog
      /\ \A c \in Button \ {b} : buttons'[c] = buttons[c]
  BY <1>a, <1>b, <1>c DEF ButtonType
<1>3. /\ fundings'[f] \in FundingType /\ fundings'[f].of = b
      /\ fundings'[f].phase = "polling" /\ fundings'[f].said = fundings[f].said
      /\ fundings'[f].attempts = fundings[f].attempts
      /\ fundings'[f].leftEarly = fundings[f].leftEarly
  BY <1>1 DEF FundingType, Phases
<1>4. ASSUME NEW g \in Funding, g # f
      PROVE  /\ fundings'[g] \in FundingType /\ fundings'[g].of = fundings[g].of
             /\ fundings'[g].phase = fundings[g].phase /\ fundings'[g].said = fundings[g].said
             /\ fundings'[g].attempts = fundings[g].attempts
             /\ fundings'[g].leftEarly <=> fundings[g].leftEarly
             /\ fundings'[g].cutOff <=> fundings[g].cutOff
             /\ fundings'[g].lost <=> fundings[g].lost \/ Watched(b, g)
  <2> DEFINE lost == fundings[g].lost \/ Watched(b, g)
  <2>1. fundings[g] \in FundingType /\ lost \in BOOLEAN
    BY <1>1 DEF FundingType, Watched, IntervalRuns
  <2>2. fundings'[g] = [fundings[g] EXCEPT !.lost = lost]
    BY <1>1, <1>4
  <2> HIDE DEF lost
  <2>3. /\ fundings'[g] \in FundingType /\ fundings'[g].of = fundings[g].of
        /\ fundings'[g].phase = fundings[g].phase /\ fundings'[g].said = fundings[g].said
        /\ fundings'[g].attempts = fundings[g].attempts
        /\ fundings'[g].leftEarly = fundings[g].leftEarly
        /\ fundings'[g].cutOff = fundings[g].cutOff /\ fundings'[g].lost = lost
    BY <2>1, <2>2 DEF FundingType
  <2> QED BY <2>3 DEF lost
<1>5. FundingHolds(f)'
  <2>1. FundingHolds(f)
    BY DEF ButtonCore
  <2> QED BY <1>1, <1>2, <1>3, <2>1 DEF FundingHolds, FundingFine, Mounted
<1>6. ASSUME NEW g \in Funding, g # f PROVE FundingHolds(g)'
  <2>1. FundingHolds(g)
    BY DEF ButtonCore
  <2>2. fundings[g].of \in Button =>
          /\ buttons'[fundings[g].of].at = buttons[fundings[g].of].at
          /\ fundings[g].of # b => buttons'[fundings[g].of] = buttons[fundings[g].of]
    BY <1>2
  <2> QED BY <1>4, <1>6, <2>1, <2>2 DEF FundingHolds, FundingFine, Mounted, Watched, IntervalRuns
<1>7. OneMounted' /\ \A c \in Button : buttons'[c].dialog => Mounted(c)'
  BY <1>2 DEF ButtonCore, OneMounted, Mounted
<1>8. RefIsOfTheMount'
  BY <1>1, <1>2, <1>3, <1>4 DEF ButtonCore, RefIsOfTheMount
<1>9. fundings' \in [Funding -> FundingType]
  BY <1>1, <1>3, <1>4
<1> QED BY <1>2, <1>5, <1>6, <1>7, <1>8, <1>9 DEF ButtonCore

LEMMA FundRejectedHolds ==
  ASSUME ButtonCore, NEW b \in Button, NEW f \in Funding, FundRejected(b, f) PROVE ButtonCore'
<1>1. /\ buttons' = [buttons EXCEPT ![b].isLoading = FALSE]
      /\ fundings' = [fundings EXCEPT ![f].phase = "over", ![f].said = {"refused"}]
      /\ fundings[f].of = b
      /\ fundings \in [Funding -> FundingType]
  BY DEF FundRejected, ButtonCore
<1>a. /\ buttons' = [buttons EXCEPT ![b].isLoading = FALSE]
      /\ buttons \in [Button -> ButtonType]
  BY DEF FundRejected, ButtonCore
<1>2. /\ buttons' \in [Button -> ButtonType]
      /\ \A c \in Button : MountKept(c) /\ buttons'[c].dialog = buttons[c].dialog
  BY <1>a DEF ButtonType, MountKept
<1>3. /\ fundings' \in [Funding -> FundingType] /\ fundings'[f].of = b
      /\ fundings'[f].phase = "over" /\ fundings'[f].said = {"refused"}
      /\ \A g \in Funding \ {f} : fundings'[g] = fundings[g]
  <2> DEFINE q == [fundings[f] EXCEPT !.phase = "over", !.said = {"refused"}]
  <2>1. /\ q \in FundingType /\ q.of = b /\ q.phase = "over" /\ q.said = {"refused"}
    BY <1>1 DEF FundingType, Phases
  <2>2. fundings' = [fundings EXCEPT ![f] = q]
    BY <1>1
  <2> HIDE DEF q
  <2> QED BY <1>1, <2>1, <2>2
<1>4. FundingHolds(f)'
  <2>1. FundingHolds(f)
    BY DEF ButtonCore
  <2> QED BY <1>1, <1>2, <1>3, <2>1 DEF FundingHolds, FundingFine, Mounted, MountKept
<1>5. ASSUME NEW g \in Funding, g # f PROVE FundingHolds(g)'
  <2>1. FundingHolds(g)
    BY DEF ButtonCore
  <2> QED BY <1>2, <1>3, <1>5, <2>1 DEF FundingHolds, FundingFine, Mounted, MountKept
<1>6. RefIsOfTheMount'
  BY <1>1, <1>2, <1>3 DEF ButtonCore, RefIsOfTheMount, MountKept
<1> QED BY <1>2, <1>3, <1>4, <1>5, <1>6 DEF ButtonCore, OneMounted, Mounted, MountKept

LEMMA PollBalanceHolds ==
  ASSUME ButtonCore, NEW f \in Funding, PollBalance(f) PROVE ButtonCore'
<1> DEFINE n == IF fundings[f].attempts < PollMax THEN fundings[f].attempts + 1
                ELSE fundings[f].attempts
<1>1. /\ buttons' = buttons /\ fundings[f] \in FundingType
      /\ fundings[f].flying < MaxFlying /\ fundings \in [Funding -> FundingType]
      /\ fundings' = [fundings EXCEPT ![f].flying = fundings[f].flying + 1, ![f].attempts = n]
  BY DEF PollBalance, ButtonCore
<1>2. /\ fundings[f].flying + 1 \in 0 .. MaxFlying /\ n \in 0 .. PollMax
      /\ fundings[f].attempts = PollMax => n = PollMax
  BY <1>1, AccountAssumption DEF FundingType
<1> HIDE DEF n
<1>3. /\ fundings' \in [Funding -> FundingType] /\ fundings'[f].attempts = n
      /\ fundings'[f].of = fundings[f].of /\ fundings'[f].said = fundings[f].said
      /\ fundings'[f].phase = fundings[f].phase
      /\ fundings'[f].leftEarly = fundings[f].leftEarly
      /\ fundings'[f].lost = fundings[f].lost /\ fundings'[f].cutOff = fundings[f].cutOff
      /\ \A g \in Funding \ {f} : fundings'[g] = fundings[g]
  BY <1>1, <1>2 DEF FundingType
<1>4. ASSUME NEW g \in Funding PROVE FundingHolds(g)'
  <2>1. FundingHolds(g)
    BY DEF ButtonCore
  <2> QED BY <1>1, <1>2, <1>3, <2>1 DEF FundingHolds, FundingFine, Mounted
<1>5. RefIsOfTheMount'
  BY <1>1, <1>3 DEF ButtonCore, RefIsOfTheMount
<1> QED BY <1>1, <1>3, <1>4, <1>5 DEF ButtonCore, OneMounted, Mounted

(* A poll is answered: what it tells ends the polling that pollRef refers  *)
(* to, its own or another's, and of a time-out only the last poll tells.   *)
LEMMA BalanceToldHolds ==
  ASSUME ButtonCore, NEW b \in Button, NEW f \in Funding, NEW funded \in BOOLEAN,
         BalanceTold(b, f, funded)
  PROVE  ButtonCore'
<1> DEFINE tells == TellsOf(f, funded)
           EndsIt(g) == tells # {} /\ Watched(b, g)
<1>1. /\ buttons' = [buttons EXCEPT ![b].isPolling = @ /\ tells = {}]
      /\ fundings' = [g \in Funding |-> FundingTold(b, f, tells, g)]
      /\ fundings[f].of = b /\ fundings[f].flying > 0
      /\ buttons \in [Button -> ButtonType] /\ fundings \in [Funding -> FundingType]
  BY DEF BalanceTold, ButtonCore
<1>2. /\ tells \in SUBSET {"funded", "timedOut"}
      /\ "timedOut" \in tells => fundings[f].attempts = PollMax
  <2>1. fundings[f].attempts \in 0 .. PollMax
    BY <1>1 DEF FundingType
  <2>2. "timedOut" \in tells => Exhausted(fundings[f].attempts)
    BY DEF TellsOf
  <2>3. Exhausted(fundings[f].attempts) => fundings[f].attempts = PollMax
    BY <2>1, AccountAssumption DEF Exhausted
  <2>4. tells \in SUBSET {"funded", "timedOut"}
    BY DEF TellsOf
  <2> QED BY <2>2, <2>3, <2>4
<1> HIDE DEF tells
<1>3. /\ buttons' \in [Button -> ButtonType]
      /\ \A c \in Button : MountKept(c) /\ buttons'[c].dialog = buttons[c].dialog
  <2>1. PICK p \in BOOLEAN : buttons' = [buttons EXCEPT ![b].isPolling = p]
    BY <1>1
  <2> QED BY <1>1, <2>1 DEF ButtonType, MountKept
<1>4. ASSUME NEW g \in Funding
      PROVE  /\ fundings'[g] \in FundingType /\ fundings'[g].of = fundings[g].of
             /\ fundings'[g].attempts = fundings[g].attempts
             /\ fundings'[g].leftEarly <=> fundings[g].leftEarly
             /\ fundings'[g].lost <=> fundings[g].lost
             /\ fundings'[g].phase = IF EndsIt(g) THEN "over" ELSE fundings[g].phase
             /\ fundings'[g].said = IF g = f THEN fundings[g].said \cup tells ELSE fundings[g].said
             /\ fundings'[g].cutOff <=> fundings[g].cutOff \/ (EndsIt(g) /\ g # f)
  <2> DEFINE r == fundings[g]
             phase == IF EndsIt(g) THEN "over" ELSE r.phase
             flying == IF g = f THEN r.flying - 1 ELSE r.flying
             said == IF g = f THEN r.said \cup tells ELSE r.said
             cut == r.cutOff \/ (EndsIt(g) /\ g # f)
  <2>1. r \in FundingType
    BY <1>1
  <2>2. phase \in Phases /\ cut \in BOOLEAN
    BY <2>1 DEF FundingType, Phases, Watched, IntervalRuns
  <2>3. flying \in 0 .. MaxFlying
    BY <1>1, <2>1, AccountAssumption DEF FundingType
  <2>4. said \in SUBSET {"refused", "funded", "timedOut"}
    BY <1>2, <2>1 DEF FundingType
  <2>5. fundings'[g] = [r EXCEPT !.phase = phase, !.flying = flying, !.said = said,
                                 !.cutOff = cut]
    <3>1. fundings'[g] = FundingTold(b, f, tells, g)
      BY <1>1
    <3> QED BY <3>1 DEF FundingTold
  <2> HIDE DEF r, phase, flying, said, cut
  <2>6. /\ fundings'[g] \in FundingType /\ fundings'[g].of = r.of
        /\ fundings'[g].attempts = r.attempts
        /\ fundings'[g].leftEarly = r.leftEarly /\ fundings'[g].lost = r.lost
        /\ fundings'[g].phase = phase /\ fundings'[g].said = said
        /\ fundings'[g].cutOff = cut
    BY <2>1, <2>2, <2>3, <2>4, <2>5 DEF FundingType
  <2> QED BY <2>6 DEF r, phase, said, cut
<1>5. ASSUME NEW g \in Funding PROVE FundingHolds(g)'
  <2>1. FundingHolds(g)
    BY DEF ButtonCore
  <2>2. fundings[g].of \in Button =>
          /\ buttons'[fundings[g].of].at = buttons[fundings[g].of].at
          /\ buttons'[fundings[g].of].pollRef = buttons[fundings[g].of].pollRef
    BY <1>3 DEF MountKept
  <2>3. /\ fundings'[g].phase \in {"over", fundings[g].phase}
        /\ fundings'[g].phase = "over" =>
             fundings[g].phase = "over" \/ (fundings[g].phase = "polling" /\ EndsIt(g))
        /\ "timedOut" \in fundings'[g].said =>
             "timedOut" \in fundings[g].said \/ (g = f /\ "timedOut" \in tells)
        /\ fundings[g].said # {} => fundings'[g].said # {}
        /\ EndsIt(g) => fundings'[g].said # {} \/ fundings'[g].cutOff
        /\ fundings[g].cutOff => fundings'[g].cutOff
    BY <1>4 DEF Watched, IntervalRuns
  <2> DEFINE r == fundings[g]
             q == fundings'[g]
  <2>4. FundingFine(g, r, buttons[r.of].at, buttons[r.of].pollRef)
    BY <2>1 DEF FundingHolds
  <2>5. /\ q.of = r.of /\ q.attempts = r.attempts
        /\ q.leftEarly <=> r.leftEarly
        /\ q.lost <=> r.lost
        /\ g = f => r.attempts = fundings[f].attempts
    BY <1>4
  <2>6. q.phase = "over" => q.said # {} \/ q.cutOff \/ buttons[r.of].at # "mounted"
    BY <2>3, <2>4 DEF FundingFine
  <2>7. "timedOut" \in q.said => q.attempts = PollMax
    BY <1>2, <2>3, <2>4, <2>5 DEF FundingFine
  <2>8. q.phase \in {"over", r.phase} /\ (q.phase = "over" => r.phase \in {"over", "polling"})
    BY <2>3
  <2> HIDE DEF r, q
  <2>9. FundingFine(g, q, buttons[r.of].at, buttons[r.of].pollRef)
    BY <2>4, <2>5, <2>6, <2>7, <2>8 DEF FundingFine
  <2>10. ASSUME r.of \in Button PROVE FundingFine(g, q, buttons'[q.of].at, buttons'[q.of].pollRef)
    <3>1. /\ buttons'[r.of].at = buttons[r.of].at
          /\ buttons'[r.of].pollRef = buttons[r.of].pollRef
      BY <2>2, <2>10 DEF r
    <3> QED BY <2>5, <2>9, <3>1
  <2>11. ASSUME r.of \notin Button PROVE FundingFine(g, q, buttons'[q.of].at, buttons'[q.of].pollRef)
    BY <2>5, <2>9, <2>11 DEF FundingFine
  <2> QED BY <2>10, <2>11 DEF FundingHolds, q
<1>6. RefIsOfTheMount'
  <2>1. /\ \A c \in Button : buttons'[c].pollRef = buttons[c].pollRef
        /\ \A g \in Funding : fundings'[g].of = fundings[g].of
    BY <1>3, <1>4 DEF MountKept
  <2>2. RefIsOfTheMount
    BY DEF ButtonCore
  <2> QED BY ONLY <2>1, <2>2 DEF RefIsOfTheMount
<1>7. fundings' \in [Funding -> FundingType]
  BY <1>1, <1>4
<1> QED BY <1>3, <1>5, <1>6, <1>7 DEF ButtonCore, OneMounted, Mounted, MountKept

LEMMA NewFundingHolds ==
  ASSUME buttons' = [b \in Button |-> NewButton], fundings' = [f \in Funding |-> NoRequest]
  PROVE  ButtonCore'
<1>1. \A f \in Funding : FundingHolds(f)'
  BY NoRequestHolds, AccountAssumption DEF FundingHolds, FundingFine
<1> QED BY <1>1, NewButtonHolds, NoRequestHolds, AccountAssumption
        DEF ButtonCore, OneMounted, RefIsOfTheMount, Mounted

LEMMA FundedReloadHolds == AccountCore /\ FundedReload => AccountCore'
<1> SUFFICES ASSUME AccountCore, FundedReload PROVE AccountCore'
  OBVIOUS
<1>1. FetchCore'
  BY FetchTypes DEF FundedReload, AccountCore, FetchCore, AccountIsCurrentUnlessRaced, OneFetch,
                    FetchIsCurrent, NoFetch
<1>2. ButtonCore'
  BY NewFundingHolds DEF FundedReload
<1> QED BY <1>1, <1>2 DEF AccountCore

LEMMA AccountBegins == AccountInit => AccountCore
<1> SUFFICES ASSUME AccountInit PROVE AccountCore
  OBVIOUS
<1>1. FetchCore
  BY FetchTypes DEF AccountInit, FetchCore, AccountIsCurrentUnlessRaced, OneFetch,
                    FetchIsCurrent, NoFetch
<1>2. ButtonCore
  <2>1. \A f \in Funding : FundingHolds(f)
    BY NoRequestHolds, AccountAssumption DEF AccountInit, FundingHolds, FundingFine
  <2> QED BY <2>1, NewButtonHolds, NoRequestHolds, AccountAssumption
          DEF AccountInit, ButtonCore, OneMounted, RefIsOfTheMount, Mounted
<1> QED BY <1>1, <1>2 DEF AccountCore

LEMMA ButtonsRest == ButtonCore /\ UNCHANGED fundVars => ButtonCore'
BY DEF fundVars, ButtonCore, FundingHolds, FundingFine, OneMounted, RefIsOfTheMount, Mounted

LEMMA FetchSteps == AccountCore /\ FetchNext => AccountCore'
<1> SUFFICES ASSUME AccountCore, FetchNext PROVE AccountCore'
  OBVIOUS
<1>1. UNCHANGED fundVars
  BY DEF FetchNext, SwitchWallet, SwitchAccNetwork, RefreshAccount, AccountAnswered
<1>2. ButtonCore'
  BY <1>1, ButtonsRest DEF AccountCore
<1>3. FetchCore'
  BY SwitchWalletHolds, SwitchAccNetworkHolds, RefreshAccountHolds, AccountAnsweredHolds
     DEF AccountCore, FetchNext
<1> QED BY <1>2, <1>3 DEF AccountCore

LEMMA AccountSteps == AccountCore /\ [AccountNext]_accountVars => AccountCore'
<1>1. ASSUME AccountCore, FundNext PROVE AccountCore'
  <2>1. CASE FundedReload
    BY <1>1, <2>1, FundedReloadHolds
  <2>2. CASE FundNext /\ ~ FundedReload
    <3>1. UNCHANGED fetchVars
      <4>1. ASSUME NEW b \in Button,
                   MountButton(b) \/ UnmountButton(b) \/ OpenDialog(b) \/ CloseDialog(b)
            PROVE  UNCHANGED fetchVars
        BY <4>1 DEF MountButton, UnmountButton, OpenDialog, CloseDialog
      <4>2. ASSUME NEW b \in Button, NEW f \in Funding,
                   FundAccount(b, f) \/ FundAccepted(b, f) \/ FundRejected(b, f)
            PROVE  UNCHANGED fetchVars
        BY <4>2 DEF FundAccount, FundAccepted, FundRejected
      <4>3. ASSUME NEW b \in Button, NEW f \in Funding, NEW funded \in BOOLEAN,
                   BalanceTold(b, f, funded)
            PROVE  UNCHANGED fetchVars
        BY <4>3 DEF BalanceTold
      <4>4. ASSUME NEW f \in Funding, PollBalance(f) PROVE UNCHANGED fetchVars
        BY <4>4 DEF PollBalance
      <4> QED BY <2>2, <4>1, <4>2, <4>3, <4>4 DEF FundNext
    <3>2. ButtonCore'
      BY <1>1, <2>2, MountHolds, UnmountHolds, DialogHolds, FundAccountHolds, FundAcceptedHolds,
         FundRejectedHolds, PollBalanceHolds, BalanceToldHolds DEF FundNext, AccountCore
    <3> QED BY <1>1, <3>1, <3>2, FetchRests DEF AccountCore
  <2> QED BY <1>1, <2>1, <2>2
<1>2. AccountCore /\ UNCHANGED accountVars => AccountCore'
  BY FetchRests, ButtonsRest DEF accountVars, AccountCore
<1> QED BY <1>1, <1>2, FetchSteps DEF AccountNext

(* At most one element, in terms of Cardinality.                           *)
LEMMA OneMountedCounts ==
  ASSUME ButtonCore PROVE Cardinality({b \in Button : Mounted(b)}) <= 1
<1> DEFINE M == {b \in Button : Mounted(b)}
<1>1. CASE M = {}
  BY <1>1, FS_EmptySet
<1>2. CASE M # {}
  <2>1. PICK b \in Button : M = {b}
    BY <1>2 DEF ButtonCore, OneMounted
  <2>2. Cardinality({b}) = 1
    BY FS_Singleton
  <2> QED BY <2>1, <2>2
<1> QED BY <1>1, <1>2

(* The dashboard shows the account of the wallet on the network unless     *)
(* fetches overlapped, one funding button is mounted at a time, none polls *)
(* for a mount that was left but one that was left while the faucet was    *)
(* asked or whose interval was overwritten by a second confirmation, and   *)
(* a funding is over for a reason that the user was told, unless a poll of *)
(* another one ended it.                                                   *)
THEOREM AccountHolds == AccountSpec => []AccountInv
<1>1. AccountCore => AccountInv
  <2> SUFFICES ASSUME AccountCore PROVE AccountInv
    OBVIOUS
  <2>1. AccountTypeOK
    BY OneMountedCounts DEF AccountCore, FetchCore, ButtonCore, ButtonType, FundingType, Phases,
                            Fetched, AccountTypeOK
  <2>2. \A f \in Funding : FundingHolds(f)
    BY DEF AccountCore, ButtonCore
  <2>3. NoPollAfterLeaving
    BY <2>2 DEF FundingHolds, FundingFine, NoPollAfterLeaving, IntervalRuns, Mounted
  <2>4. EndsWithAVerdict
    BY <2>2 DEF FundingHolds, FundingFine, EndsWithAVerdict, Mounted
  <2> QED BY <2>1, <2>3, <2>4 DEF AccountCore, FetchCore, AccountInv
<1> QED BY AccountBegins, AccountSteps, <1>1, PTL DEF AccountSpec

-----------------------------------------------------------------------------
(* DeployWizard: the last step is reached only with a file, a salt and a   *)
(* successful preview, and a deployment, or a deployed contract, holds it  *)
(* there.  A preview is never successful while a simulation runs.          *)
LastStepIsReached == step = "deploy" => file # NoFile /\ saltChosen /\ previewOk
BusyAtLastStep == IsDeploying \/ deployedId => step = "deploy"
PreviewIsOver == previewOk => simulating = NotSimulating
BufferIsRead ==
  /\ simulating.at = "asking" /\ wasmBuffer # NoFile => wasmBuffer = simulating.of
  /\ simulating.at = "asking" /\ ~ fileChanged => wasmBuffer = file
  /\ simulating # NotSimulating /\ ~ fileChanged => simulating.of = file
  /\ previewOk /\ wasmBuffer # NoFile => wasmBuffer \in provenFiles
CreatedWhereAsked ==
  \A d \in Deployment : deploys[d].created => deploys[d].network \subseteq createdOn

WizardCore ==
  /\ WizardTypeOK /\ LastStepIsReached /\ BusyAtLastStep /\ PreviewIsOver /\ BufferIsRead
  /\ CreatedWhereAsked /\ DeployedWasSimulated /\ PreviewIsOfTheFile /\ ListedWereCreated

StepNames == {"upload", "configure", "simulate", "deploy"}
DeployStates == {"none", "installing", "uploaded", "creating", "created", "ended"}
WizardDeploys ==
  [at : DeployStates, buffer : WasmFile \cup {NoFile}, network : SUBSET WizardNetwork,
   mine : BOOLEAN, created : BOOLEAN, polls : 0 .. MaxWizardPolls]

LEMMA StepsAreIndexed ==
  /\ Steps[1] = "upload" /\ Steps[2] = "configure" /\ Steps[3] = "simulate" /\ Steps[4] = "deploy"
  /\ \A s \in StepNames : StepIndex(s) \in 1 .. 4 /\ Steps[StepIndex(s)] = s
  /\ StepIndex("upload") = 1 /\ StepIndex("configure") = 2 /\ StepIndex("simulate") = 3
  /\ StepIndex("deploy") = 4
<1>1. Steps[1] = "upload" /\ Steps[2] = "configure" /\ Steps[3] = "simulate" /\ Steps[4] = "deploy"
  BY DEF Steps
<1>2. \A s \in StepNames : \E i \in 1 .. 4 : Steps[i] = s
  BY <1>1 DEF StepNames
<1>3. \A s \in StepNames : StepIndex(s) \in 1 .. 4 /\ Steps[StepIndex(s)] = s
  BY <1>2 DEF StepIndex
<1>4. \A i \in 1 .. 4 : i = 1 \/ i = 2 \/ i = 3 \/ i = 4
  OBVIOUS
<1>5. /\ StepIndex("upload") = 1 /\ StepIndex("configure") = 2 /\ StepIndex("simulate") = 3
      /\ StepIndex("deploy") = 4
  BY <1>1, <1>3, <1>4 DEF StepNames
<1> QED BY <1>1, <1>3, <1>5

(* clampRestoredStep goes no further than the steps that are complete.     *)
LEMMA ClampsToComplete ==
  ASSUME NEW s \in StepNames, NEW hasFile \in BOOLEAN, NEW salt \in BOOLEAN, NEW ok \in BOOLEAN
  PROVE  /\ Clamped(s, hasFile, salt, ok) \in StepNames
         /\ Clamped(s, hasFile, salt, ok) = "deploy" => hasFile /\ salt /\ ok
<1> DEFINE n == StepIndex(s)
           Stops(i) == i = n \/ ~ Valid(Steps[i], hasFile, salt, ok)
           least == CHOOSE i \in 1 .. n : Stops(i) /\ \A j \in 1 .. i - 1 : ~ Stops(j)
<1>1. n \in 1 .. 4 /\ Stops(n)
  BY StepsAreIndexed
<1>2. Clamped(s, hasFile, salt, ok) = Steps[least]
  BY DEF Clamped
<1> HIDE DEF n, Stops
<1>3. \E i \in 1 .. n : Stops(i) /\ \A j \in 1 .. i - 1 : ~ Stops(j)
  <2>1. CASE Stops(1)
    BY <1>1, <2>1
  <2>2. CASE ~ Stops(1) /\ Stops(2)
    <3>1. n # 1
      BY <1>1, <2>2
    <3> QED BY <1>1, <2>2, <3>1
  <2>3. CASE ~ Stops(1) /\ ~ Stops(2) /\ Stops(3)
    <3>1. n # 1 /\ n # 2
      BY <1>1, <2>3
    <3> QED BY <1>1, <2>3, <3>1
  <2>4. CASE ~ Stops(1) /\ ~ Stops(2) /\ ~ Stops(3)
    <3>1. n # 1 /\ n # 2 /\ n # 3
      BY <1>1, <2>4
    <3>2. n = 4
      BY <1>1, <3>1
    <3> QED BY <1>1, <2>4, <3>2
  <2> QED BY <2>1, <2>2, <2>3, <2>4
<1>4. least \in 1 .. n /\ \A j \in 1 .. least - 1 : ~ Stops(j)
  BY <1>3
<1> HIDE DEF least
<1>5. least \in 1 .. 4
  BY <1>1, <1>4
<1>6. least = 1 \/ least = 2 \/ least = 3 \/ least = 4
  BY <1>5
<1>7. Steps[least] \in StepNames /\ (Steps[least] = "deploy" => least = 4)
  BY <1>6, StepsAreIndexed DEF StepNames
<1>8. ASSUME least = 4 PROVE hasFile /\ salt /\ ok
  <2>1. ~ Stops(1) /\ ~ Stops(2) /\ ~ Stops(3)
    BY <1>4, <1>8
  <2> QED BY <2>1, StepsAreIndexed DEF Stops, Valid
<1> QED BY <1>2, <1>7, <1>8

(* The effect that clamps the step, once the page is in its next state.    *)
LEMMA ClampStepHolds ==
  ASSUME NEW s \in StepNames, ClampStep(s), saltChosen' \in BOOLEAN, previewOk' \in BOOLEAN
  PROVE  /\ step' \in StepNames
         /\ IF IsDeploying' \/ deployedId' THEN step' = s
            ELSE step' = "deploy" => file' # NoFile /\ saltChosen' /\ previewOk'
<1> DEFINE has == file' # NoFile
           clamped == Clamped(s, has, saltChosen', previewOk')
<1>1. has \in BOOLEAN
  OBVIOUS
<1>2. clamped \in StepNames /\ (clamped = "deploy" => has /\ saltChosen' /\ previewOk')
  <2> HIDE DEF has
  <2> QED BY <1>1, ClampsToComplete
<1>3. step' = IF IsDeploying' \/ deployedId' THEN s ELSE clamped
  BY DEF ClampStep
<1> HIDE DEF clamped
<1> QED BY <1>2, <1>3

LEMMA WizardTypes ==
  ASSUME WizardCore
  PROVE  /\ step \in StepNames /\ saltChosen \in BOOLEAN /\ previewOk \in BOOLEAN
         /\ deployedId \in BOOLEAN /\ fileChanged \in BOOLEAN
         /\ file \in WasmFile \cup {NoFile} /\ wasmBuffer \in WasmFile \cup {NoFile}
         /\ simulating \in {NotSimulating} \cup [at : {"reading", "asking"}, of : WasmFile]
         /\ deploys \in [Deployment -> WizardDeploys]
         /\ \A d \in Deployment : deploys[d].mine => deploys[d].at \notin {"none", "ended"}
         /\ wizardNetwork \in WizardNetwork /\ provenFiles \subseteq WasmFile
         /\ contractsOf \subseteq WizardNetwork /\ createdOn \subseteq WizardNetwork
BY DEF WizardCore, WizardTypeOK, StepNames, WizardDeploys, DeployStates

LEMMA NotDeployedIsTyped ==
  /\ NotDeployed \in WizardDeploys /\ DeployEnded \in WizardDeploys
  /\ ~ NotDeployed.mine /\ ~ DeployEnded.mine /\ ~ NotDeployed.created /\ ~ DeployEnded.created
  /\ NotDeployed.buffer = NoFile /\ DeployEnded.buffer = NoFile
<1>1. NotDeployed \in WizardDeploys
  BY WizardAssumption DEF NotDeployed, WizardDeploys, DeployStates
<1>2. DeployEnded \in WizardDeploys
  BY <1>1 DEF DeployEnded, WizardDeploys, DeployStates
<1>3. /\ ~ NotDeployed.mine /\ ~ NotDeployed.created /\ NotDeployed.buffer = NoFile
      /\ ~ DeployEnded.mine /\ ~ DeployEnded.created /\ DeployEnded.buffer = NoFile
  BY DEF NotDeployed, DeployEnded
<1> QED BY <1>1, <1>2, <1>3

(* One deployment goes on, and the page may show what it has deployed.     *)
LEMMA DeployBecomes ==
  ASSUME WizardCore, NEW d \in Deployment, NEW x \in WizardDeploys,
         deploys' = [deploys EXCEPT ![d] = x],
         UNCHANGED <<step, saltChosen, file, wasmBuffer, previewOk, simulating, fileChanged,
                     wizardNetwork, provenFiles>>,
         x.mine => x.at \notin {"none", "ended"} /\ step = "deploy",
         deployedId' \in BOOLEAN, deployedId' => step = "deploy",
         x.buffer # NoFile => x.buffer \in provenFiles,
         createdOn \subseteq createdOn', createdOn' \subseteq WizardNetwork,
         x.created => x.network \subseteq createdOn',
         contractsOf' \subseteq createdOn'
  PROVE  WizardCore'
<1>1. /\ deploys' \in [Deployment -> WizardDeploys] /\ deploys'[d] = x
      /\ \A e \in Deployment : e # d => deploys'[e] = deploys[e]
  BY WizardTypes
<1>2. \A e \in Deployment : deploys'[e].mine => deploys'[e].at \notin {"none", "ended"}
  BY <1>1, WizardTypes
<1>3. WizardTypeOK'
  BY <1>1, <1>2, WizardTypes
     DEF WizardTypeOK, StepNames, WizardDeploys, DeployStates
<1>4. BusyAtLastStep'
  <2>1. \A e \in Deployment : deploys'[e].mine => step = "deploy"
    BY <1>1 DEF WizardCore, BusyAtLastStep, IsDeploying
  <2> QED BY <2>1 DEF BusyAtLastStep, IsDeploying
<1>5. CreatedWhereAsked' /\ DeployedWasSimulated'
  BY <1>1 DEF WizardCore, CreatedWhereAsked, DeployedWasSimulated
<1>6. LastStepIsReached' /\ PreviewIsOver' /\ BufferIsRead'
  BY DEF WizardCore, LastStepIsReached, PreviewIsOver, BufferIsRead
<1>7. PreviewIsOfTheFile' /\ ListedWereCreated'
  BY DEF WizardCore, PreviewIsOfTheFile, ListedWereCreated
<1> QED BY <1>3, <1>4, <1>5, <1>6, <1>7 DEF WizardCore

(* The form changes, and no deployment holds the page.                     *)
LEMMA PageBecomes ==
  ASSUME WizardCore, NEW s \in StepNames, ClampStep(s),
         ~ IsDeploying', ~ deployedId', deployedId' \in BOOLEAN,
         saltChosen' \in BOOLEAN, previewOk' \in BOOLEAN, fileChanged' \in BOOLEAN,
         file' \in WasmFile \cup {NoFile}, wasmBuffer' \in WasmFile \cup {NoFile},
         simulating' \in {NotSimulating} \cup [at : {"reading", "asking"}, of : WasmFile],
         deploys' \in [Deployment -> WizardDeploys],
         \A d \in Deployment :
           \/ /\ deploys'[d].created = deploys[d].created
              /\ deploys'[d].network = deploys[d].network
              /\ deploys'[d].buffer = deploys[d].buffer
           \/ deploys'[d] = DeployEnded,
         provenFiles \subseteq provenFiles', provenFiles' \subseteq WasmFile,
         UNCHANGED <<wizardNetwork, contractsOf, createdOn>>,
         PreviewIsOver', BufferIsRead', PreviewIsOfTheFile'
  PROVE  WizardCore'
<1>1. step' \in StepNames /\ (step' = "deploy" => file' # NoFile /\ saltChosen' /\ previewOk')
  BY ClampStepHolds
<1>2. \A d \in Deployment : ~ deploys'[d].mine
  BY DEF IsDeploying
<1>3. WizardTypeOK'
  BY <1>1, <1>2, WizardTypes
     DEF WizardTypeOK, StepNames, WizardDeploys, DeployStates
<1>4. BusyAtLastStep' /\ LastStepIsReached'
  BY <1>1 DEF BusyAtLastStep, LastStepIsReached
<1>5. CreatedWhereAsked' /\ DeployedWasSimulated'
  BY NotDeployedIsTyped DEF WizardCore, CreatedWhereAsked, DeployedWasSimulated
<1>6. ListedWereCreated'
  BY DEF WizardCore, ListedWereCreated
<1> QED BY <1>3, <1>4, <1>5, <1>6 DEF WizardCore

LEMMA FileChangeHolds ==
  ASSUME WizardCore, NEW f \in WasmFile, FileChange(f)
  PROVE  WizardCore'
<1>1. /\ step = "upload" /\ file' = f /\ previewOk' = FALSE /\ wasmBuffer' = NoFile
      /\ fileChanged' = (fileChanged \/ simulating # NotSimulating)
      /\ UNCHANGED <<saltChosen, simulating, deploys, deployedId, wizardNetwork, contractsOf,
                     createdOn, provenFiles>>
      /\ ClampStep(step)
  BY DEF FileChange, wizardOutcome
<1>2. ~ IsDeploying' /\ ~ deployedId'
  BY <1>1 DEF WizardCore, BusyAtLastStep, IsDeploying
<1>3. PreviewIsOver' /\ PreviewIsOfTheFile'
  BY <1>1 DEF PreviewIsOver, PreviewIsOfTheFile
<1>4. BufferIsRead'
  <2>1. ~ fileChanged' => simulating = NotSimulating
    BY <1>1
  <2> QED BY <1>1, <2>1 DEF BufferIsRead, NotSimulating
<1> QED BY <1>1, <1>2, <1>3, <1>4, WizardTypes, PageBecomes

LEMMA SaltChangeHolds == ASSUME WizardCore, SaltChange PROVE WizardCore'
<1>1. /\ step = "configure" /\ saltChosen' = ~ saltChosen
      /\ UNCHANGED <<step, file, wasmBuffer, previewOk, simulating, deployedId, fileChanged,
                     deploys, wizardNetwork, contractsOf, createdOn, provenFiles>>
  BY DEF SaltChange, pageVars, wizardOutcome
<1>2. WizardTypeOK'
  BY <1>1, WizardTypes
     DEF WizardTypeOK, StepNames, WizardDeploys, DeployStates
<1>3. LastStepIsReached' /\ BusyAtLastStep' /\ PreviewIsOver' /\ BufferIsRead'
  BY <1>1 DEF WizardCore, LastStepIsReached, BusyAtLastStep, PreviewIsOver, BufferIsRead,
              IsDeploying
<1>4. CreatedWhereAsked' /\ DeployedWasSimulated' /\ PreviewIsOfTheFile' /\ ListedWereCreated'
  BY <1>1 DEF WizardCore, CreatedWhereAsked, DeployedWasSimulated, PreviewIsOfTheFile,
              ListedWereCreated
<1> QED BY <1>2, <1>3, <1>4 DEF WizardCore

(* NextStep and PreviousStep: the page moves and holds what it held.       *)
LEMMA MoveHolds ==
  ASSUME WizardCore, NEW s \in StepNames, ClampStep(s), ~ IsDeploying, ~ deployedId,
         UNCHANGED <<saltChosen, pageVars, deploys, wizardNetwork, wizardOutcome>>
  PROVE  WizardCore'
<1>1. UNCHANGED <<saltChosen, file, wasmBuffer, previewOk, simulating, deployedId, fileChanged,
                  deploys, wizardNetwork, contractsOf, createdOn, provenFiles>>
  BY DEF pageVars, wizardOutcome
<1>2. ~ IsDeploying' /\ ~ deployedId'
  BY <1>1 DEF IsDeploying
<1>3. PreviewIsOver' /\ PreviewIsOfTheFile' /\ BufferIsRead'
  BY <1>1 DEF WizardCore, PreviewIsOver, PreviewIsOfTheFile, BufferIsRead
<1> QED BY <1>1, <1>2, <1>3, WizardTypes, PageBecomes

LEMMA NextStepHolds == ASSUME WizardCore, NextStep PROVE WizardCore'
<1>1. /\ step # "deploy" /\ ClampStep(Steps[StepIndex(step) + 1])
      /\ UNCHANGED <<saltChosen, pageVars, deploys, wizardNetwork, wizardOutcome>>
  BY DEF NextStep
<1>2. ~ IsDeploying /\ ~ deployedId
  BY <1>1 DEF WizardCore, BusyAtLastStep
<1>3. Steps[StepIndex(step) + 1] \in StepNames
  BY <1>1, WizardTypes, StepsAreIndexed DEF StepNames
<1> QED BY <1>1, <1>2, <1>3, MoveHolds

LEMMA PreviousStepHolds == ASSUME WizardCore, PreviousStep PROVE WizardCore'
<1>1. /\ step # "upload" /\ ~ IsDeploying /\ ~ deployedId
      /\ ClampStep(Steps[StepIndex(step) - 1])
      /\ UNCHANGED <<saltChosen, pageVars, deploys, wizardNetwork, wizardOutcome>>
  BY DEF PreviousStep
<1>2. Steps[StepIndex(step) - 1] \in StepNames
  BY <1>1, WizardTypes, StepsAreIndexed DEF StepNames
<1> QED BY <1>1, <1>2, MoveHolds

LEMMA RunSimulationHolds == ASSUME WizardCore, RunSimulation PROVE WizardCore'
<1>1. /\ step = "simulate" /\ file # NoFile /\ simulating' = [at |-> "reading", of |-> file]
      /\ previewOk' = FALSE /\ fileChanged' = FALSE
      /\ UNCHANGED <<saltChosen, file, wasmBuffer, deploys, deployedId, wizardNetwork,
                     contractsOf, createdOn, provenFiles>>
      /\ ClampStep(step)
  BY DEF RunSimulation, wizardOutcome
<1>2. ~ IsDeploying' /\ ~ deployedId'
  BY <1>1 DEF WizardCore, BusyAtLastStep, IsDeploying
<1>3. PreviewIsOver' /\ PreviewIsOfTheFile' /\ BufferIsRead'
  BY <1>1 DEF PreviewIsOver, PreviewIsOfTheFile, BufferIsRead
<1>4. simulating' \in {NotSimulating} \cup [at : {"reading", "asking"}, of : WasmFile]
  BY <1>1, WizardTypes
<1> QED BY <1>1, <1>2, <1>3, <1>4, WizardTypes, PageBecomes

LEMMA FileReadHolds == ASSUME WizardCore, FileRead PROVE WizardCore'
<1>1. /\ simulating.at = "reading" /\ wasmBuffer' = simulating.of
      /\ simulating' = [simulating EXCEPT !.at = "asking"]
      /\ UNCHANGED <<step, saltChosen, file, previewOk, deploys, deployedId, fileChanged,
                     wizardNetwork, contractsOf, createdOn, provenFiles>>
  BY DEF FileRead, wizardOutcome
<1>2. simulating # NotSimulating
  BY <1>1 DEF NotSimulating
<1>3. simulating \in [at : {"reading", "asking"}, of : WasmFile]
  BY <1>2, WizardTypes
<1>4. /\ simulating' \in [at : {"reading", "asking"}, of : WasmFile]
      /\ simulating'.of = simulating.of /\ simulating.of \in WasmFile
  BY <1>1, <1>3
<1>5. WizardTypeOK'
  BY <1>1, <1>4, WizardTypes DEF WizardTypeOK, StepNames, WizardDeploys, DeployStates
<1>6. ~ previewOk
  BY <1>2 DEF WizardCore, PreviewIsOver
<1>7. LastStepIsReached' /\ BusyAtLastStep' /\ PreviewIsOver' /\ PreviewIsOfTheFile'
  BY <1>1, <1>6 DEF WizardCore, LastStepIsReached, BusyAtLastStep, PreviewIsOver,
                    PreviewIsOfTheFile, IsDeploying
<1>8. BufferIsRead'
  BY <1>1, <1>2, <1>4, <1>6 DEF WizardCore, BufferIsRead
<1>9. CreatedWhereAsked' /\ DeployedWasSimulated' /\ ListedWereCreated'
  BY <1>1 DEF WizardCore, CreatedWhereAsked, DeployedWasSimulated, ListedWereCreated
<1> QED BY <1>5, <1>7, <1>8, <1>9 DEF WizardCore

LEMMA SimulatedHolds ==
  ASSUME WizardCore, NEW ok \in BOOLEAN, Simulated(ok)
  PROVE  WizardCore'
<1>1. /\ simulating # NotSimulating /\ (ok => simulating.at = "asking")
      /\ previewOk' = ok /\ simulating' = NotSimulating
      /\ provenFiles' = IF ok THEN provenFiles \cup {simulating.of} ELSE provenFiles
      /\ UNCHANGED <<saltChosen, file, wasmBuffer, deploys, deployedId, fileChanged,
                     wizardNetwork, contractsOf, createdOn>>
      /\ ClampStep(step)
  BY DEF Simulated
<1>2. step # "deploy"
  BY <1>1 DEF WizardCore, PreviewIsOver, LastStepIsReached
<1>3. ~ IsDeploying' /\ ~ deployedId'
  BY <1>1, <1>2 DEF WizardCore, BusyAtLastStep, IsDeploying
<1>4. simulating.of \in WasmFile
  BY <1>1, WizardTypes
<1>5. PreviewIsOver' /\ PreviewIsOfTheFile' /\ BufferIsRead'
  BY <1>1 DEF WizardCore, PreviewIsOver, PreviewIsOfTheFile, BufferIsRead, NotSimulating
<1> QED BY <1>1, <1>3, <1>4, <1>5, WizardTypes, PageBecomes

LEMMA DeployStartHolds == ASSUME WizardCore, NEW d \in Deployment, Deploy(d) PROVE WizardCore'
<1> DEFINE new == [at |-> "installing", buffer |-> wasmBuffer, network |-> {wizardNetwork},
                   mine |-> TRUE, created |-> FALSE, polls |-> 0]
<1>1. /\ step = "deploy" /\ ~ deployedId /\ wasmBuffer # NoFile
      /\ deploys' = [deploys EXCEPT ![d] = new]
      /\ UNCHANGED <<step, saltChosen, file, wasmBuffer, previewOk, simulating, deployedId,
                     fileChanged, wizardNetwork, contractsOf, createdOn, provenFiles>>
  BY DEF Deploy, pageVars, wizardOutcome
<1>2. new \in WizardDeploys
  BY WizardTypes, WizardAssumption DEF WizardDeploys, DeployStates
<1>3. new.at = "installing" /\ ~ new.created /\ new.buffer = wasmBuffer
  OBVIOUS
<1>4. wasmBuffer \in provenFiles
  BY <1>1 DEF WizardCore, LastStepIsReached, BufferIsRead
<1>5. /\ deployedId' \in BOOLEAN /\ createdOn' = createdOn /\ createdOn \subseteq WizardNetwork
      /\ contractsOf' \subseteq createdOn
  BY <1>1, WizardTypes DEF WizardCore, ListedWereCreated
<1> HIDE DEF new
<1> QED BY <1>1, <1>2, <1>3, <1>4, <1>5, DeployBecomes

(* What a deployment under way brings along.                               *)
LEMMA DeployFacts ==
  ASSUME WizardCore, NEW d \in Deployment
  PROVE  /\ deploys[d] \in WizardDeploys
         /\ deploys[d].mine => step = "deploy"
         /\ deploys[d].buffer # NoFile => deploys[d].buffer \in provenFiles
         /\ deploys[d].created => deploys[d].network \subseteq createdOn
         /\ deploys[d].network \subseteq WizardNetwork
         /\ deployedId \in BOOLEAN /\ (deployedId => step = "deploy")
         /\ createdOn \subseteq WizardNetwork /\ contractsOf \subseteq createdOn
<1>1. deploys[d] \in WizardDeploys /\ deployedId \in BOOLEAN /\ createdOn \subseteq WizardNetwork
  BY WizardTypes
<1>2. deploys[d].network \subseteq WizardNetwork
  BY <1>1 DEF WizardDeploys
<1> QED BY <1>1, <1>2 DEF WizardCore, BusyAtLastStep, IsDeploying, DeployedWasSimulated,
                         CreatedWhereAsked, ListedWereCreated

LEMMA ProceedsHolds ==
  ASSUME WizardCore, NEW d \in Deployment, NEW at \in DeployStates \ {"none", "ended"},
         NEW count \in 0 .. MaxWizardPolls, Proceeds(d, at, count)
  PROVE  WizardCore'
<1> DEFINE next == [deploys[d] EXCEPT !.at = at, !.polls = count]
<1>1. /\ deploys' = [deploys EXCEPT ![d] = next]
      /\ UNCHANGED <<step, saltChosen, file, wasmBuffer, previewOk, simulating, deployedId,
                     fileChanged, wizardNetwork, contractsOf, createdOn, provenFiles>>
  BY WizardTypes DEF Proceeds, pageVars, wizardOutcome
<1>2. /\ next \in WizardDeploys /\ next.at = at /\ next.mine = deploys[d].mine
      /\ next.buffer = deploys[d].buffer /\ next.network = deploys[d].network
      /\ next.created = deploys[d].created
  BY DeployFacts DEF WizardDeploys
<1> HIDE DEF next
<1> QED BY <1>1, <1>2, DeployFacts, DeployBecomes

LEMMA UploadPolledHolds ==
  ASSUME WizardCore, NEW d \in Deployment,
         UploadSubmitted(d) \/ UploadPolled(d) \/ CreateSubmitted(d)
  PROVE  WizardCore'
<1>1. deploys[d].polls \in 0 .. MaxWizardPolls /\ MaxWizardPolls \in Nat
  BY DeployFacts, WizardAssumption DEF WizardDeploys
<1>2. 0 \in 0 .. MaxWizardPolls
  BY <1>1
<1>3. deploys[d].polls < MaxWizardPolls => deploys[d].polls + 1 \in 0 .. MaxWizardPolls
  BY <1>1
<1>4. {"uploaded", "creating", "created"} \subseteq DeployStates \ {"none", "ended"}
  BY DEF DeployStates
<1> QED BY <1>2, <1>3, <1>4, ProceedsHolds DEF UploadSubmitted, UploadPolled, CreateSubmitted

LEMMA CreateIncludedHolds ==
  ASSUME WizardCore, NEW d \in Deployment, CreateIncluded(d)
  PROVE  WizardCore'
<1> DEFINE next == [deploys[d] EXCEPT !.created = TRUE]
<1>1. /\ deploys[d].at = "created" /\ deploys' = [deploys EXCEPT ![d] = next]
      /\ createdOn' = createdOn \cup deploys[d].network
      /\ UNCHANGED <<step, saltChosen, file, wasmBuffer, previewOk, simulating, deployedId,
                     fileChanged, wizardNetwork, contractsOf, provenFiles>>
  BY WizardTypes DEF CreateIncluded, pageVars
<1>2. /\ next \in WizardDeploys /\ next.at = deploys[d].at /\ next.mine = deploys[d].mine
      /\ next.buffer = deploys[d].buffer /\ next.network = deploys[d].network
  BY DeployFacts DEF WizardDeploys
<1> HIDE DEF next
<1> QED BY <1>1, <1>2, DeployFacts, DeployBecomes

LEMMA DeployEndsHolds ==
  ASSUME WizardCore, NEW d \in Deployment, EndsDeploy(d),
         UNCHANGED <<step, saltChosen, pageVars, wizardNetwork, wizardOutcome>>
  PROVE  WizardCore'
<1>1. /\ deploys' = [deploys EXCEPT ![d] = DeployEnded]
      /\ UNCHANGED <<step, saltChosen, file, wasmBuffer, previewOk, simulating, deployedId,
                     fileChanged, wizardNetwork, contractsOf, createdOn, provenFiles>>
  BY DEF EndsDeploy, pageVars, wizardOutcome
<1> QED BY <1>1, NotDeployedIsTyped, DeployFacts, DeployBecomes

LEMMA CreatePolledHolds ==
  ASSUME WizardCore, NEW d \in Deployment, CreatePolled(d)
  PROVE  WizardCore'
<1>1. CASE deploys[d].polls < MaxWizardPolls /\ Proceeds(d, "created", deploys[d].polls + 1)
  <2>1. deploys[d].polls + 1 \in 0 .. MaxWizardPolls
    BY <1>1, DeployFacts, WizardAssumption DEF WizardDeploys
  <2>2. "created" \in DeployStates \ {"none", "ended"}
    BY DEF DeployStates
  <2> QED BY <1>1, <2>1, <2>2, ProceedsHolds
<1>2. CASE EndsDeploy(d) /\ UNCHANGED <<step, saltChosen, pageVars, wizardNetwork, wizardOutcome>>
  BY <1>2, DeployEndsHolds
<1>3. CASE /\ deploys[d].created
           /\ contractsOf' = contractsOf \cup deploys[d].network
           /\ deployedId' = (deployedId \/ deploys[d].mine)
           /\ EndsDeploy(d)
           /\ UNCHANGED <<step, saltChosen, file, wasmBuffer, previewOk, simulating, fileChanged,
                          wizardNetwork, createdOn, provenFiles>>
  <2>1. deploys' = [deploys EXCEPT ![d] = DeployEnded]
    BY <1>3 DEF EndsDeploy
  <2>2. deployedId' \in BOOLEAN /\ (deployedId' => step = "deploy")
    BY <1>3, DeployFacts DEF WizardDeploys
  <2>3. contractsOf' \subseteq createdOn'
    BY <1>3, DeployFacts
  <2> QED BY <1>3, <2>1, <2>2, <2>3, NotDeployedIsTyped, DeployFacts, DeployBecomes
<1> QED BY <1>1, <1>2, <1>3 DEF CreatePolled

LEMMA MountPageHolds ==
  ASSUME WizardCore, NEW reload \in BOOLEAN, MountPage(reload)
  PROVE  WizardCore'
<1>1. /\ file' = NoFile /\ wasmBuffer' = NoFile /\ previewOk' = FALSE
      /\ simulating' = NotSimulating /\ deployedId' = FALSE /\ fileChanged' = FALSE
      /\ deploys' = [d \in Deployment |->
           IF reload /\ deploys[d].at # "none" THEN DeployEnded
           ELSE [deploys[d] EXCEPT !.mine = FALSE]]
      /\ UNCHANGED <<saltChosen, wizardNetwork, contractsOf, createdOn, provenFiles>>
      /\ ClampStep(step)
  BY DEF MountPage, wizardOutcome
<1>2. ASSUME NEW d \in Deployment
      PROVE  LET x == [deploys[d] EXCEPT !.mine = FALSE] IN
             /\ x \in WizardDeploys /\ ~ x.mine /\ x.created = deploys[d].created
             /\ x.network = deploys[d].network /\ x.buffer = deploys[d].buffer
  BY DeployFacts DEF WizardDeploys
<1>3. ASSUME NEW d \in Deployment
      PROVE  /\ deploys'[d] \in WizardDeploys /\ ~ deploys'[d].mine
             /\ \/ /\ deploys'[d].created = deploys[d].created
                   /\ deploys'[d].network = deploys[d].network
                   /\ deploys'[d].buffer = deploys[d].buffer
                \/ deploys'[d] = DeployEnded
  BY <1>1, <1>2, NotDeployedIsTyped
<1>4. deploys' \in [Deployment -> WizardDeploys]
  <2>1. DOMAIN deploys' = Deployment /\ deploys' = [d \in Deployment |-> deploys'[d]]
    BY <1>1
  <2> QED BY <1>3, <2>1
<1>5. ~ IsDeploying'
  BY <1>3 DEF IsDeploying
<1>6. PreviewIsOver' /\ PreviewIsOfTheFile' /\ BufferIsRead'
  BY <1>1 DEF PreviewIsOver, PreviewIsOfTheFile, BufferIsRead, NotSimulating
<1> QED BY <1>1, <1>3, <1>4, <1>5, <1>6, WizardTypes, PageBecomes

LEMMA ChangeNetworkHolds ==
  ASSUME WizardCore, NEW n \in WizardNetwork, ChangeNetwork(n)
  PROVE  WizardCore'
<1>1. /\ wizardNetwork' = n
      /\ UNCHANGED <<step, saltChosen, file, wasmBuffer, previewOk, simulating, deployedId,
                     fileChanged, deploys, contractsOf, createdOn, provenFiles>>
  BY DEF ChangeNetwork, pageVars, wizardOutcome
<1>2. WizardTypeOK'
  BY <1>1, WizardTypes DEF WizardTypeOK, StepNames, WizardDeploys, DeployStates
<1>3. LastStepIsReached' /\ BusyAtLastStep' /\ PreviewIsOver' /\ BufferIsRead'
  BY <1>1 DEF WizardCore, LastStepIsReached, BusyAtLastStep, PreviewIsOver, BufferIsRead,
              IsDeploying
<1>4. CreatedWhereAsked' /\ DeployedWasSimulated' /\ PreviewIsOfTheFile' /\ ListedWereCreated'
  BY <1>1 DEF WizardCore, CreatedWhereAsked, DeployedWasSimulated, PreviewIsOfTheFile,
              ListedWereCreated
<1> QED BY <1>2, <1>3, <1>4 DEF WizardCore

LEMMA WizardBegins == WizardInit => WizardCore
<1> SUFFICES ASSUME WizardInit PROVE WizardCore
  OBVIOUS
<1>1. /\ step = "upload" /\ saltChosen = TRUE /\ file = NoFile /\ wasmBuffer = NoFile
      /\ previewOk = FALSE /\ simulating = NotSimulating /\ deployedId = FALSE
      /\ deploys = [d \in Deployment |-> NotDeployed] /\ wizardNetwork \in WizardNetwork
      /\ contractsOf = {} /\ createdOn = {} /\ provenFiles = {} /\ fileChanged = FALSE
  BY DEF WizardInit
<1>2. deploys \in [Deployment -> WizardDeploys] /\ \A d \in Deployment : deploys[d] = NotDeployed
  BY <1>1, NotDeployedIsTyped
<1>3. WizardTypeOK
  BY <1>1, <1>2, NotDeployedIsTyped DEF WizardTypeOK, WizardDeploys, DeployStates
<1>4. LastStepIsReached /\ BusyAtLastStep /\ PreviewIsOver /\ BufferIsRead
  BY <1>1, <1>2, NotDeployedIsTyped
     DEF LastStepIsReached, BusyAtLastStep, PreviewIsOver, BufferIsRead, IsDeploying, NotSimulating
<1>5. CreatedWhereAsked /\ DeployedWasSimulated /\ PreviewIsOfTheFile /\ ListedWereCreated
  BY <1>1, <1>2, NotDeployedIsTyped
     DEF CreatedWhereAsked, DeployedWasSimulated, PreviewIsOfTheFile, ListedWereCreated
<1> QED BY <1>3, <1>4, <1>5 DEF WizardCore

LEMMA WizardSteps == WizardCore /\ [WizardNext]_wizardVars => WizardCore'
<1> SUFFICES ASSUME WizardCore, [WizardNext]_wizardVars PROVE WizardCore'
  OBVIOUS
<1>1. ASSUME NEW d \in Deployment, DeployFails(d) PROVE WizardCore'
  BY <1>1, DeployEndsHolds DEF DeployFails
<1>2. CASE WizardNext
  BY <1>1, <1>2, FileChangeHolds, SaltChangeHolds, NextStepHolds, PreviousStepHolds,
     ChangeNetworkHolds, RunSimulationHolds, FileReadHolds, SimulatedHolds, MountPageHolds,
     DeployStartHolds, UploadPolledHolds, CreateIncludedHolds, CreatePolledHolds DEF WizardNext
<1>3. CASE UNCHANGED wizardVars
  <2>1. UNCHANGED <<step, saltChosen, file, wasmBuffer, previewOk, simulating, deployedId,
                    fileChanged, deploys, wizardNetwork, contractsOf, createdOn, provenFiles>>
    BY <1>3 DEF wizardVars, pageVars, wizardOutcome
  <2>2. WizardTypeOK'
    BY <2>1 DEF WizardCore, WizardTypeOK
  <2>3. LastStepIsReached' /\ BusyAtLastStep' /\ PreviewIsOver' /\ BufferIsRead'
    BY <2>1 DEF WizardCore, LastStepIsReached, BusyAtLastStep, PreviewIsOver, BufferIsRead,
                IsDeploying
  <2>4. CreatedWhereAsked' /\ DeployedWasSimulated' /\ PreviewIsOfTheFile' /\ ListedWereCreated'
    BY <2>1 DEF WizardCore, CreatedWhereAsked, DeployedWasSimulated, PreviewIsOfTheFile,
                ListedWereCreated
  <2> QED BY <2>2, <2>3, <2>4 DEF WizardCore
<1> QED BY <1>2, <1>3

LEMMA WizardHolds == WizardSpec => []WizardInv
<1>1. WizardCore => WizardInv
  BY DEF WizardCore, WizardInv, StepIsReached, LastStepIsReached
<1> QED BY WizardBegins, WizardSteps, <1>1, PTL DEF WizardSpec

-----------------------------------------------------------------------------
(* ContractUpgrade: what a call sends that began since the last reset is   *)
(* what the form holds, on the active network unless that was switched.    *)
Current(c) == upgradeCalls[c] # NoUpgradeCall /\ ~ upgradeCalls[c].stray
SentFromHere == ~ moved => \A c \in UpgradeCall : Current(c) => upgradeCalls[c].of = Subject
UpgradeCore == UpgradeInv /\ SentFromHere

LEMMA UpgradeTypes ==
  ASSUME UpgradeCore
  PROVE  /\ target \in Target /\ chosenNetwork \in UpgradeNetwork
         /\ upgradeStatus \in {"idle", "simulating", "ready", "submitting"}
         /\ upgradeCalls \in [UpgradeCall -> UpgradeCalls]
         /\ \A c \in UpgradeCall : Current(c) => upgradeCalls[c].of.target = target
         /\ simulated \subseteq Subjects /\ stray \in BOOLEAN /\ moved \in BOOLEAN
         /\ Subject \in Subjects
BY DEF UpgradeCore, UpgradeInv, UpgradeTypeOK, Current, Subject, Subjects

LEMMA UpgradeIsKnown ==
  ASSUME UpgradeCore
  PROVE  /\ upgradeStatus \in {"ready", "submitting"} /\ ~ stray /\ ~ moved => Subject \in simulated
         /\ ~ stray => \A c, d \in UpgradeCall : Current(c) /\ Current(d) => c = d
         /\ ~ stray => \A c \in UpgradeCall : Current(c) =>
              upgradeStatus = IF UpgradeUnderWay(c, "upgrade") THEN "submitting" ELSE "simulating"
         /\ ~ moved => \A c \in UpgradeCall : Current(c) => upgradeCalls[c].of = Subject
BY DEF UpgradeCore, UpgradeInv, ReadyWasSimulated, OneCallUnlessStray, SentFromHere, Current

LEMMA NoUpgradeCallIsNone ==
  /\ NoUpgradeCall.op = "none" /\ NoUpgradeCall \in UpgradeCalls
  /\ \A x \in UpgradeCalls : x = NoUpgradeCall \/
       x \in [op : {"simulate", "upgrade"}, of : Subjects, stray : BOOLEAN]
  /\ \A x \in UpgradeCalls : x.op \in {"simulate", "upgrade"} => x # NoUpgradeCall
BY DEF NoUpgradeCall, UpgradeCalls

LEMMA UpgradeCoreIs ==
  ASSUME target' \in Target, chosenNetwork' \in UpgradeNetwork,
         upgradeStatus' \in {"idle", "simulating", "ready", "submitting"},
         upgradeCalls' \in [UpgradeCall -> UpgradeCalls], simulated' \subseteq Subjects,
         stray' \in BOOLEAN, moved' \in BOOLEAN,
         \A c \in UpgradeCall : Current(c)' => upgradeCalls'[c].of.target = target',
         upgradeStatus' \in {"ready", "submitting"} /\ ~ stray' /\ ~ moved' => Subject' \in simulated',
         ~ stray' => \A c, d \in UpgradeCall : Current(c)' /\ Current(d)' => c = d,
         ~ stray' => \A c \in UpgradeCall : Current(c)' =>
           upgradeStatus' = IF upgradeCalls'[c].op = "upgrade" THEN "submitting" ELSE "simulating",
         ~ moved' => \A c \in UpgradeCall : Current(c)' => upgradeCalls'[c].of = Subject'
  PROVE  UpgradeCore'
BY DEF UpgradeCore, UpgradeInv, UpgradeTypeOK, ReadyWasSimulated, OneCallUnlessStray,
       SentFromHere, Current, UpgradeUnderWay

LEMMA ResetHoldsUpgrade ==
  ASSUME UpgradeCore, NEW remaining \in [UpgradeCall -> UpgradeCalls], ResetState(remaining),
         target' \in Target, UNCHANGED <<chosenNetwork, simulated>>
  PROVE  UpgradeCore'
<1>1. /\ upgradeStatus' = "idle" /\ stray' = FALSE /\ moved' = FALSE
      /\ upgradeCalls' = [c \in UpgradeCall |->
           IF remaining[c] = NoUpgradeCall THEN NoUpgradeCall
           ELSE [remaining[c] EXCEPT !.stray = TRUE]]
  BY DEF ResetState
<1>2. ASSUME NEW c \in UpgradeCall PROVE upgradeCalls'[c] \in UpgradeCalls /\ ~ Current(c)'
  <2>1. CASE remaining[c] = NoUpgradeCall
    BY <1>1, <2>1, NoUpgradeCallIsNone DEF Current
  <2>2. CASE remaining[c] # NoUpgradeCall
    <3>1. remaining[c] \in [op : {"simulate", "upgrade"}, of : Subjects, stray : BOOLEAN]
      BY <2>2, NoUpgradeCallIsNone
    <3>2. upgradeCalls'[c] = [remaining[c] EXCEPT !.stray = TRUE]
      BY <1>1, <2>2
    <3>3. /\ upgradeCalls'[c] \in [op : {"simulate", "upgrade"}, of : Subjects, stray : BOOLEAN]
          /\ upgradeCalls'[c].stray
      BY <3>1, <3>2
    <3> QED BY <3>3 DEF Current, UpgradeCalls
  <2> QED BY <2>1, <2>2
<1>3. upgradeCalls' \in [UpgradeCall -> UpgradeCalls]
  BY <1>1, <1>2
<1>4. upgradeStatus' \in {"idle", "simulating", "ready", "submitting"}
  BY <1>1
<1> QED BY <1>1, <1>2, <1>3, <1>4, UpgradeTypes, UpgradeCoreIs

(* Simulate and Upgrade: a call leaves, with what the form holds.          *)
LEMMA SendsHolds ==
  ASSUME UpgradeCore, NEW c \in UpgradeCall, NEW op \in {"simulate", "upgrade"}, Sends(c, op),
         upgradeStatus = IF op = "upgrade" THEN "ready" ELSE "idle",
         upgradeStatus' = IF op = "upgrade" THEN "submitting" ELSE "simulating",
         UNCHANGED <<target, chosenNetwork, simulated, stray, moved>>
  PROVE  UpgradeCore'
<1> DEFINE call == [op |-> op, of |-> Subject, stray |-> FALSE]
<1>1. upgradeCalls' = [upgradeCalls EXCEPT ![c] = call]
  BY DEF Sends
<1>2. call \in UpgradeCalls /\ call.op = op /\ call.of = Subject /\ ~ call.stray
  BY UpgradeTypes DEF UpgradeCalls
<1> HIDE DEF call
<1>3. /\ upgradeCalls' \in [UpgradeCall -> UpgradeCalls] /\ upgradeCalls'[c] = call
      /\ \A d \in UpgradeCall : d # c => upgradeCalls'[d] = upgradeCalls[d]
  BY <1>1, <1>2, UpgradeTypes
<1>4. \A d \in UpgradeCall : d # c => (Current(d)' <=> Current(d))
  BY <1>3 DEF Current
<1>5. ~ stray => \A d \in UpgradeCall : ~ Current(d)
  BY UpgradeIsKnown
<1>6. Subject' = Subject /\ Subject.target = target
  BY DEF Subject
<1>7. \A d \in UpgradeCall : Current(d)' => upgradeCalls'[d].of.target = target'
  BY <1>2, <1>3, <1>4, <1>6, UpgradeTypes
<1>8. upgradeStatus' \in {"ready", "submitting"} /\ ~ stray' /\ ~ moved' => Subject' \in simulated'
  BY <1>6, UpgradeIsKnown
<1>9. ~ stray' => \A d, e \in UpgradeCall : Current(d)' /\ Current(e)' => d = e
  BY <1>4, <1>5
<1>10. ~ stray' => \A d \in UpgradeCall : Current(d)' =>
         upgradeStatus' = IF upgradeCalls'[d].op = "upgrade" THEN "submitting" ELSE "simulating"
  BY <1>2, <1>3, <1>4, <1>5
<1>11. ~ moved' => \A d \in UpgradeCall : Current(d)' => upgradeCalls'[d].of = Subject'
  BY <1>2, <1>3, <1>4, <1>6, UpgradeIsKnown
<1>12. upgradeStatus' \in {"idle", "simulating", "ready", "submitting"}
  OBVIOUS
<1> QED BY <1>3, <1>7, <1>8, <1>9, <1>10, <1>11, <1>12, UpgradeTypes, UpgradeCoreIs

(* A call is answered: it simulated what it sent, or it failed.            *)
LEMMA AnswerHolds ==
  ASSUME UpgradeCore, NEW c \in UpgradeCall, NEW status \in {"idle", "ready"},
         upgradeCalls[c].op \in {"simulate", "upgrade"},
         SetStatus(c, status), Returns(c), UNCHANGED <<target, chosenNetwork>>,
         \/ simulated' = {upgradeCalls[c].of}
         \/ simulated' = simulated /\ (status = "ready" => UpgradeUnderWay(c, "upgrade"))
  PROVE  UpgradeCore'
<1>1. /\ upgradeStatus' = status /\ stray' = (stray \/ upgradeCalls[c].stray)
      /\ moved' = moved /\ upgradeCalls' = [upgradeCalls EXCEPT ![c] = NoUpgradeCall]
  BY DEF SetStatus, Returns
<1>2. /\ upgradeCalls[c] # NoUpgradeCall /\ upgradeCalls[c].of \in Subjects
      /\ upgradeCalls[c].stray \in BOOLEAN
  BY UpgradeTypes, NoUpgradeCallIsNone
<1>3. /\ upgradeCalls' \in [UpgradeCall -> UpgradeCalls] /\ upgradeCalls'[c] = NoUpgradeCall
      /\ \A d \in UpgradeCall : d # c => upgradeCalls'[d] = upgradeCalls[d]
  BY <1>1, UpgradeTypes, NoUpgradeCallIsNone
<1>4. /\ ~ Current(c)' /\ \A d \in UpgradeCall : d # c => (Current(d)' <=> Current(d))
      /\ \A d \in UpgradeCall : Current(d)' => d # c /\ Current(d)
  BY <1>3 DEF Current
<1>5. ~ stray' => ~ stray /\ Current(c)
  BY <1>1, <1>2 DEF Current
<1>6. ~ stray' => \A d \in UpgradeCall : ~ Current(d)'
  BY <1>4, <1>5, UpgradeIsKnown
<1>7. Subject' = Subject
  BY DEF Subject
<1>8. ASSUME upgradeStatus' \in {"ready", "submitting"}, ~ stray', ~ moved'
      PROVE  Subject' \in simulated'
  <2>1. status = "ready" /\ ~ stray /\ ~ moved /\ Current(c)
    BY <1>1, <1>5, <1>8
  <2>2. CASE simulated' = {upgradeCalls[c].of}
    BY <1>7, <2>1, <2>2, UpgradeIsKnown
  <2>3. CASE simulated' = simulated /\ UpgradeUnderWay(c, "upgrade")
    <3>1. upgradeStatus = "submitting"
      BY <2>1, <2>3, UpgradeIsKnown
    <3> QED BY <1>7, <2>1, <2>3, <3>1, UpgradeIsKnown
  <2> QED BY <2>1, <2>2, <2>3
<1>9. \A d \in UpgradeCall : Current(d)' => upgradeCalls'[d].of.target = target'
  BY <1>3, <1>4, UpgradeTypes
<1>10. ~ moved' => \A d \in UpgradeCall : Current(d)' => upgradeCalls'[d].of = Subject'
  BY <1>1, <1>3, <1>4, <1>7, UpgradeIsKnown
<1>11. stray' \in BOOLEAN /\ simulated' \subseteq Subjects
       /\ upgradeStatus' \in {"idle", "simulating", "ready", "submitting"}
  BY <1>1, <1>2, UpgradeTypes
<1> QED BY <1>1, <1>3, <1>6, <1>8, <1>9, <1>10, <1>11, UpgradeTypes, UpgradeCoreIs

LEMMA ChooseNetworkHolds ==
  ASSUME UpgradeCore, NEW n \in UpgradeNetwork, ChooseNetwork(n)
  PROVE  UpgradeCore'
<1>1. /\ chosenNetwork' = n /\ moved' = TRUE
      /\ UNCHANGED <<target, upgradeStatus, upgradeCalls, simulated, stray>>
  BY DEF ChooseNetwork
<1>2. \A c \in UpgradeCall : Current(c)' <=> Current(c)
  BY <1>1 DEF Current
<1>3. ~ stray' => \A c \in UpgradeCall : Current(c)' =>
        upgradeStatus' = IF upgradeCalls'[c].op = "upgrade" THEN "submitting" ELSE "simulating"
  BY <1>1, <1>2, UpgradeIsKnown DEF UpgradeUnderWay
<1> QED BY <1>1, <1>2, <1>3, UpgradeTypes, UpgradeIsKnown, UpgradeCoreIs

LEMMA UpgradeBegins == UpgradeInit => UpgradeCore
<1> SUFFICES ASSUME UpgradeInit PROVE UpgradeCore
  OBVIOUS
<1>1. /\ upgradeStatus = "idle" /\ simulated = {} /\ stray = FALSE /\ moved = FALSE
      /\ target \in Target /\ chosenNetwork \in UpgradeNetwork
      /\ upgradeCalls = [c \in UpgradeCall |-> NoUpgradeCall]
  BY DEF UpgradeInit
<1>2. upgradeCalls \in [UpgradeCall -> UpgradeCalls] /\ \A c \in UpgradeCall : ~ Current(c)
  BY <1>1, NoUpgradeCallIsNone DEF Current
<1> QED BY <1>1, <1>2 DEF UpgradeCore, UpgradeInv, UpgradeTypeOK, ReadyWasSimulated,
                          OneCallUnlessStray, SentFromHere, Current

LEMMA UpgradeSteps == UpgradeCore /\ [UpgradeNext]_upgradeVars => UpgradeCore'
<1> SUFFICES ASSUME UpgradeCore, [UpgradeNext]_upgradeVars PROVE UpgradeCore'
  OBVIOUS
<1>1. ASSUME NEW t \in Target, EditOrClose(t) PROVE UpgradeCore'
  BY <1>1, UpgradeTypes, ResetHoldsUpgrade DEF EditOrClose
<1>2. ASSUME NEW c \in UpgradeCall, Simulate(c) PROVE UpgradeCore'
  BY <1>2, SendsHolds DEF Simulate
<1>3. ASSUME NEW c \in UpgradeCall, Upgrade(c) PROVE UpgradeCore'
  BY <1>3, SendsHolds DEF Upgrade
<1>4. ASSUME NEW c \in UpgradeCall, SimulationSucceeds(c) PROVE UpgradeCore'
  BY <1>4, AnswerHolds DEF SimulationSucceeds, UpgradeUnderWay
<1>5. ASSUME NEW c \in UpgradeCall, SimulationFails(c) PROVE UpgradeCore'
  BY <1>5, AnswerHolds DEF SimulationFails, UpgradeUnderWay
<1>6. ASSUME NEW c \in UpgradeCall, UpgradeFails(c) PROVE UpgradeCore'
  BY <1>6, AnswerHolds DEF UpgradeFails, UpgradeUnderWay
<1>7. ASSUME NEW c \in UpgradeCall, UpgradeSucceeds(c) PROVE UpgradeCore'
  <2>1. [upgradeCalls EXCEPT ![c] = NoUpgradeCall] \in [UpgradeCall -> UpgradeCalls]
    BY UpgradeTypes, NoUpgradeCallIsNone
  <2> QED BY <1>7, <2>1, UpgradeTypes, ResetHoldsUpgrade DEF UpgradeSucceeds
<1>8. CASE UpgradeNext
  BY <1>1, <1>2, <1>3, <1>4, <1>5, <1>6, <1>7, <1>8, ChooseNetworkHolds DEF UpgradeNext
<1>9. CASE UNCHANGED upgradeVars
  <2>1. UNCHANGED <<target, upgradeStatus, upgradeCalls, chosenNetwork, simulated, stray, moved>>
    BY <1>9 DEF upgradeVars
  <2> QED BY <2>1 DEF UpgradeCore, UpgradeInv, UpgradeTypeOK, ReadyWasSimulated,
                      OneCallUnlessStray, SentFromHere, Current, Subject, UpgradeUnderWay
<1> QED BY <1>8, <1>9

LEMMA UpgradeHolds == UpgradeSpec => []UpgradeInv
<1>1. UpgradeCore => UpgradeInv
  BY DEF UpgradeCore
<1> QED BY UpgradeBegins, UpgradeSteps, <1>1, PTL DEF UpgradeSpec

-----------------------------------------------------------------------------
(* UploadForm: a reading that is alone is the only one, its file is the    *)
(* one picked once it is accepted, and no message stands beside it.        *)
ReadingIsTyped(x) ==
  /\ x \in [at : {"none", "bytes", "spec"}, of : Binaries, alone : BOOLEAN]
  /\ x.at # "none" => x.of \in Binary
  /\ x.at = "spec" => x.of \notin Broken
AloneIsOnly ==
  \A p, q \in Reading : Reads(p) /\ Reads(q) /\ readings[p].alone => p = q
AloneIsPicked ==
  \A q \in Reading : Reads(q) /\ readings[q].alone =>
    /\ ~ invalid
    /\ readings[q].at = "spec" => picked = readings[q].of
AsksOfNow == asked \in {uploadNetwork, DefaultLimit}

UploadCore ==
  /\ UploadTypeOK /\ \A q \in Reading : ReadingIsTyped(readings[q])
  /\ AloneIsOnly /\ AloneIsPicked /\ AsksOfNow
  /\ PreviewIsOfTheBinary /\ PresetIsOfTheShown /\ LimitIsOfTheNetwork

LEMMA UploadTypes ==
  ASSUME UploadCore
  PROVE  /\ picked \in Binaries \ Broken /\ stats \in Binaries \ Broken /\ invalid \in BOOLEAN
         /\ initOf \in WithConstructor \cup {NoBinary} /\ argsOf \in WithInputs \cup {NoBinary}
         /\ initEdited \in BOOLEAN /\ inCompany \in BOOLEAN
         /\ DOMAIN readings = Reading /\ \A q \in Reading : ReadingIsTyped(readings[q])
         /\ readings = [q \in Reading |-> readings[q]]
         /\ limit \in Limits /\ asked \in Limits /\ uploadNetwork \in UploadNetwork
         /\ installing \in BOOLEAN
BY DEF UploadCore, UploadTypeOK

LEMMA NoBinaryIsNone ==
  /\ NoBinary \in Binaries \ Broken /\ NoBinary \notin WithConstructor /\ NoBinary \notin Binary
  /\ NoReading.at = "none" /\ NoReading.alone /\ ReadingIsTyped(NoReading)
  /\ DefaultLimit \in Limits /\ UploadNetwork \subseteq Limits /\ DefaultLimit \notin UploadNetwork
<1>1. NoBinary \in Binaries \ Broken /\ NoBinary \notin WithConstructor /\ NoBinary \notin Binary
  BY UploadAssumption DEF Binaries
<1>2. NoReading.at = "none" /\ NoReading.alone /\ ReadingIsTyped(NoReading)
  BY <1>1 DEF NoReading, ReadingIsTyped
<1>3. DefaultLimit \in Limits /\ UploadNetwork \subseteq Limits /\ DefaultLimit \notin UploadNetwork
  BY UploadAssumption DEF Limits
<1> QED BY <1>1, <1>2, <1>3

(* Where another reading or an emptied form disturbs them, no reading that *)
(* is under way is alone.                                                  *)
LEMMA DisturbedAreNotAlone ==
  ASSUME UploadCore, NEW q \in Reading
  PROVE  /\ ReadingIsTyped(Disturbed[q]) /\ Disturbed[q].at = readings[q].at
         /\ Reads(q) => ~ Disturbed[q].alone /\ Disturbed[q].of = readings[q].of
         /\ ~ Reads(q) => Disturbed[q] = readings[q]
<1>1. ReadingIsTyped(readings[q])
  BY UploadTypes
<1>2. Disturbed[q] = IF Reads(q) THEN [readings[q] EXCEPT !.alone = FALSE] ELSE readings[q]
  BY DEF Disturbed
<1>3. CASE Reads(q)
  <2>1. Disturbed[q] = [readings[q] EXCEPT !.alone = FALSE]
    BY <1>2, <1>3
  <2> HIDE DEF Disturbed
  <2> QED BY <1>1, <1>3, <2>1 DEF ReadingIsTyped
<1>4. CASE ~ Reads(q)
  BY <1>1, <1>2, <1>4
<1> QED BY <1>3, <1>4

(* The parts of the invariant that only look at the limit, and at the      *)
(* constructor.                                                            *)
LEMMA UploadCoreIs ==
  ASSUME picked' \in Binaries \ Broken, stats' \in Binaries \ Broken, invalid' \in BOOLEAN,
         initOf' \in WithConstructor \cup {NoBinary}, argsOf' \in WithInputs \cup {NoBinary},
         initEdited' \in BOOLEAN, inCompany' \in BOOLEAN,
         readings' = [q \in Reading |-> readings'[q]],
         \A q \in Reading : ReadingIsTyped(readings'[q]),
         limit' \in Limits, asked' \in Limits, uploadNetwork' \in UploadNetwork,
         installing' \in BOOLEAN, asked' \in {uploadNetwork', DefaultLimit},
         limit' \in {uploadNetwork', DefaultLimit} \/ asked' = uploadNetwork',
         PresetIsOfTheShown',
         AloneIsOnly', AloneIsPicked', PreviewIsOfTheBinary'
  PROVE  UploadCore'
<1>1. readings' \in [Reading -> [at : {"none", "bytes", "spec"}, of : Binaries, alone : BOOLEAN]]
  BY DEF ReadingIsTyped
<1>2. UploadTypeOK'
  BY <1>1 DEF UploadTypeOK
<1>3. (\A q \in Reading : ReadingIsTyped(readings[q]))'
  BY DEF ReadingIsTyped
<1> QED BY <1>2, <1>3 DEF UploadCore, AsksOfNow, LimitIsOfTheNetwork

LEMMA PickFileHolds ==
  ASSUME UploadCore, NEW q \in Reading, NEW f \in Binary, PickFile(q, f)
  PROVE  UploadCore'
<1> DEFINE only == \A p \in Reading : ~ Reads(p)
           new == [at |-> "bytes", of |-> f, alone |-> only]
<1>1. /\ ~ Reads(q) /\ readings' = [Disturbed EXCEPT ![q] = new] /\ invalid' = FALSE
      /\ UNCHANGED <<picked, stats, initOf, argsOf, initEdited, inCompany, limit, asked,
                     uploadNetwork, installing>>
  BY DEF PickFile, presetVars
<1>2. new.at = "bytes" /\ new.of = f /\ (new.alone <=> only) /\ ReadingIsTyped(new)
  <2> DEFINE b == only
  <2>1. b \in BOOLEAN
    OBVIOUS
  <2> QED BY <2>1 DEF ReadingIsTyped, Binaries
<1> HIDE DEF new
<1>3. DOMAIN Disturbed = Reading
  BY DEF Disturbed
<1>4. /\ readings' = [p \in Reading |-> readings'[p]] /\ readings'[q] = new
      /\ \A p \in Reading : p # q => readings'[p] = Disturbed[p]
  BY <1>1, <1>3
<1>5. \A p \in Reading : ReadingIsTyped(readings'[p])
  BY <1>2, <1>4, DisturbedAreNotAlone
<1>6. \A p \in Reading : p # q => (Reads(p)' <=> Reads(p)) /\ (Reads(p)' => ~ readings'[p].alone)
  BY <1>4, DisturbedAreNotAlone DEF Reads
<1>7. Reads(q)' /\ (readings'[q].alone <=> only)
  BY <1>2, <1>4 DEF Reads
<1>8. AloneIsOnly'
  BY <1>6, <1>7 DEF AloneIsOnly
<1>9. AloneIsPicked'
  BY <1>1, <1>2, <1>4, <1>6, <1>7 DEF AloneIsPicked
<1>10. ASSUME ~ Mixed' PROVE stats = picked
  <2>1. ~ inCompany /\ only
    BY <1>1, <1>7, <1>10 DEF Mixed
  <2>2. ~ Mixed /\ ~ Parsing(picked)
    BY <2>1 DEF Mixed, Parsing, Reads
  <2> QED BY <2>2 DEF UploadCore, PreviewIsOfTheBinary
<1>11. PreviewIsOfTheBinary'
  BY <1>1, <1>10 DEF PreviewIsOfTheBinary
<1> QED BY <1>1, <1>4, <1>5, <1>8, <1>9, <1>11, UploadTypes, UploadCoreIs
        DEF UploadCore, AsksOfNow, PresetIsOfTheShown, LimitIsOfTheNetwork

(* A reading ends: what it leaves counts if it was alone.                  *)
LEMMA ReadingEndsHolds ==
  ASSUME UploadCore, NEW q \in Reading, Reads(q), ReadingEnds(q)
  PROVE  /\ readings' = [p \in Reading |-> readings'[p]]
         /\ \A p \in Reading : ReadingIsTyped(readings'[p])
         /\ inCompany' \in BOOLEAN /\ AloneIsOnly'
         /\ ~ Mixed' => readings[q].alone /\ \A p \in Reading : ~ Reads(p)'
         /\ \A p \in Reading : Reads(p)' => p # q /\ Reads(p) /\ readings'[p] = readings[p]
         /\ \A p \in Reading : Reads(p)' => ~ readings[q].alone /\ ~ readings[p].alone
<1>1. readings' = [readings EXCEPT ![q] = NoReading] /\ inCompany' = ~ readings[q].alone
  BY DEF ReadingEnds
<1>2. /\ readings' = [p \in Reading |-> readings'[p]] /\ readings'[q] = NoReading
      /\ \A p \in Reading : p # q => readings'[p] = readings[p]
  BY <1>1, UploadTypes
<1>3. \A p \in Reading : Reads(p)' => p # q /\ Reads(p) /\ readings'[p] = readings[p]
  BY <1>2, NoBinaryIsNone DEF Reads
<1>4. \A p \in Reading : Reads(p)' => ~ readings[q].alone /\ ~ readings[p].alone
  BY <1>3 DEF UploadCore, AloneIsOnly
<1>5. ~ Mixed' => readings[q].alone /\ \A p \in Reading : ~ Reads(p)'
  BY <1>1, <1>4 DEF Mixed
<1>6. AloneIsOnly'
  BY <1>3, <1>4 DEF AloneIsOnly
<1>7. \A p \in Reading : ReadingIsTyped(readings'[p])
  BY <1>2, UploadTypes, NoBinaryIsNone
<1>8. readings[q].alone \in BOOLEAN
  BY UploadTypes DEF ReadingIsTyped
<1> QED BY <1>1, <1>2, <1>3, <1>4, <1>5, <1>6, <1>7, <1>8

LEMMA RejectFileHolds ==
  ASSUME UploadCore, NEW q \in Reading, RejectFile(q)
  PROVE  UploadCore'
<1>1. /\ Reads(q) /\ ReadingEnds(q) /\ invalid' = TRUE /\ picked' = NoBinary /\ stats' = NoBinary
      /\ UNCHANGED <<initOf, argsOf, initEdited, limit, asked, uploadNetwork, installing>>
  BY DEF RejectFile, Rejected, presetVars
<1>2. AloneIsPicked'
  BY <1>1, ReadingEndsHolds DEF AloneIsPicked
<1>3. PreviewIsOfTheBinary'
  BY <1>1 DEF PreviewIsOfTheBinary
<1>4. stats' \in Binaries \ Broken /\ picked' \in Binaries \ Broken /\ PresetIsOfTheShown'
  BY <1>1, NoBinaryIsNone DEF PresetIsOfTheShown
<1>5. limit' \in {uploadNetwork', DefaultLimit} \/ asked' = uploadNetwork'
  BY <1>1 DEF UploadCore, LimitIsOfTheNetwork
<1>6. asked' \in {uploadNetwork', DefaultLimit}
  BY <1>1 DEF UploadCore, AsksOfNow
<1> QED BY <1>1, <1>2, <1>3, <1>4, <1>5, <1>6, ReadingEndsHolds, UploadTypes, UploadCoreIs

LEMMA ParseFileHolds ==
  ASSUME UploadCore, NEW q \in Reading, ParseFile(q)
  PROVE  UploadCore'
<1> DEFINE f == readings[q].of
<1>1. /\ readings[q].at = "spec" /\ stats' = f /\ ReadingEnds(q)
      /\ FillsIn(f)
      /\ UNCHANGED <<picked, invalid, limit, asked, uploadNetwork, installing>>
  BY DEF ParseFile
<1>2. Reads(q) /\ f \in Binary \ Broken /\ f \in Binaries \ Broken
  BY <1>1, UploadTypes DEF ReadingIsTyped, Reads, Binaries
<1>3. AloneIsPicked'
  BY <1>2, <1>1, ReadingEndsHolds DEF AloneIsPicked
<1>4. ASSUME ~ Mixed' PROVE picked = f /\ ~ invalid
  BY <1>1, <1>2, <1>4, ReadingEndsHolds DEF UploadCore, AloneIsPicked
<1>5. PreviewIsOfTheBinary'
  BY <1>1, <1>2, <1>4, NoBinaryIsNone DEF PreviewIsOfTheBinary
<1>6. /\ initOf' \in WithConstructor \cup {NoBinary} /\ argsOf' \in WithInputs \cup {NoBinary}
      /\ initEdited' \in BOOLEAN /\ PresetIsOfTheShown'
  <2>1. /\ initOf' = IF f \in WithConstructor THEN f ELSE initOf
        /\ argsOf' = IF f \in WithInputs THEN f ELSE argsOf
        /\ initEdited' = (initEdited /\ f \notin WithConstructor) /\ stats' = f
    BY <1>1 DEF FillsIn
  <2> HIDE DEF f
  <2>2. initEdited' \in BOOLEAN
    BY <2>1
  <2>3. PresetIsOfTheShown'
    BY <2>1 DEF PresetIsOfTheShown
  <2> QED BY <2>1, <2>2, <2>3, UploadTypes
<1>7. limit' \in {uploadNetwork', DefaultLimit} \/ asked' = uploadNetwork'
  BY <1>1 DEF UploadCore, LimitIsOfTheNetwork
<1>8. asked' \in {uploadNetwork', DefaultLimit}
  BY <1>1 DEF UploadCore, AsksOfNow
<1> HIDE DEF f
<1> QED BY <1>1, <1>2, <1>3, <1>5, <1>6, <1>7, <1>8, ReadingEndsHolds, UploadTypes, UploadCoreIs

LEMMA AcceptFileHolds ==
  ASSUME UploadCore, NEW q \in Reading, AcceptFile(q)
  PROVE  UploadCore'
<1> DEFINE next == [readings[q] EXCEPT !.at = "spec"]
<1>1. /\ readings[q].at = "bytes" /\ readings[q].of \notin Broken /\ picked' = readings[q].of
      /\ readings' = [readings EXCEPT ![q] = next]
      /\ UNCHANGED <<stats, invalid, initOf, argsOf, initEdited, inCompany, limit, asked, uploadNetwork,
                     installing>>
  BY UploadTypes DEF AcceptFile, presetVars
<1>2. /\ next.at = "spec" /\ next.of = readings[q].of /\ next.alone = readings[q].alone
      /\ ReadingIsTyped(next) /\ readings[q].of \in Binary
  BY <1>1, UploadTypes DEF ReadingIsTyped
<1> HIDE DEF next
<1>3. /\ readings' = [p \in Reading |-> readings'[p]] /\ readings'[q] = next
      /\ \A p \in Reading : p # q => readings'[p] = readings[p]
  BY <1>1, UploadTypes
<1>4. \A p \in Reading : ReadingIsTyped(readings'[p])
  BY <1>2, <1>3, UploadTypes
<1>5. \A p \in Reading : (Reads(p)' <=> Reads(p)) /\ readings'[p].alone = readings[p].alone
  BY <1>1, <1>2, <1>3 DEF Reads
<1>6. Reads(q)
  BY <1>1 DEF Reads
<1>7. AloneIsOnly'
  BY <1>5 DEF UploadCore, AloneIsOnly
<1>8. AloneIsPicked'
  <2> SUFFICES ASSUME NEW p \in Reading, Reads(p)', readings'[p].alone
               PROVE  ~ invalid /\ (readings'[p].at = "spec" => picked' = readings'[p].of)
    BY <1>1 DEF AloneIsPicked
  <2>1. p = q /\ ~ invalid
    BY <1>5, <1>6 DEF UploadCore, AloneIsOnly, AloneIsPicked
  <2> QED BY <1>1, <1>2, <1>3, <2>1
<1>9. ASSUME ~ Mixed' PROVE ~ invalid
  <2>1. readings[q].alone
    BY <1>5, <1>6, <1>9 DEF Mixed
  <2> QED BY <1>6, <2>1 DEF UploadCore, AloneIsPicked
<1>10. Parsing(picked)'
  BY <1>1, <1>2, <1>3 DEF Parsing
<1>11. picked' # NoBinary /\ picked' \in Binaries \ Broken
  BY <1>1, <1>2, NoBinaryIsNone DEF Binaries
<1>12. PreviewIsOfTheBinary'
  BY <1>1, <1>9, <1>10, <1>11 DEF PreviewIsOfTheBinary
<1>13. limit' \in {uploadNetwork', DefaultLimit} \/ asked' = uploadNetwork'
  BY <1>1 DEF UploadCore, LimitIsOfTheNetwork
<1>14. asked' \in {uploadNetwork', DefaultLimit}
  BY <1>1 DEF UploadCore, AsksOfNow
<1>15. PresetIsOfTheShown'
  BY <1>1 DEF UploadCore, PresetIsOfTheShown
<1> QED BY <1>1, <1>3, <1>4, <1>7, <1>8, <1>11, <1>12, <1>13, <1>14, <1>15, UploadTypes, UploadCoreIs

(* The form is emptied, at a click or after an install.                    *)
LEMMA ClearedHolds ==
  ASSUME UploadCore, Cleared, readings' = Disturbed, invalid' \in BOOLEAN, installing' \in BOOLEAN,
         UNCHANGED <<initOf, argsOf, initEdited, inCompany, limit, asked, uploadNetwork>>
  PROVE  UploadCore'
<1>1. picked' = NoBinary /\ stats' = NoBinary
  BY DEF Cleared
<1>2. readings' = [p \in Reading |-> readings'[p]]
  BY DEF Disturbed
<1>3. \A p \in Reading : ReadingIsTyped(readings'[p])
  BY DisturbedAreNotAlone
<1>4. \A p \in Reading : Reads(p)' => ~ readings'[p].alone
  BY DisturbedAreNotAlone DEF Reads
<1>5. AloneIsOnly' /\ AloneIsPicked'
  BY <1>4 DEF AloneIsOnly, AloneIsPicked
<1>6. PreviewIsOfTheBinary'
  BY <1>1 DEF PreviewIsOfTheBinary
<1>7. limit' \in {uploadNetwork', DefaultLimit} \/ asked' = uploadNetwork'
  BY DEF UploadCore, LimitIsOfTheNetwork
<1>8. asked' \in {uploadNetwork', DefaultLimit}
  BY DEF UploadCore, AsksOfNow
<1>9. stats' \in Binaries \ Broken /\ picked' \in Binaries \ Broken /\ PresetIsOfTheShown'
  BY <1>1, NoBinaryIsNone DEF PresetIsOfTheShown
<1> QED BY <1>2, <1>3, <1>5, <1>6, <1>7, <1>8, <1>9, UploadTypes, UploadCoreIs

(* The limit, the network and the install button: the file stays.          *)
LEMMA FormStaysHolds ==
  ASSUME UploadCore, UNCHANGED <<picked, stats, invalid, presetVars, readings, inCompany>>,
         limit' \in Limits, asked' \in Limits, uploadNetwork' \in UploadNetwork,
         installing' \in BOOLEAN, asked' \in {uploadNetwork', DefaultLimit},
         limit' \in {uploadNetwork', DefaultLimit} \/ asked' = uploadNetwork'
  PROVE  UploadCore'
<1>1. AloneIsOnly' /\ AloneIsPicked'
  BY DEF UploadCore, AloneIsOnly, AloneIsPicked, Reads
<1>2. PreviewIsOfTheBinary'
  BY DEF UploadCore, PreviewIsOfTheBinary, Mixed, Parsing, Reads
<1>3. PresetIsOfTheShown' /\ UNCHANGED <<initOf, argsOf, initEdited>>
  BY DEF UploadCore, PresetIsOfTheShown, presetVars
<1>4. readings' = [q \in Reading |-> readings'[q]] /\ \A q \in Reading : ReadingIsTyped(readings'[q])
  BY UploadTypes
<1> QED BY <1>1, <1>2, <1>3, <1>4, UploadTypes, UploadCoreIs

LEMMA EditInitCallHolds ==
  ASSUME UploadCore, EditInitCall PROVE UploadCore'
<1>1. /\ initEdited' = TRUE /\ initOf' \in {initOf, NoBinary} /\ argsOf' \in {argsOf, NoBinary}
      /\ UNCHANGED <<picked, stats, invalid, readings, inCompany, limit, asked, uploadNetwork,
                     installing>>
  BY DEF EditInitCall
<1>2. AloneIsOnly' /\ AloneIsPicked'
  BY <1>1 DEF UploadCore, AloneIsOnly, AloneIsPicked, Reads
<1>3. PreviewIsOfTheBinary'
  BY <1>1 DEF UploadCore, PreviewIsOfTheBinary, Mixed, Parsing, Reads
<1>4. PresetIsOfTheShown'
  BY <1>1 DEF PresetIsOfTheShown
<1>5. limit \in {uploadNetwork, DefaultLimit} \/ asked = uploadNetwork
  BY DEF UploadCore, LimitIsOfTheNetwork
<1>6. asked \in {uploadNetwork, DefaultLimit}
  BY DEF UploadCore, AsksOfNow
<1>7. /\ readings' = [q \in Reading |-> readings'[q]]
      /\ \A q \in Reading : ReadingIsTyped(readings'[q])
  BY <1>1, UploadTypes
<1> QED BY <1>1, <1>2, <1>3, <1>4, <1>5, <1>6, <1>7, UploadTypes, UploadCoreIs

LEMMA UploadBegins == UploadInit => UploadCore
<1> SUFFICES ASSUME UploadInit PROVE UploadCore
  OBVIOUS
<1>1. /\ picked = NoBinary /\ stats = NoBinary /\ invalid = FALSE /\ initOf = NoBinary
      /\ argsOf = NoBinary /\ initEdited = FALSE
      /\ readings = [q \in Reading |-> NoReading] /\ inCompany = FALSE
      /\ uploadNetwork \in UploadNetwork /\ limit = DefaultLimit /\ asked = uploadNetwork
      /\ installing = FALSE
  BY DEF UploadInit
<1>2. \A q \in Reading : ReadingIsTyped(readings[q]) /\ ~ Reads(q)
  BY <1>1, NoBinaryIsNone DEF Reads
<1>3. readings \in [Reading -> [at : {"none", "bytes", "spec"}, of : Binaries, alone : BOOLEAN]]
  BY <1>1, NoBinaryIsNone DEF ReadingIsTyped
<1>4. UploadTypeOK
  BY <1>1, <1>3, NoBinaryIsNone DEF UploadTypeOK
<1>5. AloneIsOnly /\ AloneIsPicked /\ AsksOfNow
  BY <1>1, <1>2 DEF AloneIsOnly, AloneIsPicked, AsksOfNow
<1>6. PreviewIsOfTheBinary /\ PresetIsOfTheShown /\ LimitIsOfTheNetwork
  BY <1>1, NoBinaryIsNone DEF PreviewIsOfTheBinary, PresetIsOfTheShown, LimitIsOfTheNetwork
<1> QED BY <1>2, <1>4, <1>5, <1>6 DEF UploadCore

LEMMA UploadSteps == UploadCore /\ [UploadNext]_uploadVars => UploadCore'
<1> SUFFICES ASSUME UploadCore, [UploadNext]_uploadVars PROVE UploadCore'
  OBVIOUS
<1>1. limit \in {uploadNetwork, DefaultLimit} \/ asked = uploadNetwork
  BY DEF UploadCore, LimitIsOfTheNetwork
<1>2. asked \in {uploadNetwork, DefaultLimit}
  BY DEF UploadCore, AsksOfNow
<1>3. ASSUME NEW n \in UploadNetwork, FetchLimit(n) PROVE UploadCore'
  <2>1. n = uploadNetwork /\ limit' \in {n, DefaultLimit} /\ asked' = DefaultLimit
    BY <1>2, <1>3, NoBinaryIsNone DEF FetchLimit, FetchedLimit
  <2> QED BY <1>3, <2>1, NoBinaryIsNone, UploadTypes, FormStaysHolds DEF FetchLimit
<1>4. ASSUME NEW n \in UploadNetwork, ChangeUploadNetwork(n) PROVE UploadCore'
  BY <1>4, NoBinaryIsNone, UploadTypes, FormStaysHolds DEF ChangeUploadNetwork
<1>5. ASSUME ClearSelection PROVE UploadCore'
  BY <1>5, UploadTypes, ClearedHolds DEF ClearSelection, presetVars
<1>6. ASSUME BeginInstallFile \/ InstallFileFails PROVE UploadCore'
  BY <1>1, <1>2, <1>6, UploadTypes, FormStaysHolds DEF BeginInstallFile, InstallFileFails
<1>7. ASSUME InstallFileSucceeds PROVE UploadCore'
  BY <1>7, UploadTypes, ClearedHolds DEF InstallFileSucceeds, presetVars
<1>8. CASE UploadNext
  BY <1>3, <1>4, <1>5, <1>6, <1>7, <1>8, PickFileHolds, RejectFileHolds, AcceptFileHolds,
     ParseFileHolds, EditInitCallHolds DEF UploadNext
<1>9. CASE UNCHANGED uploadVars
  BY <1>1, <1>2, <1>9, UploadTypes, FormStaysHolds DEF uploadVars
<1> QED BY <1>8, <1>9

(* With a file that is read, alone and not being parsed, the button offers *)
(* what the page shows, and within the limit.                              *)
LEMMA UploadHolds == UploadSpec => []UploadInv
<1>1. UploadCore => UploadInv
  <2> SUFFICES ASSUME UploadCore PROVE UploadInv
    OBVIOUS
  <2>1. InstallsAsShown
    BY DEF UploadCore, PreviewIsOfTheBinary, InstallsAsShown, InstallOffered
  <2> QED BY <2>1 DEF UploadCore, UploadInv
<1> QED BY UploadBegins, UploadSteps, <1>1, PTL DEF UploadSpec

(* The forms of the deployment pages, for any files, networks, calls and   *)
(* limits: the wizard deploys only what it has simulated, the upgrade      *)
(* dialog is ready only for what it has simulated, and the studio shows,   *)
(* checks and installs one file at a time, but for the races they name.    *)
THEOREM FormsHold == WizardSpec /\ UpgradeSpec /\ UploadSpec => []FormsInv
<1>1. WizardInv /\ UpgradeInv /\ UploadInv => FormsInv
  BY DEF FormsInv
<1> QED BY WizardHolds, UpgradeHolds, UploadHolds, <1>1, PTL

-----------------------------------------------------------------------------
(* ContractHistory for any contracts and any limit.  Undo and redo write   *)
(* whole lists, so none of the lists they hold may name a contract twice   *)
(* (ListsAreSets).                                                         *)
Distinct(list) == \A i, j \in 1 .. Len(list) : list[i] = list[j] => i = j
DistinctStep(s) == s \in Step /\ Distinct(s.restore) /\ Distinct(s.contracts)
ListsAreSets ==
  /\ \A i \in 1 .. Len(undoStack) : DistinctStep(undoStack[i])
  /\ \A i \in 1 .. Len(redoStack) : DistinctStep(redoStack[i])

HistoryCore == HistoryInv /\ ListsAreSets

LEMMA HistoryBegins == HistoryInit => HistoryCore
BY HistoryAssumption DEF HistoryInit, HistoryCore, HistoryInv, HistoryTypeOK, HistoryIsOneLine,
   NoDuplicates, ListsAreSets, Lists

(* What the cap keeps of a stack that has grown by one. *)
LEMMA CappedFacts ==
  ASSUME NEW stack \in Seq(Step), NEW s \in Step, Len(stack) <= UndoLimit
  PROVE  LET c == Capped(Append(stack, s))
         IN /\ c \in Seq(Step) /\ c # <<>> /\ Len(c) <= UndoLimit /\ Len(c) <= Len(stack) + 1
            /\ Last(c) = s
            /\ \/ Len(c) = Len(stack) + 1 /\ \A i \in 1 .. Len(stack) : c[i] = stack[i]
               \/ Len(c) = Len(stack) /\ \A i \in 1 .. Len(stack) - 1 : c[i] = stack[i + 1]
<1> DEFINE grown == Append(stack, s)
<1>1. /\ grown \in Seq(Step) /\ Len(grown) = Len(stack) + 1 /\ grown[Len(stack) + 1] = s
      /\ \A i \in 1 .. Len(stack) : grown[i] = stack[i]
  OBVIOUS
<1>2. UndoLimit \in Nat \ {0} /\ Len(stack) \in Nat
  BY HistoryAssumption
<1> HIDE DEF grown
<1>3. CASE Len(grown) > UndoLimit
  <2>1. /\ Tail(grown) \in Seq(Step) /\ Len(Tail(grown)) = Len(stack)
        /\ \A i \in 1 .. Len(stack) : Tail(grown)[i] = grown[i + 1]
    BY <1>1, <1>2
  <2>2. Len(stack) = UndoLimit
    BY <1>1, <1>2, <1>3
  <2>3. Tail(grown)[Len(stack)] = s
    BY <1>1, <1>2, <2>1, <2>2
  <2>5. Tail(grown) # <<>>
    BY <1>2, <2>1, <2>2
  <2>4. \A i \in 1 .. Len(stack) - 1 : Tail(grown)[i] = stack[i + 1]
    BY <1>1, <1>2, <2>1
  <2> QED BY <1>2, <1>3, <2>1, <2>2, <2>3, <2>4, <2>5 DEF Capped, Last, grown
<1>4. CASE ~ Len(grown) > UndoLimit
  <2>1. grown # <<>>
    BY <1>1, <1>2
  <2> QED BY <1>1, <1>2, <1>4, <2>1 DEF Capped, Last, grown
<1> QED BY <1>3, <1>4

(* The line of actions goes on with one that begins with the list shown.   *)
LEMMA PushedHolds ==
  ASSUME HistoryCore, NEW s, DistinctStep(s), s.restore = contracts,
         undoStack' = Capped(Append(undoStack, s))
  PROVE  /\ undoStack' \in Seq(Step) /\ undoStack' # <<>>
         /\ Len(undoStack') <= UndoLimit /\ Len(undoStack') <= Len(undoStack) + 1
         /\ Last(undoStack') = s
         /\ \A i \in 1 .. Len(undoStack') - 1 : undoStack'[i].contracts = undoStack'[i + 1].restore
         /\ \A i \in 1 .. Len(undoStack') : DistinctStep(undoStack'[i])
<1>1. s \in Step
  BY DEF DistinctStep
<1>2. /\ undoStack \in Seq(Step) /\ Len(undoStack) <= UndoLimit /\ Len(undoStack) \in Nat
      /\ UndoLimit \in Nat
  BY HistoryAssumption DEF HistoryCore, HistoryInv, HistoryTypeOK
<1>3. /\ undoStack' \in Seq(Step) /\ undoStack' # <<>>
      /\ Len(undoStack') <= UndoLimit /\ Len(undoStack') <= Len(undoStack) + 1
      /\ Last(undoStack') = s
      /\ \/ /\ Len(undoStack') = Len(undoStack) + 1
            /\ \A i \in 1 .. Len(undoStack) : undoStack'[i] = undoStack[i]
         \/ /\ Len(undoStack') = Len(undoStack)
            /\ \A i \in 1 .. Len(undoStack) - 1 : undoStack'[i] = undoStack[i + 1]
  BY <1>1, <1>2, CappedFacts
<1>4. undoStack'[Len(undoStack')] = s
  BY <1>3 DEF Last
<1>5. \A i \in 1 .. Len(undoStack') - 1 : undoStack'[i].contracts = undoStack'[i + 1].restore
  <2>1. /\ \A i \in 1 .. Len(undoStack) - 1 : undoStack[i].contracts = undoStack[i + 1].restore
        /\ undoStack # <<>> => undoStack[Len(undoStack)].contracts = contracts
    BY DEF HistoryCore, HistoryInv, HistoryIsOneLine, Last
  <2>2. Len(undoStack) > 0 => undoStack # <<>>
    OBVIOUS
  <2>3. CASE /\ Len(undoStack') = Len(undoStack) + 1
             /\ \A i \in 1 .. Len(undoStack) : undoStack'[i] = undoStack[i]
    BY <1>2, <1>4, <2>1, <2>2, <2>3
  <2>4. CASE /\ Len(undoStack') = Len(undoStack)
             /\ \A i \in 1 .. Len(undoStack) - 1 : undoStack'[i] = undoStack[i + 1]
    BY <1>2, <1>4, <2>1, <2>2, <2>4
  <2> QED BY <1>3, <2>3, <2>4
<1>6. \A i \in 1 .. Len(undoStack') : DistinctStep(undoStack'[i])
  <2>1. \A i \in 1 .. Len(undoStack) : DistinctStep(undoStack[i])
    BY DEF HistoryCore, ListsAreSets
  <2> QED BY <1>2, <1>3, <1>4, <2>1
<1> QED BY <1>3, <1>5, <1>6

LEMMA RecordedHolds ==
  ASSUME HistoryCore, NEW list \in Lists, Distinct(list), WithHistory(list)
  PROVE  HistoryCore'
<1> DEFINE s == [restore |-> contracts, contracts |-> list]
<1>1. DistinctStep(s) /\ s.restore = contracts /\ s.contracts = list
  BY DEF HistoryCore, HistoryInv, HistoryTypeOK, NoDuplicates, DistinctStep, Distinct, Step
<1>2. /\ contracts' = list /\ redoStack' = <<>> /\ undoStack' = Capped(Append(undoStack, s))
  BY DEF WithHistory
<1> HIDE DEF s
<1>3. /\ undoStack' \in Seq(Step) /\ undoStack' # <<>>
      /\ Len(undoStack') <= UndoLimit /\ Last(undoStack') = s
      /\ \A i \in 1 .. Len(undoStack') - 1 : undoStack'[i].contracts = undoStack'[i + 1].restore
      /\ \A i \in 1 .. Len(undoStack') : DistinctStep(undoStack'[i])
  BY <1>1, <1>2, PushedHolds
<1>4. HistoryTypeOK'
  BY <1>2, <1>3, HistoryAssumption DEF HistoryTypeOK
<1>5. HistoryIsOneLine'
  BY <1>1, <1>2, <1>3 DEF HistoryIsOneLine
<1>6. NoDuplicates' /\ ListsAreSets'
  BY <1>2, <1>3 DEF NoDuplicates, Distinct, ListsAreSets
<1> QED BY <1>4, <1>5, <1>6 DEF HistoryCore, HistoryInv

(* The front of a stack that is not empty. *)
LEMMA FrontFacts ==
  ASSUME NEW stack \in Seq(Step), stack # <<>>
  PROVE  /\ Front(stack) \in Seq(Step) /\ Len(Front(stack)) = Len(stack) - 1
         /\ Len(stack) \in Nat \ {0}
         /\ \A i \in 1 .. Len(stack) - 1 : Front(stack)[i] = stack[i]
<1>1. Len(stack) \in Nat \ {0}
  OBVIOUS
<1>2. \A i \in 1 .. Len(stack) - 1 : stack[i] \in Step
  BY <1>1
<1>3. Front(stack) = [i \in 1 .. Len(stack) - 1 |-> stack[i]]
  BY <1>1 DEF Front
<1>4. Len(stack) - 1 \in Nat
  BY <1>1
<1> QED BY <1>1, <1>2, <1>3, <1>4

LEMMA UndoHolds ==
  ASSUME HistoryCore, Undo
  PROVE  HistoryCore'
<1> DEFINE s == Last(undoStack)
<1>1. /\ undoStack \in Seq(Step) /\ undoStack # <<>> /\ redoStack \in Seq(Step)
      /\ Len(undoStack) + Len(redoStack) <= UndoLimit
      /\ contracts' = s.restore /\ undoStack' = Front(undoStack) /\ redoStack' = Append(redoStack, s)
  BY DEF Undo, HistoryCore, HistoryInv, HistoryTypeOK
<1>2. /\ undoStack' \in Seq(Step) /\ Len(undoStack') = Len(undoStack) - 1
      /\ Len(undoStack) \in Nat \ {0}
      /\ \A i \in 1 .. Len(undoStack) - 1 : undoStack'[i] = undoStack[i]
  BY <1>1, FrontFacts
<1>3. /\ \A i \in 1 .. Len(undoStack) - 1 : undoStack[i].contracts = undoStack[i + 1].restore
      /\ s.contracts = contracts
      /\ redoStack # <<>> => Last(redoStack).restore = contracts
      /\ \A i \in 1 .. Len(redoStack) - 1 : redoStack[i + 1].contracts = redoStack[i].restore
  BY <1>1 DEF HistoryCore, HistoryInv, HistoryIsOneLine
<1>4. DistinctStep(s) /\ s = undoStack[Len(undoStack)]
  BY <1>1, <1>2 DEF HistoryCore, ListsAreSets, Last
<1>5. s \in Step
  BY <1>4 DEF DistinctStep
<1> HIDE DEF s
<1>6. /\ redoStack' \in Seq(Step) /\ Len(redoStack') = Len(redoStack) + 1 /\ Len(redoStack) \in Nat
      /\ redoStack'[Len(redoStack) + 1] = s
      /\ \A i \in 1 .. Len(redoStack) : redoStack'[i] = redoStack[i]
  BY <1>1, <1>5
<1>7. HistoryTypeOK'
  BY <1>1, <1>2, <1>5, <1>6, HistoryAssumption DEF HistoryTypeOK, Step
<1>8. HistoryIsOneLine'
  <2>1. \A i \in 1 .. Len(undoStack') - 1 : undoStack'[i].contracts = undoStack'[i + 1].restore
    BY <1>2, <1>3
  <2>2. undoStack' # <<>> => Last(undoStack').contracts = contracts'
    <3>1. undoStack' # <<>> => Len(undoStack') \in 1 .. Len(undoStack) - 1
      BY <1>2
    <3> QED BY <1>1, <1>2, <1>3, <1>4, <3>1 DEF Last
  <2>3. Last(redoStack').restore = contracts'
    BY <1>1, <1>6 DEF Last
  <2>4. \A i \in 1 .. Len(redoStack') - 1 : redoStack'[i + 1].contracts = redoStack'[i].restore
    <3>1. Len(redoStack) > 0 => redoStack[Len(redoStack)].restore = contracts
      BY <1>3, <1>6 DEF Last
    <3> QED BY <1>3, <1>6, <3>1
  <2> QED BY <2>1, <2>2, <2>3, <2>4 DEF HistoryIsOneLine
<1>9. NoDuplicates'
  BY <1>1, <1>4 DEF NoDuplicates, DistinctStep, Distinct
<1>10. ListsAreSets'
  <2>1. /\ \A i \in 1 .. Len(undoStack) : DistinctStep(undoStack[i])
        /\ \A i \in 1 .. Len(redoStack) : DistinctStep(redoStack[i])
    BY DEF HistoryCore, ListsAreSets
  <2>2. \A i \in 1 .. Len(undoStack') : DistinctStep(undoStack'[i])
    BY <1>2, <2>1
  <2>3. \A i \in 1 .. Len(redoStack') : DistinctStep(redoStack'[i])
    BY <1>4, <1>6, <2>1
  <2> QED BY <2>2, <2>3 DEF ListsAreSets
<1> QED BY <1>7, <1>8, <1>9, <1>10 DEF HistoryCore, HistoryInv

LEMMA RedoHolds ==
  ASSUME HistoryCore, Redo
  PROVE  HistoryCore'
<1> DEFINE s == Last(redoStack)
<1>1. /\ undoStack \in Seq(Step) /\ redoStack # <<>> /\ redoStack \in Seq(Step)
      /\ Len(undoStack) + Len(redoStack) <= UndoLimit /\ Len(undoStack) \in Nat
      /\ contracts' = s.contracts /\ redoStack' = Front(redoStack)
      /\ undoStack' = Capped(Append(undoStack, s))
  BY DEF Redo, HistoryCore, HistoryInv, HistoryTypeOK
<1>2. /\ redoStack' \in Seq(Step) /\ Len(redoStack') = Len(redoStack) - 1
      /\ Len(redoStack) \in Nat \ {0}
      /\ \A i \in 1 .. Len(redoStack) - 1 : redoStack'[i] = redoStack[i]
  BY <1>1, FrontFacts
<1>3. /\ s.restore = contracts
      /\ \A i \in 1 .. Len(redoStack) - 1 : redoStack[i + 1].contracts = redoStack[i].restore
  BY <1>1 DEF HistoryCore, HistoryInv, HistoryIsOneLine
<1>4. DistinctStep(s) /\ s = redoStack[Len(redoStack)]
  BY <1>1, <1>2 DEF HistoryCore, ListsAreSets, Last
<1>5. s \in Step
  BY <1>4 DEF DistinctStep
<1> HIDE DEF s
<1>6. /\ undoStack' \in Seq(Step) /\ undoStack' # <<>> /\ Len(undoStack') <= Len(undoStack) + 1
      /\ Last(undoStack') = s
      /\ \A i \in 1 .. Len(undoStack') - 1 : undoStack'[i].contracts = undoStack'[i + 1].restore
      /\ \A i \in 1 .. Len(undoStack') : DistinctStep(undoStack'[i])
  BY <1>1, <1>3, <1>4, PushedHolds
<1>7. HistoryTypeOK'
  <2>1. Len(undoStack') \in Nat
    BY <1>6
  <2> QED BY <1>1, <1>2, <1>5, <1>6, <2>1, HistoryAssumption DEF HistoryTypeOK, Step
<1>8. HistoryIsOneLine'
  <2>1. redoStack' # <<>> => Last(redoStack').restore = contracts'
    <3>1. redoStack' # <<>> => Len(redoStack') \in 1 .. Len(redoStack) - 1
      BY <1>2
    <3> QED BY <1>1, <1>2, <1>3, <1>4, <3>1 DEF Last
  <2>2. \A i \in 1 .. Len(redoStack') - 1 : redoStack'[i + 1].contracts = redoStack'[i].restore
    BY <1>2, <1>3
  <2> QED BY <1>1, <1>6, <2>1, <2>2 DEF HistoryIsOneLine
<1>9. NoDuplicates'
  BY <1>1, <1>4 DEF NoDuplicates, DistinctStep, Distinct
<1>10. ListsAreSets'
  BY <1>2, <1>6, SMTT(30) DEF HistoryCore, ListsAreSets
<1> QED BY <1>7, <1>8, <1>9, <1>10 DEF HistoryCore, HistoryInv

(* What adding, removing and moving make of a list without duplicates.     *)
LEMMA AddedIsDistinct ==
  ASSUME contracts \in Lists, Distinct(contracts), NEW c \in Contract, ~ Listed(c)
  PROVE  <<c>> \o contracts \in Lists /\ Distinct(<<c>> \o contracts)
<1> DEFINE l == <<c>> \o contracts
<1>1. /\ l \in Seq(Contract) /\ Len(l) = Len(contracts) + 1 /\ l[1] = c /\ Len(contracts) \in Nat
      /\ \A i \in 1 .. Len(contracts) : l[i + 1] = contracts[i]
  BY DEF Lists
<1> HIDE DEF l
<1>2. \A i \in 2 .. Len(l) : i - 1 \in 1 .. Len(contracts) /\ l[i] = contracts[i - 1]
  BY <1>1
<1>3. \A i \in 2 .. Len(l) : l[i] # c
  BY <1>2 DEF Listed
<1>4. ASSUME NEW i \in 1 .. Len(l), NEW j \in 1 .. Len(l), l[i] = l[j]
      PROVE  i = j
  <2>1. CASE i = 1 \/ j = 1
    BY <1>1, <1>3, <1>4, <2>1
  <2>2. CASE i # 1 /\ j # 1
    <3>1. /\ i - 1 \in 1 .. Len(contracts) /\ j - 1 \in 1 .. Len(contracts)
          /\ contracts[i - 1] = contracts[j - 1]
      BY <1>1, <1>2, <1>4, <2>2
    <3>2. i - 1 = j - 1
      BY <3>1 DEF Distinct
    <3> QED BY <1>1, <3>2
  <2> QED BY <2>1, <2>2
<1>5. Distinct(l)
  BY <1>4 DEF Distinct
<1> QED BY <1>1, <1>5 DEF l, Lists

LEMMA RemovedIsDistinct ==
  ASSUME contracts \in Lists, Distinct(contracts), NEW c \in Contract, Listed(c)
  PROVE  Without(c) \in Lists /\ Distinct(Without(c))
<1> DEFINE at == CHOOSE i \in 1 .. Len(contracts) : contracts[i] = c
<1>1. at \in 1 .. Len(contracts) /\ Len(contracts) \in Nat
  BY DEF Listed, Lists
<1>2. Without(c) = [i \in 1 .. Len(contracts) - 1 |-> contracts[IF i < at THEN i ELSE i + 1]]
  BY DEF Without
<1> HIDE DEF at
<1>3. Without(c) \in [1 .. Len(contracts) - 1 -> Contract]
  BY <1>1, <1>2 DEF Lists
<1>4. Len(contracts) - 1 \in Nat
  BY <1>1
<1>5. Without(c) \in Seq(Contract) /\ Len(Without(c)) = Len(contracts) - 1
  BY <1>3, <1>4
<1>6. \A i \in 1 .. Len(contracts) - 1 : Without(c)[i] = contracts[IF i < at THEN i ELSE i + 1]
  BY <1>2
<1>7. Distinct(Without(c))
  BY <1>1, <1>5, <1>6 DEF Distinct
<1> QED BY <1>5, <1>7 DEF Lists

LEMMA MovedIsDistinct ==
  ASSUME contracts \in Lists, Distinct(contracts),
         NEW i \in 1 .. Len(contracts), NEW j \in 1 .. Len(contracts)
  PROVE  Swapped(i, j) \in Lists /\ Distinct(Swapped(i, j))
<1>1. Swapped(i, j) \in Seq(Contract) /\ Len(Swapped(i, j)) = Len(contracts)
  BY DEF Swapped, Lists
<1>2. \A k \in 1 .. Len(contracts) :
        Swapped(i, j)[k] = contracts[IF k = j THEN i ELSE IF k = i THEN j ELSE k]
  BY DEF Swapped, Lists
<1> QED BY <1>1, <1>2 DEF Lists, Distinct

LEMMA HistorySteps ==
  ASSUME HistoryCore, [HistoryNext]_historyVars
  PROVE  HistoryCore'
<1>1. contracts \in Lists /\ Distinct(contracts)
  BY DEF HistoryCore, HistoryInv, HistoryTypeOK, NoDuplicates, Distinct
<1>2. ASSUME NEW c \in Contract, AddContract(c) \/ RemoveContract(c)
      PROVE  HistoryCore'
  BY <1>1, <1>2, AddedIsDistinct, RemovedIsDistinct, RecordedHolds DEF AddContract, RemoveContract
<1>3. ASSUME NEW i \in 1 .. Len(contracts), NEW j \in 1 .. Len(contracts), MoveContract(i, j)
      PROVE  HistoryCore'
  BY <1>1, <1>3, MovedIsDistinct, RecordedHolds DEF MoveContract
<1>4. CASE ClearHistory
  BY <1>4, HistoryAssumption DEF ClearHistory, HistoryCore, HistoryInv, HistoryTypeOK,
     HistoryIsOneLine, NoDuplicates, ListsAreSets
<1>5. CASE UNCHANGED historyVars
  BY <1>5 DEF historyVars, HistoryCore, HistoryInv, HistoryTypeOK, HistoryIsOneLine,
     NoDuplicates, ListsAreSets
<1> QED BY <1>2, <1>3, <1>4, <1>5, UndoHolds, RedoHolds DEF HistoryNext

LEMMA HistoryHolds == HistorySpec => []HistoryInv
<1>1. HistoryCore => HistoryInv
  BY DEF HistoryCore
<1> QED BY <1>1, HistoryBegins, HistorySteps, PTL DEF HistorySpec

-----------------------------------------------------------------------------
(* Playground for any functions and any number of edits.  A timer is set   *)
(* with a request id no answer will have (TimerOutdates), and unless the   *)
(* function was chosen anew it, or else the newest request, has the input  *)
(* on the screen (NewestAsks).                                             *)
NewestAsks ==
  ~ chosen => IF playTimer = NoInput
              THEN \A r \in flights : r.id = requestId => r.call = InputOf(fnName, values)
              ELSE playTimer = InputOf(fnName, values)
TimerOutdates == playTimer # NoInput => \A r \in flights : r.id < requestId

PlayCore ==
  PlayTypeOK /\ PreviewIsOfTheInput /\ RunningIsWaitedFor /\ NewestAsks /\ TimerOutdates

LEMMA InputsAreCalls ==
  ASSUME NEW f \in Function, NEW v \in Inputs
  PROVE  InputOf(f, v) \in PlayCall /\ InputOf(f, v) # NoInput
BY PlaygroundAssumption DEF InputOf, PlayCall, NoInput

LEMMA PlayBegins == PlayInit => PlayCore
<1> SUFFICES ASSUME PlayInit PROVE PlayCore
  OBVIOUS
<1>1. requestId \in 0 .. MaxEdits /\ values \in Inputs /\ previewStatus = "idle"
  BY PlaygroundAssumption DEF PlayInit, Inputs
<1>2. PlayTypeOK
  BY <1>1 DEF PlayInit, PlayTypeOK
<1>3. PreviewIsOfTheInput /\ RunningIsWaitedFor /\ NewestAsks /\ TimerOutdates
  BY DEF PlayInit, PreviewIsOfTheInput, RunningIsWaitedFor, NewestAsks, TimerOutdates
<1> QED BY <1>2, <1>3 DEF PlayCore

(* An edit outdates every request under way. *)
LEMMA ScheduleOutdates ==
  ASSUME PlayCore, NEW f \in Function, NEW v \in Inputs, Schedules(f, v), UNCHANGED flights
  PROVE  /\ requestId' \in 0 .. MaxEdits /\ playTimer' = InputOf(f, v)
         /\ playTimer' \in PlayCall /\ playTimer' # NoInput
         /\ flights' \subseteq [call : PlayCall, id : 1 .. requestId']
         /\ \A r \in flights' : r.id < requestId'
<1>1. /\ requestId \in 0 .. MaxEdits /\ requestId' = requestId + 1 /\ requestId' \in 0 .. MaxEdits
      /\ \A r \in flights : r.call \in PlayCall /\ r.id \in 1 .. requestId
                            /\ r = [call |-> r.call, id |-> r.id]
  BY PlaygroundAssumption DEF PlayCore, PlayTypeOK, Schedules
<1>2. \A r \in flights : r \in [call : PlayCall, id : 1 .. requestId']
  BY <1>1
<1> QED BY <1>1, <1>2, InputsAreCalls DEF Schedules

LEMMA PlaySteps ==
  ASSUME PlayCore, [PlayNext]_playVars
  PROVE  PlayCore'
<1> USE DEF PlayCore, PlayTypeOK, PreviewIsOfTheInput, RunningIsWaitedFor, NewestAsks,
            TimerOutdates
<1>1. ASSUME NEW f \in Function \cup {NoFunction}, SelectFunction(f)
      PROVE  PlayCore'
  <2>1. CASE f \in Constant
    <3>1. f \in Function /\ "empty" \in Inputs /\ Schedules(f, "empty") /\ UNCHANGED flights
      BY <1>1, <2>1, PlaygroundAssumption DEF SelectFunction, Inputs
    <3>2. /\ requestId' \in 0 .. MaxEdits /\ playTimer' = InputOf(f, "empty")
          /\ playTimer' \in PlayCall /\ playTimer' # NoInput
          /\ flights' \subseteq [call : PlayCall, id : 1 .. requestId']
          /\ \A r \in flights' : r.id < requestId'
      BY <3>1, ScheduleOutdates
    <3> QED BY <1>1, <2>1, <3>1, <3>2 DEF SelectFunction
  <2>2. CASE f \notin Constant
    BY <1>1, <2>2 DEF SelectFunction, Inputs
  <2> QED BY <2>1, <2>2
<1>2. ASSUME NEW v \in Inputs \ {"empty"}, EditValue(v)
      PROVE  PlayCore'
  <2>1. fnName \in Function /\ Schedules(fnName, v) /\ UNCHANGED flights
    BY <1>2 DEF EditValue
  <2>2. /\ requestId' \in 0 .. MaxEdits /\ playTimer' = InputOf(fnName, v)
        /\ playTimer' \in PlayCall /\ playTimer' # NoInput
        /\ flights' \subseteq [call : PlayCall, id : 1 .. requestId']
        /\ \A r \in flights' : r.id < requestId'
    BY <2>1, ScheduleOutdates
  <2> QED BY <1>2, <2>2 DEF EditValue
<1>3. CASE TimerRunsOut
  <2>1. CASE InputBuilds(playTimer)
    <3> DEFINE flight == [call |-> playTimer, id |-> requestId + 1]
    <3>1. /\ requestId \in 0 .. MaxEdits /\ requestId' = requestId + 1
          /\ requestId' \in 0 .. MaxEdits
          /\ playTimer \in PlayCall /\ playTimer' = NoInput /\ previewStatus' = "running"
          /\ flights' = flights \cup {flight} /\ flight.id = requestId' /\ flight.call = playTimer
          /\ UNCHANGED <<fnName, values, preview, chosen>>
      BY <1>3, <2>1, PlaygroundAssumption DEF TimerRunsOut
    <3>2. flight \in [call : PlayCall, id : 1 .. requestId']
      BY <3>1
    <3>3. /\ \A r \in flights : r \in [call : PlayCall, id : 1 .. requestId']
          /\ \A r \in flights : r.id < requestId'
      BY <3>1
    <3>4. \A r, s \in flights' : r.id = s.id => r = s
      BY <3>1, <3>3
    <3>5. playTimer # NoInput
      BY <1>3 DEF TimerRunsOut
    <3> HIDE DEF flight
    <3>6. NewestAsks'
      BY <3>1, <3>3, <3>5
    <3> QED BY <3>1, <3>2, <3>3, <3>4, <3>6
  <2>2. CASE ~ InputBuilds(playTimer)
    BY <1>3, <2>2 DEF TimerRunsOut
  <2> QED BY <2>1, <2>2
<1>4. ASSUME NEW r \in flights, PreviewAnswered(r)
      PROVE  PlayCore'
  <2>1. CASE IsNewest(r)
    BY <1>4, <2>1 DEF PreviewAnswered, IsNewest
  <2>2. CASE ~ IsNewest(r)
    BY <1>4, <2>2 DEF PreviewAnswered, IsNewest
  <2> QED BY <2>1, <2>2
<1>5. CASE UNCHANGED playVars
  BY <1>5 DEF playVars
<1> QED BY <1>1, <1>2, <1>3, <1>4, <1>5 DEF PlayNext

LEMMA PlayHolds == PlaySpec => []PlayInv
<1>1. PlayCore => PlayInv
  BY DEF PlayCore, PlayInv
<1> QED BY <1>1, PlayBegins, PlaySteps, PTL DEF PlaySpec

-----------------------------------------------------------------------------
(* StorageKeys for any keys and networks.  What a fetch will write back is *)
(* the list it began with, so that must hold the wanted keys, but for      *)
(* those edited since (FetchedIsWanted).                                   *)
FetchedIsWanted ==
  Loading => \A k \in StorageKey \ edited : k \in ListedKeys(fetching) <=> k \in wanted

StorageCore == StorageInv /\ FetchedIsWanted

LEMMA StorageBegins == StorageInit => StorageCore
BY StorageAssumption
DEF StorageInit, StorageCore, StorageInv, StorageTypeOK, KeysKeptUnlessRaced, ValuesOfOneNetwork,
    FetchedIsWanted, Loading, ListedKeys, NoEntries, Unread

LEMMA NothingIsListed == ListedKeys(NoEntries) = {}
BY DEF ListedKeys, NoEntries

LEMMA FetchWritesItsList ==
  ASSUME StorageTypeOK, NEW found \in SUBSET ListedKeys(fetching)
  PROVE  /\ Updated(found) \in [StorageKey -> Unread \cup StorageNetwork]
         /\ ListedKeys(Updated(found)) = ListedKeys(fetching)
         /\ \A k \in StorageKey : Updated(found)[k] \in StorageNetwork => Updated(found)[k] = askedOf
BY StorageAssumption DEF Updated, ListedKeys, StorageTypeOK, Unread

LEMMA StorageSteps ==
  ASSUME StorageCore, [StorageNext]_storageVars
  PROVE  StorageCore'
<1> USE DEF StorageCore, StorageInv, StorageTypeOK, KeysKeptUnlessRaced, ValuesOfOneNetwork,
            FetchedIsWanted, Loading
<1>1. ASSUME NEW k \in StorageKey, AddKey(k)
      PROVE  StorageCore'
  <2>1. /\ entries' \in [StorageKey -> Unread \cup StorageNetwork]
        /\ ListedKeys(entries') = ListedKeys(entries) \cup {k}
        /\ entries'[k] \notin StorageNetwork
        /\ \A l \in StorageKey \ {k} : entries'[l] = entries[l]
    BY <1>1, StorageAssumption DEF AddKey, ListedKeys, Unread
  <2>2. edited' = IF Loading THEN edited \cup {k} ELSE edited
    BY <1>1 DEF AddKey, Edited
  <2>3. /\ fetching' = fetching /\ askedOf' = askedOf /\ keyNetwork' = keyNetwork
        /\ wanted' = wanted \cup {k}
    BY <1>1 DEF AddKey
  <2>4. StorageTypeOK'
    BY <2>1, <2>2, <2>3
  <2>5. KeysKeptUnlessRaced'
    BY <2>1, <2>2, <2>3
  <2>6. ValuesOfOneNetwork'
    BY <2>1
  <2>7. FetchedIsWanted'
    BY <2>2, <2>3
  <2> QED BY <2>4, <2>5, <2>6, <2>7
<1>2. ASSUME NEW k \in StorageKey, RemoveKey(k)
      PROVE  StorageCore'
  <2>1. /\ entries' \in [StorageKey -> Unread \cup StorageNetwork]
        /\ ListedKeys(entries') = ListedKeys(entries) \ {k}
        /\ entries'[k] \notin StorageNetwork
        /\ \A l \in StorageKey \ {k} : entries'[l] = entries[l]
    BY <1>2, StorageAssumption DEF RemoveKey, ListedKeys, Unread
  <2>2. edited' = IF Loading THEN edited \cup {k} ELSE edited
    BY <1>2 DEF RemoveKey, Edited
  <2>3. /\ fetching' = fetching /\ askedOf' = askedOf /\ keyNetwork' = keyNetwork
        /\ wanted' = wanted \ {k}
    BY <1>2 DEF RemoveKey
  <2>4. StorageTypeOK'
    BY <2>1, <2>2, <2>3
  <2>5. KeysKeptUnlessRaced'
    BY <2>1, <2>2, <2>3
  <2>6. ValuesOfOneNetwork'
    BY <2>1
  <2>7. FetchedIsWanted'
    BY <2>2, <2>3
  <2> QED BY <2>4, <2>5, <2>6, <2>7
<1>3. CASE FetchData
  BY <1>3 DEF FetchData, ListedKeys
<1>4. CASE FetchFails
  BY <1>4, NothingIsListed, StorageAssumption DEF FetchFails, NoEntries, Unread
<1>5. CASE LeaveStorage
  BY <1>5, NothingIsListed, StorageAssumption DEF LeaveStorage, NoEntries, Unread
<1>6. ASSUME NEW found \in SUBSET StorageKey, FetchAnswered(found)
      PROVE  StorageCore'
  <2>1. /\ entries' \in [StorageKey -> Unread \cup StorageNetwork]
        /\ ListedKeys(entries') = ListedKeys(fetching)
        /\ \A k \in StorageKey : entries'[k] \in StorageNetwork => entries'[k] = askedOf
    BY <1>6, FetchWritesItsList DEF FetchAnswered
  <2>2. fetching' \in [StorageKey -> Unread \cup StorageNetwork] /\ ListedKeys(fetching') = {}
    BY <1>6, NothingIsListed DEF FetchAnswered, NoEntries, Unread
  <2> QED BY <1>6, <2>1, <2>2 DEF FetchAnswered
<1>7. ASSUME NEW n \in StorageNetwork, SwitchKeyNetwork(n)
      PROVE  StorageCore'
  BY <1>7 DEF SwitchKeyNetwork, ListedKeys
<1>8. CASE UNCHANGED storageVars
  BY <1>8 DEF storageVars, ListedKeys
<1> QED BY <1>1, <1>2, <1>3, <1>4, <1>5, <1>6, <1>7, <1>8 DEF StorageNext

LEMMA StorageHolds == StorageSpec => []StorageInv
<1>1. StorageCore => StorageInv
  BY DEF StorageCore
<1> QED BY <1>1, StorageBegins, StorageSteps, PTL DEF StorageSpec

-----------------------------------------------------------------------------
(* ContractPage for any number of loads, workspaces and networks.  At most *)
(* one load counts, since the effect cancels the others.  What a check     *)
(* will show must be true before it is shown (TrueUnlessMoved), and what   *)
(* the dashboard knows of the token was asked of the network, unless that  *)
(* was switched (MetadataIsOfThePage).                                     *)
Counts(x) == x # NoLoad /\ ~ x.cancelled
LoadRecord == [of : PageNetwork, workspace : PageWorkspace, cancelled : BOOLEAN]

OverviewCore ==
  /\ pageNetwork \in PageNetwork /\ activeWorkspace \in PageWorkspace
  /\ overview \in [of : PageNetwork \cup {Nowhere}, exists : BOOLEAN]
  /\ contractLoading \in BOOLEAN /\ holders \subseteq PageWorkspace
  /\ loads \in [Load -> LoadRecord \cup {NoLoad}]
  /\ contractLoading <=> \E l \in Load : Counts(loads[l])
  /\ \A l \in Load : Counts(loads[l]) => loads[l].workspace = activeWorkspace
  /\ \A k, l \in Load : Counts(loads[k]) /\ Counts(loads[l]) => k = l

BalanceRecord == [of : PageNetwork, address : Address, scale : Nat]
TrueUnlessMoved(b) ==
  b # NoBalance =>
    /\ b \in BalanceRecord /\ b.scale = ScaleOf(metadata)
    /\ ~ typed => b.address = checkAddress
    /\ ~ switchedPage => b.of = pageNetwork /\ b.scale = ScaleOf(pageNetwork)
MetadataIsOfThePage ==
  /\ metadata \in PageNetwork \cup {Nowhere} /\ detecting \in PageNetwork \cup {Nowhere}
  /\ detecting # Nowhere => metadata = Nowhere
  /\ metadata = Nowhere => balance = NoBalance /\ checking = NoBalance
  /\ ~ switchedPage => metadata \in {Nowhere, pageNetwork} /\ detecting \in {Nowhere, pageNetwork}

DashboardCore ==
  /\ pageNetwork \in PageNetwork
  /\ checkAddress \in Address \cup {Nowhere}
  /\ switchedPage \in BOOLEAN /\ typed \in BOOLEAN
  /\ MetadataIsOfThePage
  /\ TrueUnlessMoved(balance) /\ TrueUnlessMoved(checking)

PageCore == OverviewCore /\ DashboardCore

LEMMA LoadsHaveTypes ==
  ASSUME NEW n \in PageNetwork, NEW w \in PageWorkspace
  PROVE  /\ Begun(n, w) \in LoadRecord /\ Begun(n, w) # NoLoad
         /\ Counts(Begun(n, w)) /\ Begun(n, w).workspace = w
         /\ ~ Counts(NoLoad)
         /\ \A x \in LoadRecord \cup {NoLoad} :
              Cancelled(x) \in LoadRecord \cup {NoLoad} /\ ~ Counts(Cancelled(x))
BY PageAssumption DEF Begun, NoLoad, LoadRecord, Counts, Cancelled

LEMMA PageBegins == ContractInit => PageCore
<1> SUFFICES ASSUME ContractInit PROVE PageCore
  OBVIOUS
<1>1. PICK l \in Load : loads = [k \in Load |-> IF k = l THEN Begun(pageNetwork, activeWorkspace)
                                                ELSE NoLoad]
  BY DEF ContractInit
<1>2. pageNetwork \in PageNetwork /\ activeWorkspace \in PageWorkspace
  BY DEF ContractInit
<1>3. OverviewCore
  BY <1>1, <1>2, LoadsHaveTypes DEF ContractInit, OverviewCore, NoOverview
<1>4. DashboardCore
  BY <1>2, PageAssumption DEF ContractInit, DashboardCore, MetadataIsOfThePage, TrueUnlessMoved
<1> QED BY <1>3, <1>4 DEF PageCore

LEMMA OverviewSteps ==
  ASSUME OverviewCore, OverviewNext
  PROVE  OverviewCore'
<1>1. ASSUME NEW w \in PageWorkspace, NEW l \in Load, SwitchWorkspace(w, l)
      PROVE  OverviewCore'
  <2>1. /\ loads' \in [Load -> LoadRecord \cup {NoLoad}]
        /\ Counts(loads'[l]) /\ loads'[l].workspace = w
        /\ \A k \in Load \ {l} : ~ Counts(loads'[k])
    BY <1>1, LoadsHaveTypes DEF SwitchWorkspace, OverviewCore
  <2> QED BY <1>1, <2>1 DEF SwitchWorkspace, OverviewCore
<1>2. ASSUME NEW l \in Load, NEW exists \in BOOLEAN, OverviewAnswered(l, exists)
      PROVE  OverviewCore'
  <2>1. ~ Counts(NoLoad)
    BY DEF Counts
  <2>2. /\ loads' \in [Load -> LoadRecord \cup {NoLoad}] /\ loads'[l] = NoLoad
        /\ \A k \in Load \ {l} : loads'[k] = loads[k]
    BY <1>2 DEF OverviewAnswered, OverviewCore
  <2>3. loads[l] \in LoadRecord
    BY <1>2 DEF OverviewAnswered, OverviewCore
  <2>4. CASE loads[l].cancelled
    BY <1>2, <2>1, <2>2, <2>4 DEF OverviewAnswered, OverviewCore, Counts
  <2>5. CASE ~ loads[l].cancelled
    <3>1. Counts(loads[l])
      BY <1>2, <2>5 DEF Counts, OverviewAnswered
    <3>2. \A k \in Load : ~ Counts(loads'[k])
      BY <2>1, <2>2, <3>1 DEF OverviewCore
    <3>3. overview' \in [of : PageNetwork \cup {Nowhere}, exists : BOOLEAN]
      BY <1>2, <2>3, <2>5 DEF OverviewAnswered, LoadRecord
    <3>4. holders' \subseteq PageWorkspace
      BY <1>2, <2>3, <2>5 DEF OverviewAnswered, LoadRecord, OverviewCore
    <3> QED BY <1>2, <2>2, <2>5, <3>2, <3>3, <3>4 DEF OverviewAnswered, OverviewCore
  <2> QED BY <2>4, <2>5
<1> QED BY <1>1, <1>2 DEF OverviewNext

LEMMA DashboardSteps ==
  ASSUME DashboardCore, TokenNext
  PROVE  DashboardCore'
<1> USE PageAssumption DEF DashboardCore, MetadataIsOfThePage, TrueUnlessMoved
<1>1. CASE Detected
  BY <1>1 DEF Detected
<1>2. CASE NotDetected
  BY <1>2 DEF NotDetected
<1>3. CASE RemountDashboard
  BY <1>3 DEF RemountDashboard
<1>4. ASSUME NEW a \in Address, TypeAddress(a)
      PROVE  DashboardCore'
  BY <1>4 DEF TypeAddress
<1>5. CASE CheckBalance
  <2>1. /\ checking' \in BalanceRecord /\ checking'.scale = ScaleOf(metadata)
        /\ checking'.address = checkAddress /\ checking'.of = pageNetwork
    BY <1>5 DEF CheckBalance, BalanceRecord, ScaleOf
  <2> QED BY <1>5, <2>1 DEF CheckBalance, ClearedBalance
<1>6. CASE BalanceAnswered
  BY <1>6 DEF BalanceAnswered
<1>7. CASE BalanceFails
  BY <1>7 DEF BalanceFails
<1> QED BY <1>1, <1>2, <1>3, <1>4, <1>5, <1>6, <1>7 DEF TokenNext

LEMMA PageSteps ==
  ASSUME PageCore, [ContractNext]_contractVars
  PROVE  PageCore'
<1>1. CASE PageSwitches
  <2> PICK n \in PageNetwork : SwitchPageNetwork(n)
    BY <1>1 DEF PageSwitches
  <2>1. OverviewCore'
    BY DEF SwitchPageNetwork, overviewVars, PageCore, OverviewCore
  <2>2. DashboardCore'
    BY DEF SwitchPageNetwork, PageCore, DashboardCore, MetadataIsOfThePage, TrueUnlessMoved
  <2> QED BY <2>1, <2>2 DEF PageCore
<1>2. CASE OverviewNext
  <2>1. UNCHANGED <<pageNetwork, checkAddress, metadata, balance, detecting, checking,
                    switchedPage, typed>>
    BY <1>2 DEF OverviewNext, SwitchWorkspace, OverviewAnswered, tokenVars
  <2>2. DashboardCore'
    BY <2>1 DEF PageCore, DashboardCore, MetadataIsOfThePage, TrueUnlessMoved
  <2> QED BY <1>2, <2>2, OverviewSteps DEF PageCore
<1>3. CASE TokenNext
  <2>1. UNCHANGED <<pageNetwork, activeWorkspace, overview, contractLoading, loads, holders>>
    BY <1>3 DEF TokenNext, Detected, NotDetected, RemountDashboard, TypeAddress, CheckBalance,
                BalanceAnswered, BalanceFails, overviewVars
  <2>2. OverviewCore'
    BY <2>1 DEF PageCore, OverviewCore
  <2> QED BY <1>3, <2>2, DashboardSteps DEF PageCore
<1>4. CASE UNCHANGED contractVars
  BY <1>4 DEF contractVars, overviewVars, tokenVars, PageCore, OverviewCore, DashboardCore,
              MetadataIsOfThePage, TrueUnlessMoved
<1> QED BY <1>1, <1>2, <1>3, <1>4 DEF ContractNext

LEMMA PageHolds == ContractSpec => []PageInv
<1>1. PageCore => PageInv
  <2> SUFFICES ASSUME PageCore PROVE PageInv
    OBVIOUS
  <2>1. \A b \in {balance, checking} :
          b \in [of : PageNetwork, address : Address, scale : Nat] \cup {NoBalance}
    BY DEF PageCore, DashboardCore, TrueUnlessMoved, BalanceRecord
  <2>2. PageTypeOK
    BY <2>1 DEF PageCore, OverviewCore, DashboardCore, MetadataIsOfThePage, PageTypeOK, LoadRecord
  <2>3. LoadingIsTrue
    BY DEF PageCore, OverviewCore, Counts, LoadingIsTrue
  <2>4. BalanceIsTrueUnlessMoved
    BY DEF PageCore, DashboardCore, TrueUnlessMoved, BalanceIsTrueUnlessMoved, ScaleOf
  <2> QED BY <2>2, <2>3, <2>4 DEF PageInv
<1> QED BY <1>1, PageBegins, PageSteps, PTL DEF ContractSpec

(* An answer never adds the contract to a workspace the user has left.     *)
THEOREM OnlyTheActiveIsJoined == ContractSpec => JoinsOnlyTheActive
<1>1. PageCore /\ [ContractNext]_contractVars =>
        [holders' \subseteq holders \cup {activeWorkspace}]_contractVars
  <2> SUFFICES ASSUME PageCore, ContractNext
               PROVE  holders' \subseteq holders \cup {activeWorkspace}
    OBVIOUS
  <2>1. ASSUME NEW l \in Load, NEW exists \in BOOLEAN, OverviewAnswered(l, exists)
        PROVE  holders' \subseteq holders \cup {activeWorkspace}
    BY <2>1 DEF OverviewAnswered, PageCore, OverviewCore, Counts
  <2>2. CASE \E w \in PageWorkspace, l \in Load : SwitchWorkspace(w, l)
    BY <2>2 DEF SwitchWorkspace
  <2>3. CASE TokenNext
    BY <2>3 DEF TokenNext, Detected, NotDetected, RemountDashboard, TypeAddress, CheckBalance,
                BalanceAnswered, BalanceFails, overviewVars
  <2>4. CASE PageSwitches
    BY <2>4 DEF PageSwitches, SwitchPageNetwork, overviewVars
  <2> QED BY <2>1, <2>2, <2>3, <2>4 DEF ContractNext, OverviewNext
<1> QED BY <1>1, PageBegins, PageSteps, PTL DEF ContractSpec, JoinsOnlyTheActive

-----------------------------------------------------------------------------
(* The contract list, the playground, the storage keys and the page of a   *)
(* contract keep what they promise, whatever is answered late: no list     *)
(* loses or doubles an entry, and what is shown is of what was asked.      *)
THEOREM ContractsHold ==
  HistorySpec /\ PlaySpec /\ StorageSpec /\ ContractSpec => []ContractsInv
<1>1. HistoryInv /\ PlayInv /\ StorageInv /\ PageInv => ContractsInv
  BY DEF ContractsInv
<1> QED BY <1>1, HistoryHolds, PlayHolds, StorageHolds, PageHolds, PTL

-----------------------------------------------------------------------------
(* LookupPages for any questions, networks and number of asks.  What makes *)
(* an answer be of the question is known of every ask that is due          *)
(* (AskHolds); and where two are due, both are marked, which the ledger    *)
(* page and the source flow exclude (DueAreMarked).                        *)
AskRecord == [at : Pages, of : Question, on : LookNetwork, raced : BOOLEAN,
              dropped : BOOLEAN, list : QueryLists]
IsDue(x) == x.at # "none" /\ ~ x.dropped

LookTyped ==
  /\ page \in Pages \cup {"none"} /\ question \in Question \cup {NoQuestion}
  /\ lookNetwork \in LookNetwork
  /\ answer \in [of : Question, on : LookNetwork] \cup {NoAnswerYet}
  /\ failed \in BOOLEAN /\ busy \in BOOLEAN /\ fetched \in BOOLEAN
  /\ crossed \in BOOLEAN /\ listOvertaken \in BOOLEAN
  /\ asks \in [Query -> AskRecord \cup {NoAsk}]
ListsTyped == queries \in QueryLists /\ stored \in QueryLists /\ log \in QueryLists

AskHolds(x) ==
  /\ x.dropped => x.at = "ledger"
  /\ IsDue(x) =>
       /\ x.at = page
       /\ page = "source" => x.of = question
       /\ page = "ledger" => answer = NoAnswerYet
       /\ page \in {"transaction", "ledger", "share"} /\ ~ x.raced => x.of = question
       /\ page = "transaction" /\ ~ x.raced => LookHorizon(x.on) = LookHorizon(lookNetwork)
DueAreMarked ==
  \A a, b \in Query : a # b /\ IsDue(asks[a]) /\ IsDue(asks[b]) =>
    asks[a].raced /\ page \notin {"ledger", "source"}

LookCore ==
  /\ LookTyped /\ ListsTyped /\ (\A a \in Query : AskHolds(asks[a])) /\ DueAreMarked
  /\ WaitsForAnAnswer /\ ShownIsOfTheQuestion /\ ListIsTheLog

-----------------------------------------------------------------------------
LEMMA ListsAreShort == QueryLists = {l \in Seq(Question) : Len(l) <= MaxHistory}
<1>1. ASSUME NEW l \in QueryLists
      PROVE  l \in Seq(Question) /\ Len(l) <= MaxHistory
  <2>1. PICK n \in 0 .. MaxHistory : l \in [1 .. n -> Question]
    BY DEF QueryLists
  <2> QED BY <2>1, LookAssumption
<1>2. ASSUME NEW l \in Seq(Question), Len(l) <= MaxHistory
      PROVE  l \in QueryLists
  <2>1. l \in [1 .. Len(l) -> Question] /\ Len(l) \in 0 .. MaxHistory
    BY <1>2, LookAssumption
  <2> QED BY <2>1 DEF QueryLists
<1> QED BY <1>1, <1>2

LEMMA NewestAreAList ==
  ASSUME NEW q \in Question, NEW list \in QueryLists
  PROVE  NewestQueries(<<q>> \o list) \in QueryLists
<1> DEFINE l == <<q>> \o list
<1>1. l \in Seq(Question) /\ Len(l) \in Nat
  BY ListsAreShort
<1>2. MaxHistory \in Nat
  BY LookAssumption
<1> HIDE DEF l
<1>3. SubSeq(l, 1, Len(l)) \in Seq(Question) /\ Len(SubSeq(l, 1, Len(l))) = Len(l)
  BY <1>1
<1>4. Len(l) >= MaxHistory =>
        SubSeq(l, 1, MaxHistory) \in Seq(Question) /\ Len(SubSeq(l, 1, MaxHistory)) = MaxHistory
  BY <1>1, <1>2
<1>5. NewestQueries(l) \in QueryLists
  <2>1. CASE Len(l) < MaxHistory
    BY <1>1, <1>2, <1>3, <2>1, ListsAreShort DEF NewestQueries
  <2>2. CASE ~ Len(l) < MaxHistory
    BY <1>1, <1>2, <1>4, <2>2, ListsAreShort DEF NewestQueries
  <2> QED BY <2>1, <2>2
<1> QED BY <1>5 DEF l

LEMMA EmptyIsAList == <<>> \in QueryLists
BY ListsAreShort, LookAssumption

(* A question that is asked where nothing cancels the others marks those   *)
(* that are due, and is marked if there are any.                           *)
LEMMA AskedFacts ==
  ASSUME LookTyped, ListsTyped, NEW a \in Query, ~ Asks(a), page # "none",
         NEW q \in Question, NEW n \in LookNetwork, asks' = Asked(a, FALSE, q, n)
  PROVE  /\ asks' \in [Query -> AskRecord \cup {NoAsk}]
         /\ asks'[a].at = page /\ asks'[a].of = q /\ asks'[a].on = n
         /\ ~ asks'[a].dropped /\ IsDue(asks'[a])
         /\ (\E b \in Query : IsDue(asks[b])) => asks'[a].raced
         /\ \A b \in Query \ {a} :
              /\ asks'[b].at = asks[b].at /\ asks'[b].dropped = asks[b].dropped
              /\ asks'[b].of = asks[b].of /\ asks'[b].on = asks[b].on
              /\ IsDue(asks'[b]) => asks'[b].raced /\ IsDue(asks[b])
<1> DEFINE some == \E b \in Query : Asks(b) /\ ~ FALSE
           new == [NoAsk EXCEPT !.at = page, !.of = q, !.on = n, !.list = queries, !.raced = some]
           old(b) == IF ~ Asks(b) \/ (FALSE /\ asks[b].at # "ledger") THEN NoAsk
                     ELSE [asks[b] EXCEPT !.raced = TRUE, !.dropped = @ \/ FALSE]
<1>1. asks' = [b \in Query |-> IF b = a THEN new ELSE old(b)]
  BY DEF Asked, Overtaken
<1>5. some \in BOOLEAN /\ ((\E b \in Query : IsDue(asks[b])) => some)
  BY DEF IsDue, Asks
<1> HIDE DEF some
<1>2. new \in AskRecord
  BY <1>5 DEF LookTyped, ListsTyped, AskRecord, NoAsk
<1>3. ASSUME NEW b \in Query
      PROVE  /\ old(b) \in AskRecord \cup {NoAsk}
             /\ old(b).at = asks[b].at /\ old(b).dropped = asks[b].dropped
             /\ old(b).of = asks[b].of /\ old(b).on = asks[b].on
             /\ IsDue(old(b)) => old(b).raced
  <2>1. CASE ~ Asks(b)
    <3>1. asks[b] = NoAsk
      BY <2>1 DEF LookTyped, Asks, AskRecord, Pages
    <3> QED BY <2>1, <3>1 DEF NoAsk, IsDue
  <2>2. CASE Asks(b)
    <3>1. asks[b] \in AskRecord
      BY <2>2 DEF LookTyped, Asks, NoAsk
    <3> QED BY <2>2, <3>1 DEF AskRecord
  <2> QED BY <2>1, <2>2
<1>4. /\ new.at = page /\ new.of = q /\ new.on = n /\ ~ new.dropped /\ IsDue(new)
      /\ (\E b \in Query : IsDue(asks[b])) => new.raced
  BY <1>5 DEF IsDue, NoAsk
<1> HIDE DEF new, old
<1> QED BY <1>1, <1>2, <1>3, <1>4 DEF IsDue

(* Where the page is left or the effect is cancelled, nothing stays due.   *)
LEMMA DroppedFacts ==
  ASSUME LookTyped, \A b \in Query : AskHolds(asks[b]), NEW left, left = Overtaken(TRUE)
  PROVE  /\ left \in [Query -> AskRecord \cup {NoAsk}]
         /\ \A b \in Query : ~ IsDue(left[b]) /\ (left[b].dropped => left[b].at = "ledger")
<1> SUFFICES ASSUME NEW b \in Query
             PROVE  /\ Overtaken(TRUE)[b] \in AskRecord \cup {NoAsk}
                    /\ ~ IsDue(Overtaken(TRUE)[b])
                    /\ Overtaken(TRUE)[b].dropped => Overtaken(TRUE)[b].at = "ledger"
  BY DEF Overtaken
<1>1. CASE ~ Asks(b) \/ asks[b].at # "ledger"
  BY <1>1 DEF Overtaken, NoAsk, IsDue
<1>2. CASE Asks(b) /\ asks[b].at = "ledger"
  <2>1. Overtaken(TRUE)[b] = [asks[b] EXCEPT !.raced = TRUE, !.dropped = TRUE]
    BY <1>2 DEF Overtaken
  <2>2. asks[b] \in AskRecord
    BY <1>2 DEF LookTyped, Asks, NoAsk
  <2> QED BY <1>2, <2>1, <2>2 DEF AskRecord, IsDue
<1> QED BY <1>1, <1>2

LEMMA LookBegins == LookInit => LookCore
<1> SUFFICES ASSUME LookInit PROVE LookCore
  OBVIOUS
<1>1. LookTyped /\ ListsTyped
  BY EmptyIsAList DEF LookInit, LookTyped, ListsTyped
<1>2. \A a \in Query : ~ IsDue(asks[a]) /\ AskHolds(asks[a])
  BY DEF LookInit, AskHolds, IsDue, NoAsk
<1>3. DueAreMarked
  BY <1>2 DEF DueAreMarked
<1>4. WaitsForAnAnswer /\ ShownIsOfTheQuestion /\ ListIsTheLog
  BY DEF LookInit, WaitsForAnAnswer, ShownIsOfTheQuestion, ListIsTheLog
<1> QED BY <1>1, <1>2, <1>3, <1>4 DEF LookCore

-----------------------------------------------------------------------------
(* What an answer leaves: where two asks are due, the newest answer counts *)
(* as overtaken, and on the ledger page and in the source flow there is    *)
(* nothing else to wait for.                                               *)
LEMMA ArrivedHolds ==
  ASSUME LookCore, NEW a \in Query, AnswerArrives(a), UNCHANGED <<page, question, lookNetwork>>
  PROVE  /\ asks' \in [Query -> AskRecord \cup {NoAsk}] /\ crossed' \in BOOLEAN
         /\ crossed' = asks[a].raced
         /\ asks[a] \in AskRecord /\ asks[a].at = page /\ AskHolds(asks[a]) /\ IsDue(asks[a])
         /\ AnswerTo(asks[a]) \in [of : Question, on : LookNetwork]
         /\ AnswerTo(asks[a]).of = asks[a].of /\ AnswerTo(asks[a]).on = asks[a].on
         /\ \A b \in Query : AskHolds(asks[b])'
         /\ DueAreMarked'
         /\ UnderWayHere' => crossed' /\ page \notin {"ledger", "source"}
<1>1. IsDue(asks[a]) /\ AskHolds(asks[a]) /\ asks[a].at = page
  BY DEF AnswerArrives, LookCore, IsDue, Asks, AskHolds
<1>2. asks[a] \in AskRecord
  BY DEF AnswerArrives, LookCore, LookTyped, Asks, NoAsk
<1>3. /\ asks' \in [Query -> AskRecord \cup {NoAsk}] /\ asks'[a] = NoAsk
      /\ \A b \in Query \ {a} : asks'[b] = asks[b]
  BY DEF AnswerArrives, LookCore, LookTyped
<1>4. ~ IsDue(NoAsk) /\ ~ NoAsk.dropped
  BY DEF IsDue, NoAsk
<1>5. \A b \in Query : IsDue(asks'[b]) =>
        /\ b # a /\ IsDue(asks[b]) /\ asks[a].raced
        /\ page \notin {"ledger", "source"}
  BY <1>1, <1>3, <1>4 DEF LookCore, DueAreMarked
<1>6. \A b \in Query : AskHolds(asks[b])'
  BY <1>3, <1>4, <1>5 DEF LookCore, AskHolds
<1>7. DueAreMarked'
  BY <1>3, <1>4, <1>5 DEF LookCore, DueAreMarked
<1>8. crossed' = asks[a].raced
  BY DEF AnswerArrives
<1>9. UnderWayHere' => crossed' /\ page \notin {"ledger", "source"}
  <2>1. UnderWayHere' => \E b \in Query : IsDue(asks'[b])
    BY DEF UnderWayHere, Asks, IsDue
  <2> QED BY <1>5, <1>8, <2>1
<1> QED BY <1>1, <1>2, <1>3, <1>6, <1>7, <1>8, <1>9 DEF AnswerTo, AskRecord

LEMMA AskedHolds ==
  ASSUME LookCore, NEW a \in Query, ~ Asks(a), NEW q \in Question, NEW n \in LookNetwork,
         asks' = Asked(a, FALSE, q, n), page \notin {"none", "source"},
         page' = page, question' = q, lookNetwork' = n,
         page = "ledger" => answer' = NoAnswerYet /\ ~ busy
  PROVE  /\ asks' \in [Query -> AskRecord \cup {NoAsk}]
         /\ \A b \in Query : AskHolds(asks[b])'
         /\ DueAreMarked' /\ UnderWayHere'
<1>1. /\ asks' \in [Query -> AskRecord \cup {NoAsk}]
      /\ asks'[a].at = page /\ asks'[a].of = q /\ asks'[a].on = n
      /\ ~ asks'[a].dropped /\ IsDue(asks'[a])
      /\ (\E b \in Query : IsDue(asks[b])) => asks'[a].raced
      /\ \A b \in Query \ {a} :
           /\ asks'[b].at = asks[b].at /\ asks'[b].dropped = asks[b].dropped
           /\ asks'[b].of = asks[b].of /\ asks'[b].on = asks[b].on
           /\ IsDue(asks'[b]) => asks'[b].raced /\ IsDue(asks[b])
  BY AskedFacts DEF LookCore
<1>2. page = "ledger" => \A b \in Query : ~ IsDue(asks[b])
  BY DEF LookCore, WaitsForAnAnswer, UnderWayHere, Asks, IsDue
<1>3. \A b \in Query : AskHolds(asks[b])'
  BY <1>1, <1>2, ZenonT(30) DEF LookCore, AskHolds
<1>4. DueAreMarked'
  BY <1>1, <1>2, ZenonT(30) DEF LookCore, DueAreMarked
<1>5. UnderWayHere'
  BY <1>1 DEF UnderWayHere, Asks, IsDue
<1> QED BY <1>1, <1>3, <1>4, <1>5

-----------------------------------------------------------------------------
LEMMA AccountHistorySteps ==
  ASSUME LookCore, NEW a \in Query, LoadHistory(a) \/ HistoryLoaded(a) \/ HistoryFails(a)
  PROVE  LookCore'
<1>1. page = "history" /\ UNCHANGED <<page, question, lookNetwork, queries, stored, log, listOvertaken>>
  BY DEF LoadHistory, HistoryLoaded, HistoryFails, listVars
<1>2. ShownIsOfTheQuestion' /\ ListIsTheLog' /\ ListsTyped'
  BY <1>1 DEF LookCore, ShownIsOfTheQuestion, ListIsTheLog, ListsTyped
<1>3. CASE LoadHistory(a)
  <2>1. /\ asks' \in [Query -> AskRecord \cup {NoAsk}]
        /\ \A b \in Query : AskHolds(asks[b])'
        /\ DueAreMarked' /\ UnderWayHere'
    BY <1>1, <1>3, AskedHolds DEF LoadHistory, LookCore, LookTyped
  <2>2. LookTyped' /\ WaitsForAnAnswer'
    BY <1>1, <1>3, <2>1 DEF LoadHistory, LookCore, LookTyped, WaitsForAnAnswer
  <2> QED BY <1>2, <2>1, <2>2 DEF LookCore
<1>4. CASE HistoryLoaded(a) \/ HistoryFails(a)
  <2>1. /\ asks' \in [Query -> AskRecord \cup {NoAsk}] /\ crossed' \in BOOLEAN
        /\ AnswerTo(asks[a]) \in [of : Question, on : LookNetwork]
        /\ \A b \in Query : AskHolds(asks[b])'
        /\ DueAreMarked' /\ (UnderWayHere' => crossed')
    BY <1>1, <1>4, ArrivedHolds DEF HistoryLoaded, HistoryFails
  <2>2. LookTyped' /\ WaitsForAnAnswer'
    BY <1>1, <1>4, <2>1 DEF HistoryLoaded, HistoryFails, LookCore, LookTyped, WaitsForAnAnswer
  <2> QED BY <1>2, <2>1, <2>2 DEF LookCore
<1> QED BY <1>3, <1>4

LEMMA TransactionSteps ==
  ASSUME LookCore, NEW a \in Query,
         \/ \E q \in Question, n \in LookNetwork : LoadTransaction(a, q, n)
         \/ TransactionLoaded(a) \/ TransactionFails(a)
  PROVE  LookCore'
<1>1. page = "transaction" /\ UNCHANGED <<page, queries, stored, log, listOvertaken>>
  BY DEF LoadTransaction, TransactionLoaded, TransactionFails, listVars
<1>2. ListIsTheLog' /\ ListsTyped'
  BY <1>1 DEF LookCore, ListIsTheLog, ListsTyped
<1>3. ASSUME NEW q \in Question, NEW n \in LookNetwork, LoadTransaction(a, q, n)
      PROVE  LookCore'
  <2>1. /\ asks' \in [Query -> AskRecord \cup {NoAsk}]
        /\ \A b \in Query : AskHolds(asks[b])'
        /\ DueAreMarked' /\ UnderWayHere'
    BY <1>1, <1>3, AskedHolds DEF LoadTransaction
  <2>2. LookTyped' /\ WaitsForAnAnswer' /\ ShownIsOfTheQuestion'
    BY <1>1, <1>3, <2>1 DEF LoadTransaction, LoadsAgain, LookCore, LookTyped, WaitsForAnAnswer,
                            ShownIsOfTheQuestion
  <2> QED BY <1>2, <2>1, <2>2 DEF LookCore
<1>4. CASE TransactionLoaded(a) \/ TransactionFails(a)
  <2>1. /\ asks' \in [Query -> AskRecord \cup {NoAsk}] /\ crossed' \in BOOLEAN
        /\ crossed' = asks[a].raced /\ AskHolds(asks[a]) /\ IsDue(asks[a])
        /\ AnswerTo(asks[a]) \in [of : Question, on : LookNetwork]
        /\ \A b \in Query : AskHolds(asks[b])'
        /\ DueAreMarked' /\ (UnderWayHere' => crossed')
    BY <1>1, <1>4, ArrivedHolds DEF TransactionLoaded, TransactionFails
  <2>2. LookTyped' /\ WaitsForAnAnswer'
    BY <1>1, <1>4, <2>1 DEF TransactionLoaded, TransactionFails, LookCore, LookTyped,
                            WaitsForAnAnswer
  <2>3. ShownIsOfTheQuestion'
    BY <1>1, <1>4, <2>1 DEF TransactionLoaded, TransactionFails, LookCore, AskHolds, AnswerTo,
                            ShownIsOfTheQuestion
  <2> QED BY <1>2, <2>1, <2>2, <2>3 DEF LookCore
<1> QED BY <1>3, <1>4

LEMMA LedgerSteps ==
  ASSUME LookCore, NEW a \in Query, FetchEntry(a) \/ EntryAnswered(a)
  PROVE  LookCore'
<1>1. page = "ledger" /\ UNCHANGED <<page, question, lookNetwork>>
  BY DEF FetchEntry, EntryAnswered
<1>2. CASE FetchEntry(a)
  <2>1. question \in Question
    BY <1>2 DEF FetchEntry, KeyBuilt, LookCore, LookTyped
  <2>2. /\ asks' \in [Query -> AskRecord \cup {NoAsk}]
        /\ \A b \in Query : AskHolds(asks[b])'
        /\ DueAreMarked' /\ UnderWayHere'
    BY <1>1, <1>2, <2>1, AskedHolds DEF FetchEntry, LookCore, LookTyped
  <2>3. /\ LookTyped' /\ ListsTyped' /\ WaitsForAnAnswer' /\ ShownIsOfTheQuestion'
        /\ ListIsTheLog'
    BY <1>1, <1>2, <2>2 DEF FetchEntry, LookCore, LookTyped, ListsTyped, WaitsForAnAnswer,
                            ShownIsOfTheQuestion, ListIsTheLog, listVars
  <2> QED BY <2>2, <2>3 DEF LookCore
<1>3. CASE EntryAnswered(a)
  <2>1. /\ asks' \in [Query -> AskRecord \cup {NoAsk}] /\ crossed' \in BOOLEAN
        /\ crossed' = asks[a].raced /\ asks[a] \in AskRecord
        /\ AskHolds(asks[a]) /\ IsDue(asks[a])
        /\ AnswerTo(asks[a]) \in [of : Question, on : LookNetwork]
        /\ \A b \in Query : AskHolds(asks[b])'
        /\ DueAreMarked' /\ ~ UnderWayHere'
    BY <1>1, <1>3, ArrivedHolds DEF EntryAnswered
  <2>2. ListsTyped' /\ ListIsTheLog'
    BY <1>3, <2>1, NewestAreAList DEF EntryAnswered, EntryAdded, LookCore, ListsTyped, AskRecord,
                                      ListIsTheLog
  <2>3. LookTyped' /\ WaitsForAnAnswer'
    BY <1>1, <1>3, <2>1 DEF EntryAnswered, LookCore, LookTyped, WaitsForAnAnswer
  <2>4. ShownIsOfTheQuestion'
    BY <1>1, <1>3, <2>1 DEF EntryAnswered, LookCore, AskHolds, AnswerTo, ShownIsOfTheQuestion
  <2> QED BY <2>1, <2>2, <2>3, <2>4 DEF LookCore
<1> QED BY <1>2, <1>3

(* The answer of a query whose page was left, and a query that fails.      *)
LEMMA LateSteps ==
  ASSUME LookCore, NEW a \in Query, EntryAnsweredAfterwards(a) \/ EntryFails(a)
  PROVE  LookCore'
<1>1. CASE EntryFails(a) /\ AnswerArrives(a) /\ page = "ledger" /\ failed' = TRUE /\ busy' = FALSE
  <2>1. UNCHANGED <<page, question, lookNetwork, answer, fetched, queries, stored, log, listOvertaken>>
    BY <1>1 DEF EntryFails, listVars
  <2>2. /\ asks' \in [Query -> AskRecord \cup {NoAsk}] /\ crossed' \in BOOLEAN
        /\ AskHolds(asks[a]) /\ IsDue(asks[a])
        /\ \A b \in Query : AskHolds(asks[b])'
        /\ DueAreMarked' /\ ~ UnderWayHere'
    BY <1>1, <2>1, ArrivedHolds
  <2>3. LookTyped' /\ ListsTyped' /\ WaitsForAnAnswer' /\ ListIsTheLog'
    BY <1>1, <2>1, <2>2 DEF LookCore, LookTyped, ListsTyped, WaitsForAnAnswer, ListIsTheLog
  <2>4. ShownIsOfTheQuestion'
    BY <1>1, <2>1, <2>2 DEF AskHolds, ShownIsOfTheQuestion
  <2> QED BY <2>2, <2>3, <2>4 DEF LookCore
<1>2. CASE /\ asks[a].dropped /\ asks' = [asks EXCEPT ![a] = NoAsk]
           /\ stored' \in QueryLists /\ listOvertaken' \in BOOLEAN
           /\ listOvertaken' \/ (stored' = stored /\ listOvertaken' = listOvertaken)
           /\ UNCHANGED <<page, question, lookNetwork, answer, failed, busy, fetched, queries, log,
                          crossed>>
  <2>1. /\ asks' \in [Query -> AskRecord \cup {NoAsk}] /\ asks'[a] = NoAsk
        /\ \A b \in Query \ {a} : asks'[b] = asks[b]
    BY <1>2 DEF LookCore, LookTyped
  <2>2. \A b \in Query : /\ IsDue(asks'[b]) <=> IsDue(asks[b])
                         /\ asks'[b] = asks[b] \/ (~ IsDue(asks'[b]) /\ ~ asks'[b].dropped)
    BY <1>2, <2>1 DEF IsDue, NoAsk
  <2>3. UnderWayHere' <=> UnderWayHere
    <3>1. UnderWayHere <=> \E b \in Query : IsDue(asks[b])
      BY DEF UnderWayHere, Asks, IsDue
    <3>2. UnderWayHere' <=> \E b \in Query : IsDue(asks'[b])
      BY DEF UnderWayHere, Asks, IsDue
    <3> QED BY <2>2, <3>1, <3>2
  <2>4. (\A b \in Query : AskHolds(asks[b])') /\ DueAreMarked'
    BY <1>2, <2>2 DEF LookCore, AskHolds, DueAreMarked
  <2>5. LookTyped' /\ ListsTyped' /\ WaitsForAnAnswer' /\ ShownIsOfTheQuestion' /\ ListIsTheLog'
    BY <1>2, <2>1, <2>3 DEF LookCore, LookTyped, ListsTyped, WaitsForAnAnswer,
       ShownIsOfTheQuestion, ListIsTheLog
  <2> QED BY <2>4, <2>5 DEF LookCore
<1>3. ASSUME EntryAnsweredAfterwards(a)
      PROVE  stored' \in QueryLists
  <2>1. asks[a] \in AskRecord
    BY <1>3 DEF EntryAnsweredAfterwards, LookCore, LookTyped, NoAsk
  <2> QED BY <1>3, <2>1, NewestAreAList DEF EntryAnsweredAfterwards, EntryAdded, AskRecord
<1> QED BY <1>1, <1>2, <1>3 DEF EntryAnsweredAfterwards, EntryFails, listVars, LookCore, LookTyped,
     ListsTyped

LEMMA ShareSteps ==
  ASSUME LookCore, NEW a \in Query, (\E q \in Question : OpenLink(a, q)) \/ LinkAnswered(a)
  PROVE  LookCore'
<1>1. page = "share" /\ UNCHANGED <<page, lookNetwork, fetched, queries, stored, log, listOvertaken>>
  BY DEF OpenLink, LinkAnswered, listVars
<1>2. ListIsTheLog' /\ ListsTyped' /\ WaitsForAnAnswer'
  BY <1>1 DEF LookCore, ListIsTheLog, ListsTyped, WaitsForAnAnswer
<1>3. ASSUME NEW q \in Question, OpenLink(a, q)
      PROVE  LookCore'
  <2>1. /\ asks' \in [Query -> AskRecord \cup {NoAsk}]
        /\ \A b \in Query : AskHolds(asks[b])'
        /\ DueAreMarked' /\ UnderWayHere'
    BY <1>1, <1>3, AskedHolds DEF OpenLink, LookCore, LookTyped
  <2>2. LookTyped' /\ ShownIsOfTheQuestion'
    BY <1>1, <1>3, <2>1 DEF OpenLink, LookCore, LookTyped, ShownIsOfTheQuestion
  <2> QED BY <1>2, <2>1, <2>2 DEF LookCore
<1>4. CASE LinkAnswered(a)
  <2>1. /\ asks' \in [Query -> AskRecord \cup {NoAsk}] /\ crossed' \in BOOLEAN
        /\ crossed' = asks[a].raced /\ AskHolds(asks[a]) /\ IsDue(asks[a])
        /\ AnswerTo(asks[a]) \in [of : Question, on : LookNetwork]
        /\ \A b \in Query : AskHolds(asks[b])'
        /\ DueAreMarked' /\ (UnderWayHere' => crossed')
    BY <1>1, <1>4, ArrivedHolds DEF LinkAnswered
  <2>2. LookTyped'
    BY <1>1, <1>4, <2>1 DEF LinkAnswered, LookCore, LookTyped
  <2>3. ShownIsOfTheQuestion'
    BY <1>1, <1>4, <2>1 DEF LinkAnswered, AskHolds, AnswerTo, ShownIsOfTheQuestion
  <2> QED BY <1>2, <2>1, <2>2, <2>3 DEF LookCore
<1> QED BY <1>3, <1>4

LEMMA SourceSteps ==
  ASSUME LookCore, NEW a \in Query, (\E q \in Question : CheckSource(a, q)) \/ SourceAnswered(a)
  PROVE  LookCore'
<1>1. page = "source" /\ UNCHANGED <<page, lookNetwork, failed, fetched, queries, stored, log,
                                     listOvertaken>>
  BY DEF CheckSource, SourceAnswered, listVars
<1>2. ListIsTheLog' /\ ListsTyped'
  BY <1>1 DEF LookCore, ListIsTheLog, ListsTyped
<1>3. ASSUME NEW q \in Question, CheckSource(a, q), lookNetwork \in WithRegistry
      PROVE  LookCore'
  <2> DEFINE old == Overtaken(TRUE)
             new == [NoAsk EXCEPT !.at = page, !.of = q, !.on = lookNetwork, !.list = queries,
                                  !.raced = \E b \in Query : Asks(b) /\ ~ TRUE]
  <2>1. asks' = [old EXCEPT ![a] = new]
    BY <1>3 DEF CheckSource, EffectRuns, Asked
  <2>2. new \in AskRecord /\ new.at = "source" /\ new.of = q /\ ~ new.dropped /\ IsDue(new)
    BY <1>1 DEF LookCore, LookTyped, ListsTyped, AskRecord, NoAsk, IsDue, Pages
  <2>3. /\ old \in [Query -> AskRecord \cup {NoAsk}]
        /\ \A b \in Query : ~ IsDue(old[b]) /\ (old[b].dropped => old[b].at = "ledger")
    BY DroppedFacts DEF LookCore
  <2> HIDE DEF old, new
  <2>4. /\ asks' \in [Query -> AskRecord \cup {NoAsk}] /\ asks'[a] = new
        /\ \A b \in Query \ {a} : asks'[b] = old[b]
    BY <2>1, <2>2, <2>3
  <2>5. question' = q /\ busy' = TRUE /\ UNCHANGED <<answer, crossed>>
    BY <1>3 DEF CheckSource
  <2>6. (\A b \in Query : AskHolds(asks[b])') /\ DueAreMarked'
    BY <1>1, <2>2, <2>3, <2>4, <2>5 DEF AskHolds, DueAreMarked
  <2>7. UnderWayHere'
    BY <2>2, <2>4 DEF UnderWayHere, Asks, IsDue
  <2>8. LookTyped' /\ WaitsForAnAnswer' /\ ShownIsOfTheQuestion'
    BY <1>1, <2>4, <2>5, <2>7 DEF LookCore, LookTyped, WaitsForAnAnswer, ShownIsOfTheQuestion
  <2> QED BY <1>2, <2>6, <2>8 DEF LookCore
<1>4. ASSUME NEW q \in Question, CheckSource(a, q), lookNetwork \notin WithRegistry
      PROVE  LookCore'
  <2>1. /\ asks' = Overtaken(TRUE) /\ question' = q /\ busy' = FALSE /\ crossed' = crossed
        /\ answer' = [of |-> q, on |-> lookNetwork]
    BY <1>4 DEF CheckSource
  <2>2. /\ asks' \in [Query -> AskRecord \cup {NoAsk}]
        /\ \A b \in Query : ~ IsDue(asks'[b]) /\ (asks'[b].dropped => asks'[b].at = "ledger")
    BY <2>1, DroppedFacts DEF LookCore
  <2>3. (\A b \in Query : AskHolds(asks[b])') /\ DueAreMarked'
    BY <2>2 DEF AskHolds, DueAreMarked
  <2>4. ~ UnderWayHere'
    BY <2>2 DEF UnderWayHere, Asks, IsDue
  <2>5. LookTyped' /\ WaitsForAnAnswer' /\ ShownIsOfTheQuestion'
    BY <1>1, <2>1, <2>2, <2>4 DEF LookCore, LookTyped, WaitsForAnAnswer, ShownIsOfTheQuestion
  <2> QED BY <1>2, <2>3, <2>5 DEF LookCore
<1>5. CASE SourceAnswered(a)
  <2>1. /\ asks' \in [Query -> AskRecord \cup {NoAsk}] /\ crossed' \in BOOLEAN
        /\ AskHolds(asks[a]) /\ IsDue(asks[a])
        /\ AnswerTo(asks[a]) \in [of : Question, on : LookNetwork]
        /\ AnswerTo(asks[a]).of = asks[a].of
        /\ \A b \in Query : AskHolds(asks[b])'
        /\ DueAreMarked' /\ ~ UnderWayHere'
    BY <1>1, <1>5, ArrivedHolds DEF SourceAnswered
  <2>2. LookTyped' /\ WaitsForAnAnswer' /\ ShownIsOfTheQuestion'
    BY <1>1, <1>5, <2>1 DEF SourceAnswered, LookCore, LookTyped, AskHolds, WaitsForAnAnswer,
                            ShownIsOfTheQuestion
  <2> QED BY <1>2, <2>1, <2>2 DEF LookCore
<1> QED BY <1>3, <1>4, <1>5

(* The pages come and go, and the user types, clears and switches.         *)
LEMMA UserSteps ==
  ASSUME LookCore,
         \/ \E p \in Pages : OpenPage(p)
         \/ LeavePage \/ ClearQueries
         \/ \E q \in Question \cup {NoQuestion} : TypeAccount(q) \/ EditKey(q)
         \/ \E n \in LookNetwork : SwitchLookNetwork(n)
  PROVE  LookCore'
<1>1. ASSUME NEW p \in Pages, OpenPage(p)
      PROVE  LookCore'
  <2>1. \A b \in Query : ~ IsDue(asks[b])
    BY <1>1 DEF OpenPage, LookCore, AskHolds, IsDue
  <2>2. \A b \in Query : ~ IsDue(asks'[b]) /\ AskHolds(asks[b])'
    BY <1>1, <2>1 DEF OpenPage, LookCore, AskHolds
  <2>3. ~ UnderWayHere' /\ DueAreMarked'
    BY <2>2 DEF UnderWayHere, Asks, IsDue, DueAreMarked
  <2>6. busy' \in BOOLEAN
    BY <1>1 DEF OpenPage
  <2>7. LookTyped'
    BY <1>1, <2>6 DEF OpenPage, LookCore, LookTyped
  <2>4. ListsTyped' /\ ListIsTheLog'
    BY <1>1, EmptyIsAList DEF OpenPage, LookCore, ListsTyped, ListIsTheLog
  <2>5. WaitsForAnAnswer' /\ ShownIsOfTheQuestion'
    BY <1>1, <2>3 DEF OpenPage, WaitsForAnAnswer, ShownIsOfTheQuestion
  <2> QED BY <2>2, <2>3, <2>4, <2>5, <2>7 DEF LookCore
<1>2. CASE LeavePage
  <2>0. asks' = Overtaken(TRUE)
    BY <1>2 DEF LeavePage
  <2>1. /\ asks' \in [Query -> AskRecord \cup {NoAsk}]
        /\ \A b \in Query : ~ IsDue(asks'[b]) /\ (asks'[b].dropped => asks'[b].at = "ledger")
    BY <2>0, DroppedFacts DEF LookCore
  <2>2. (\A b \in Query : AskHolds(asks[b])') /\ DueAreMarked'
    BY <2>1 DEF AskHolds, DueAreMarked
  <2>3. LookTyped' /\ ListsTyped' /\ ListIsTheLog'
    BY <1>2, <2>1, EmptyIsAList DEF LeavePage, LookCore, LookTyped, ListsTyped, ListIsTheLog
  <2>4. WaitsForAnAnswer' /\ ShownIsOfTheQuestion'
    BY <1>2 DEF LeavePage, WaitsForAnAnswer, ShownIsOfTheQuestion
  <2> QED BY <2>2, <2>3, <2>4 DEF LookCore
<1>3. CASE ClearQueries
  <2>1. LookTyped' /\ ListsTyped' /\ ListIsTheLog'
    BY <1>3, EmptyIsAList DEF ClearQueries, ListGone, LookCore, LookTyped, ListsTyped, ListIsTheLog
  <2>2. (\A b \in Query : AskHolds(asks[b])') /\ DueAreMarked'
    BY <1>3 DEF ClearQueries, LookCore, AskHolds, DueAreMarked
  <2>3. UnderWayHere' <=> UnderWayHere
    BY <1>3 DEF ClearQueries, UnderWayHere, Asks
  <2>4. WaitsForAnAnswer' /\ ShownIsOfTheQuestion'
    BY <1>3, <2>3 DEF ClearQueries, LookCore, WaitsForAnAnswer, ShownIsOfTheQuestion
  <2> QED BY <2>1, <2>2, <2>4 DEF LookCore
<1>4. ASSUME NEW q \in Question \cup {NoQuestion}, TypeAccount(q)
      PROVE  LookCore'
  <2>1. LookTyped' /\ ListsTyped' /\ ListIsTheLog'
    BY <1>4 DEF TypeAccount, listVars, LookCore, LookTyped, ListsTyped, ListIsTheLog
  <2>2. (\A b \in Query : AskHolds(asks[b])') /\ DueAreMarked'
    BY <1>4 DEF TypeAccount, LookCore, AskHolds, DueAreMarked
  <2>3. UnderWayHere' <=> UnderWayHere
    BY <1>4 DEF TypeAccount, UnderWayHere, Asks
  <2>4. WaitsForAnAnswer' /\ ShownIsOfTheQuestion'
    BY <1>4, <2>3 DEF TypeAccount, LookCore, WaitsForAnAnswer, ShownIsOfTheQuestion
  <2> QED BY <2>1, <2>2, <2>4 DEF LookCore
<1>5. ASSUME NEW q \in Question \cup {NoQuestion}, EditKey(q)
      PROVE  LookCore'
  <2> DEFINE old(b) == [asks[b] EXCEPT !.raced = TRUE, !.dropped = @ \/ FALSE]
  <2>0. asks' = [b \in Query |-> IF ~ Asks(b) \/ (FALSE /\ asks[b].at # "ledger") THEN NoAsk
                                  ELSE old(b)]
    BY <1>5 DEF EditKey, Overtaken
  <2> HIDE DEF old
  <2>1. /\ page = "ledger" /\ page' = page /\ question' = q /\ answer' = NoAnswerYet
        /\ UNCHANGED <<lookNetwork, busy, fetched, crossed, queries, stored, log, listOvertaken>>
        /\ failed' \in BOOLEAN
    BY <1>5 DEF EditKey, listVars
  <2>2. ASSUME NEW b \in Query
        PROVE  /\ asks'[b] \in AskRecord \cup {NoAsk}
               /\ IsDue(asks'[b]) <=> IsDue(asks[b])
               /\ asks'[b].at = asks[b].at /\ asks'[b].dropped = asks[b].dropped
               /\ IsDue(asks'[b]) => asks'[b].raced
    <3>1. CASE ~ Asks(b)
      <4>1. asks[b] = NoAsk /\ asks'[b] = NoAsk
        BY <2>0, <3>1 DEF LookCore, LookTyped, Asks, AskRecord, Pages
      <4> QED BY <4>1 DEF NoAsk, IsDue
    <3>2. CASE Asks(b)
      <4>1. asks[b] \in AskRecord
        BY <3>2 DEF LookCore, LookTyped, Asks, NoAsk
      <4>2. asks'[b] = old(b)
        BY <2>0, <3>2
      <4> QED BY <4>1, <4>2 DEF AskRecord, IsDue, old
    <3> QED BY <3>1, <3>2
  <2>3. LookTyped' /\ ListsTyped' /\ ListIsTheLog'
    <3>1. asks' \in [Query -> AskRecord \cup {NoAsk}]
      BY <2>0, <2>2
    <3> QED BY <2>1, <3>1 DEF LookCore, LookTyped, ListsTyped, ListIsTheLog
  <2>4. (\A b \in Query : AskHolds(asks[b])') /\ DueAreMarked'
    BY <2>1, <2>2 DEF LookCore, AskHolds, DueAreMarked
  <2>5. UnderWayHere' <=> UnderWayHere
    <3>1. UnderWayHere <=> \E b \in Query : IsDue(asks[b])
      BY DEF UnderWayHere, Asks, IsDue
    <3>2. UnderWayHere' <=> \E b \in Query : IsDue(asks'[b])
      BY DEF UnderWayHere, Asks, IsDue
    <3> QED BY <2>2, <3>1, <3>2
  <2>6. WaitsForAnAnswer' /\ ShownIsOfTheQuestion'
    BY <2>1, <2>5 DEF LookCore, WaitsForAnAnswer, ShownIsOfTheQuestion
  <2> QED BY <2>3, <2>4, <2>6 DEF LookCore
<1>6. ASSUME NEW n \in LookNetwork, SwitchLookNetwork(n)
      PROVE  LookCore'
  <2>1. LookTyped' /\ ListsTyped' /\ ListIsTheLog'
    BY <1>6 DEF SwitchLookNetwork, listVars, LookCore, LookTyped, ListsTyped, ListIsTheLog
(* With no hash yet nothing is due that is not marked; with one, the       *)
(* Horizon stays the same.                                                 *)
  <2>0. page = "transaction" /\ question # NoQuestion => LookHorizon(lookNetwork') = LookHorizon(lookNetwork)
    BY <1>6 DEF SwitchLookNetwork
  <2>5. ASSUME NEW b \in Query, IsDue(asks[b]), page = "transaction", ~ asks[b].raced
        PROVE  question # NoQuestion
    <3>1. asks[b].of = question
      BY <2>5 DEF LookCore, AskHolds
    <3>2. asks[b] \in AskRecord
      BY <2>5 DEF LookCore, LookTyped, IsDue, NoAsk
    <3> QED BY <3>1, <3>2, LookAssumption DEF AskRecord
  <2>2. (\A b \in Query : AskHolds(asks[b])') /\ DueAreMarked'
    BY <1>6, <2>0, <2>5 DEF SwitchLookNetwork, LookCore, AskHolds, DueAreMarked
  <2>3. UnderWayHere' <=> UnderWayHere
    BY <1>6 DEF SwitchLookNetwork, UnderWayHere, Asks
  <2>4. WaitsForAnAnswer' /\ ShownIsOfTheQuestion'
    BY <1>6, <2>0, <2>3 DEF SwitchLookNetwork, LookCore, WaitsForAnAnswer, ShownIsOfTheQuestion
  <2> QED BY <2>1, <2>2, <2>4 DEF LookCore
<1> QED BY <1>1, <1>2, <1>3, <1>4, <1>5, <1>6

LEMMA LookSteps ==
  ASSUME LookCore, [LookNext]_lookVars
  PROVE  LookCore'
<1>1. CASE UNCHANGED lookVars
  BY <1>1 DEF lookVars, LookCore, LookTyped, ListsTyped, AskHolds, DueAreMarked, WaitsForAnAnswer,
     UnderWayHere, Asks, ShownIsOfTheQuestion, ListIsTheLog
<1> QED BY <1>1, UserSteps, AccountHistorySteps, TransactionSteps, LedgerSteps, LateSteps, ShareSteps,
           SourceSteps DEF LookNext

(* The pages that look something up say that they wait exactly while an    *)
(* answer is due, show the answer to what they ask, and remember what was  *)
(* answered, but for the overlaps named.                                   *)
THEOREM LookupsHold == LookSpec => []LookInv
<1>1. LookCore => LookInv
  <2> SUFFICES ASSUME LookCore PROVE LookInv
    OBVIOUS
  <2>1. \A a \in Query : asks[a] \in AskRecord \cup {NoAsk}
    BY DEF LookCore, LookTyped
  <2>2. LookTypeOK
    BY <2>1 DEF LookCore, LookTyped, ListsTyped, LookTypeOK, AskRecord
  <2> QED BY <2>2 DEF LookCore, LookInv
<1> QED BY <1>1, LookBegins, LookSteps, PTL DEF LookSpec

=============================================================================
