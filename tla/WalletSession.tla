---------------------------- MODULE WalletSession ----------------------------
(***************************************************************************)
(* The wallet session of apps/web (store/useWallet.ts): connect,           *)
(* disconnectWallet and revalidateSession, each with one await on the      *)
(* wallet provider, and the switch of networks the session is held         *)
(* against.                                                                *)
(*                                                                         *)
(* Nothing keeps two calls apart: a page that becomes visible revalidates  *)
(* while the user connects or disconnects, and a failed revalidation       *)
(* disconnects the wallet that is there by then.  A network stands for its *)
(* passphrase.  The sandbox flag and the session token decide nothing here,*)
(* and attemptReconnect returns at once, as autoReconnect is never set.    *)
(***************************************************************************)
EXTENDS Naturals

CONSTANTS
  Provider,       \* wallet providers
  NoWallet,
  Network,
  NoNetwork,
  WalletCall,     \* calls that may be under way at once
  MaxPageLoads    \* bound on reloads of the page

ASSUME WalletAssumption ==
  /\ NoWallet \notin Provider /\ NoNetwork \notin Network
  /\ MaxPageLoads \in Nat

VARIABLES
  wallet,          \* walletType, while isConnected
  sessionStatus,
  network,         \* currentNetwork
  atConnect,       \* networkAtConnect and networkPassphraseAtConnect
  calls,           \* calls[c]: call c, while it waits for its provider
  overtaken,       \* history: who set sessionStatus had begun in another session
  switched,        \* history: the network was switched after sessionStatus was set
  pageLoads

session == <<wallet, sessionStatus, atConnect, overtaken>>
walletVars == <<session, network, calls, switched, pageLoads>>

Known == Network \cup {NoNetwork}
AtConnect == [network : Known, passphrase : Known]
Never == [network |-> NoNetwork, passphrase |-> NoNetwork]

(* What a call holds: the wallet it is about and, for a revalidation, what *)
(* the session said of its networks.  raced: the session has changed since.*)
Waiting == [op : {"none", "connect", "disconnect", "revalidate"},
            wallet : Provider \cup {NoWallet}, held : AtConnect, raced : BOOLEAN]
NoCall == [op |-> "none", wallet |-> NoWallet, held |-> Never, raced |-> FALSE]

WalletInit ==
  /\ wallet = NoWallet /\ sessionStatus = "disconnected"
  /\ network \in Network /\ atConnect = Never
  /\ calls = [c \in WalletCall |-> NoCall]
  /\ overtaken = FALSE /\ switched = FALSE /\ pageLoads = 0

(* A call begins to wait; one that ends; one that ends with the session    *)
(* changed under all others.                                               *)
Waits(c, o, w, h) ==
  calls' = [calls EXCEPT ![c] = [op |-> o, wallet |-> w, held |-> h, raced |-> FALSE]]
Ends(c) == calls' = [calls EXCEPT ![c] = NoCall]
EndsSession(c) ==
  calls' = [d \in WalletCall |-> IF d = c \/ calls[d].op = "none" THEN NoCall
                                 ELSE [calls[d] EXCEPT !.raced = TRUE]]

Verdict(status, stale) ==
  /\ sessionStatus' = status /\ overtaken' = stale /\ switched' = FALSE

-----------------------------------------------------------------------------
(* connect: offered while no wallet is connected; it sets everything when  *)
(* the provider answers, and nothing when it refuses.                      *)
Connect(c, p) ==
  /\ calls[c].op = "none" /\ wallet = NoWallet
  /\ Waits(c, "connect", p, Never)
  /\ UNCHANGED <<session, network, switched, pageLoads>>

ConnectAnswered(c, passphrase) ==
  /\ calls[c].op = "connect"
  /\ wallet' = calls[c].wallet
  /\ atConnect' = [network |-> network, passphrase |-> passphrase]
  /\ Verdict("valid", FALSE)
  /\ EndsSession(c)
  /\ UNCHANGED <<network, pageLoads>>

ConnectRefused(c) ==
  /\ calls[c].op = "connect"
  /\ Ends(c)
  /\ UNCHANGED <<session, network, switched, pageLoads>>

(* Mutant: what the session said of its networks is left behind. *)
ClearWallet(c) ==
  /\ wallet' = NoWallet /\ UNCHANGED atConnect
  /\ Verdict("disconnected", FALSE)
  /\ EndsSession(c)

(* disconnectWallet: tell the provider, then clear what is there, whether  *)
(* the provider agreed or threw.                                           *)
Clear(c) ==
  /\ wallet' = NoWallet /\ atConnect' = Never
  /\ Verdict("disconnected", FALSE)
  /\ EndsSession(c)

Disconnect(c) ==
  /\ calls[c].op = "none" /\ wallet # NoWallet
  /\ Waits(c, "disconnect", wallet, Never)
  /\ UNCHANGED <<session, network, switched, pageLoads>>

DisconnectAnswered(c) ==
  /\ calls[c].op = "disconnect"
  /\ Clear(c)
  /\ UNCHANGED <<network, pageLoads>>

-----------------------------------------------------------------------------
(* revalidateSession: when the page becomes visible, or when a button is   *)
(* mounted by a navigation within the console, which does see the session. *)
Revalidate(c) ==
  /\ calls[c].op = "none"
  /\ IF wallet = NoWallet
     THEN Verdict("disconnected", FALSE) /\ UNCHANGED calls
     ELSE /\ Waits(c, "revalidate", wallet, atConnect)
          /\ UNCHANGED <<sessionStatus, overtaken, switched>>
  /\ UNCHANGED <<wallet, atConnect, network, pageLoads>>


(* Mutant: the store is cleared without telling the provider. *)
RevalidationFailsQuietly(c) ==
  /\ calls[c].op = "revalidate"
  /\ Clear(c)
  /\ UNCHANGED <<network, pageLoads>>

(* Invalid, or the provider threw: disconnectWallet, without awaiting it,  *)
(* of whatever wallet is there.                                            *)
RevalidationFails(c) ==
  /\ calls[c].op = "revalidate"
  /\ IF wallet = NoWallet
     THEN Clear(c)
     ELSE Waits(c, "disconnect", wallet, Never) /\ UNCHANGED <<session, switched>>
  /\ UNCHANGED <<network, pageLoads>>

(* Mutant: with a passphrase to compare, the network's name is not. *)
MismatchOfPassphrase(held, passphrase) ==
  LET known == IF passphrase # NoNetwork THEN passphrase ELSE held.passphrase IN
  IF known # NoNetwork THEN known # network ELSE held.network # network

Mismatch(held, passphrase) ==
  LET known == IF passphrase # NoNetwork THEN passphrase ELSE held.passphrase IN
  \/ known # NoNetwork /\ known # network
  \/ held.network # NoNetwork /\ held.network # network

(* The verdict compares what the session was when the call began with the  *)
(* network of now, and is written without another look at the session.     *)
Revalidated(c, passphrase) ==
  /\ calls[c].op = "revalidate"
  /\ Verdict(IF Mismatch(calls[c].held, passphrase) THEN "mismatch" ELSE "valid", calls[c].raced)
  /\ Ends(c)
  /\ UNCHANGED <<wallet, atConnect, network, pageLoads>>

(* setNetwork, or the removal of the custom network in use. *)
SetNetwork(n) ==
  /\ n # network /\ network' = n /\ switched' = TRUE
  /\ UNCHANGED <<session, calls, pageLoads>>

(* A reload keeps what is persisted and vets nothing: the page is rendered *)
(* on the server and hydrated with the initial state, so that the effect   *)
(* of the button in the header, which runs once, finds no session (lines   *)
(* 56-67 of wallet-connect.tsx, whose comment wants it revalidated).       *)
LoadPage ==
  /\ pageLoads < MaxPageLoads /\ pageLoads' = pageLoads + 1
  /\ sessionStatus' = "disconnected" /\ overtaken' = FALSE /\ switched' = FALSE
  /\ calls' = [d \in WalletCall |-> NoCall]
  /\ UNCHANGED <<wallet, atConnect, network>>

RevalidationAnswered(c) ==
  RevalidationFails(c) \/ \E passphrase \in Known : Revalidated(c, passphrase)

WalletNext ==
  \/ \E c \in WalletCall :
       \/ \E p \in Provider : Connect(c, p)
       \/ \E passphrase \in Known : ConnectAnswered(c, passphrase)
       \/ ConnectRefused(c) \/ Disconnect(c) \/ DisconnectAnswered(c)
       \/ Revalidate(c) \/ RevalidationAnswered(c)
  \/ \E n \in Network : SetNetwork(n)
  \/ LoadPage

WalletSpec == WalletInit /\ [][WalletNext]_walletVars

(* A provider that is asked to revalidate or to disconnect answers, since  *)
(* neither asks the user anything; connect does.                           *)
WalletFairness ==
  \A c \in WalletCall :
    WF_walletVars(RevalidationAnswered(c)) /\ WF_walletVars(DisconnectAnswered(c))

WSpec == WalletSpec /\ WalletFairness

-----------------------------------------------------------------------------
(* The session and the calls have their types; a wallet that is connected  *)
(* has the network it was connected on.                                    *)
WalletTypeOK ==
  /\ wallet \in Provider \cup {NoWallet}
  /\ sessionStatus \in {"valid", "mismatch", "disconnected"}
  /\ network \in Network /\ atConnect \in AtConnect
  /\ wallet = NoWallet <=> atConnect.network = NoNetwork
  /\ calls \in [WalletCall -> Waiting]
  /\ overtaken \in BOOLEAN /\ switched \in BOOLEAN /\ pageLoads \in 0 .. MaxPageLoads

(* The status the header shows is true: of a connected wallet, and "valid" *)
(* only on the network it was connected on.  The exceptions: the network   *)
(* was switched and nobody has revalidated yet, or the last revalidation   *)
(* had begun in an earlier session.                                        *)
StatusHonestUnlessRaced ==
  sessionStatus # "disconnected" /\ ~ overtaken =>
    /\ wallet # NoWallet
    /\ sessionStatus = "valid" /\ ~ switched => atConnect.network = network

(* Together with the types: the shown status is true, but for the races    *)
(* named.                                                                  *)
WalletInv ==
  /\ WalletTypeOK /\ StatusHonestUnlessRaced

(* The store forgets a wallet only after its provider was told to          *)
(* disconnect, or when the wallet came while another was being             *)
(* disconnected.                                                           *)
ForgottenAreDisconnected ==
  [][wallet # NoWallet /\ wallet' = NoWallet =>
       \E c \in WalletCall :
         calls[c].op = "disconnect" /\ (calls[c].wallet = wallet \/ calls[c].raced)]_walletVars

=============================================================================
