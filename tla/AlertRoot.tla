----------------------------- MODULE AlertRoot -----------------------------
(***************************************************************************)
(* The one alert of a page (beacon-ui ui/alert/index.tsx): a React root    *)
(* that is rendered when the first alert is opened, and opens, fades and   *)
(* shows another configuration afterwards.  A pairing alert is opened for  *)
(* an attempt to pair, which hands it three codes as promises: one for     *)
(* browser extensions (post message), one for Beacon wallets (P2P) and one *)
(* for WalletConnect.                                                      *)
(***************************************************************************)
EXTENDS Integers, FiniteSets

CONSTANTS
    NAttempts,  \* bound: attempts to pair
    None

ASSUME AttemptsAssumption == NAttempts \in Nat \ {0} /\ None \notin Nat

Attempts == 1..NAttempts
Types == {"pm", "p2p", "wc"}
Codes == Attempts \X Types
Info == 0  \* the configuration of an alert that only tells something

VARIABLES
    root,    \* "none", "creating" (50 ms until React renders it) or "there"
    isOpen, mount, config,  \* state of AlertRoot: config is an attempt or Info
    fades,   \* unmount timers that run
    codes,   \* the promises of the pairing payload: "pending", "ready" or "empty"
    given    \* codes a wallet has got: scanned, posted or in a link

rootVars == <<root, isOpen, mount, config, fades>>
alertVars == <<root, isOpen, mount, config, fades, codes, given>>

RootInit ==
    /\ root = "none" /\ isOpen = FALSE /\ mount = FALSE /\ config = None /\ fades = 0
    /\ codes = [a \in Attempts |-> [t \in Types |-> "pending"]]
    /\ given = {}

\* openAlert: the first alert is rendered 50 ms later; what is published before
\* that reaches nobody.
OpenAlert(c) ==
    \/ /\ root = "none"
       /\ root' = "creating" /\ config' = c
       /\ UNCHANGED <<isOpen, mount, fades>>
    \/ root = "creating" /\ UNCHANGED rootVars
    \/ /\ root = "there"
       /\ config' = c /\ isOpen' = TRUE /\ mount' = (mount \/ ~isOpen)
       /\ UNCHANGED <<root, fades>>

CloseAlert ==
    IF root = "there" /\ isOpen
    THEN isOpen' = FALSE /\ fades' = fades + 1 /\ UNCHANGED <<root, config, mount>>
    ELSE UNCHANGED rootVars

\* createAlert renders AlertRoot, which is open.
Render ==
    /\ root = "creating"
    /\ root' = "there" /\ isOpen' = TRUE /\ mount' = TRUE
    /\ UNCHANGED <<config, fades, codes, given>>

\* The timer of an alert that was closed unmounts whatever is there by then.
FadeOut ==
    /\ fades > 0
    /\ fades' = fades - 1 /\ mount' = FALSE
    /\ UNCHANGED <<root, isOpen, config, codes, given>>

\* The user acts in a pairing alert that is open: one that fades can only be closed.
Usable == isOpen /\ mount /\ config \in Attempts

CodeReady(c) == codes[c[1]][c[2]] = "ready"
CodeKnown(c) == codes[c[1]][c[2]] # "pending"

-----------------------------------------------------------------------------
(* What DAppClient, React and the timers do to the alert. *)

\* PAIR_INIT, with a post message code that is ready at once, and the events that
\* show another alert.
OpenFor(c) ==
    /\ OpenAlert(c)
    /\ codes' = IF c = Info THEN codes ELSE [codes EXCEPT ![c]["pm"] = "ready"]

CodeOf(a, t, is) == codes' = [codes EXCEPT ![a][t] = is]

\* The P2P code waits for the relay and the WalletConnect URI for a proposal; either
\* may fail.
Opened == {a \in Attempts : CodeKnown(<<a, "pm">>)}
CodeComes ==
    \E a \in Opened, t \in {"p2p", "wc"}, is \in {"ready", "empty"} :
        ~CodeKnown(<<a, t>>) /\ CodeOf(a, t, is)

\* An alert is opened once for each attempt, and each code settles once, after that.
ClientStep ==
    \/ Render \/ FadeOut
    \/ \E c \in (Attempts \ Opened) \cup {Info} : OpenFor(c)
    \/ CloseAlert /\ (UNCHANGED codes \/ CodeComes)
    \/ UNCHANGED rootVars /\ CodeComes

RootTypeOK ==
    /\ root \in {"none", "creating", "there"}
    /\ isOpen \in BOOLEAN /\ mount \in BOOLEAN
    /\ config \in Attempts \cup {Info, None}
    /\ fades \in Nat
    /\ codes \in [Attempts -> [Types -> {"pending", "ready", "empty"}]]
    /\ given \subseteq Codes

=============================================================================
