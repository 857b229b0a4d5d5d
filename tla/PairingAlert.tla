---------------------------- MODULE PairingAlert ----------------------------
(***************************************************************************)
(* The alert in which a user chooses a wallet to pair with: the views of   *)
(* the pairing alert (components/pairing-alert) and the handlers of its    *)
(* buttons (hooks/useConnect.tsx), inside AlertRoot.                       *)
(*                                                                         *)
(* A handler that awaits a code is an element of `awaits` and may be       *)
(* resumed when its component is gone: it then still opens links, but sets *)
(* no state.  DAppClient is the environment here: it opens an alert for an *)
(* attempt, provides its codes and closes the alert (see Pairing).         *)
(*                                                                         *)
(* Abstracted: layout ("show more" included), texts, icons, the record of  *)
(* the last selected wallet, the list of a single wallet, which is clicked *)
(* by itself, and wallets with rules of their own (Acurast).               *)
(***************************************************************************)
EXTENDS AlertRoot, Sequences, SequencesExt

CONSTANTS
    Entries,    \* wallet lists: sequence of [name, type, wc, deep, firefox, kukai]
    Devices,    \* subset of {"desktop", "narrow", "phone"}
    LongList,   \* whether the list has the six wallets that "other wallets" needs
    MaxAlerts   \* bound: alerts opened

ASSUME ViewAssumption ==
    /\ Devices \subseteq {"desktop", "narrow", "phone"}
    /\ LongList \in BOOLEAN
    /\ MaxAlerts \in Nat

\* What useConnect's qrCode may hold besides a code.
NoCode == <<"undefined">>
EmptyCode == <<"empty">>
ErrorCode == <<"error">>

VARIABLES
    device,  \* where the page is shown
    ui,      \* state of the mounted pairing alert
    awaits,  \* handlers that await a code
    alerts   \* alerts opened so far, for the bound

uiVars == <<device, ui, awaits, alerts>>
viewVars == <<alertVars, uiVars>>

-----------------------------------------------------------------------------
(* The wallets: entries of one name make one wallet. *)

Wallets == {Entries[i].name : i \in DOMAIN Entries}
EntriesOf(w) == SelectSeq(Entries, LAMBDA e : e.name = w)

\* What mergeWallets makes of the entries of a wallet: the standards are those
\* of the first entry, the deep link that of the last one.
MergeWallets(w) ==
    LET es == EntriesOf(w)
    IN  [types   |-> [i \in DOMAIN es |-> es[i].type],
         wc      |-> Head(es).wc,
         deep    |-> Last(es).deep,
         firefox |-> \E i \in DOMAIN es : es[i].firefox,
         kukai   |-> Head(es).kukai]

TypesOf(w) == ToSet(MergeWallets(w).types)
Only(w, t) == MergeWallets(w).types = <<t>>
Standard(w) == IF MergeWallets(w).wc THEN "wc" ELSE "p2p"
IsMobile == device \in {"narrow", "phone"}  \* useIsMobile, by the width of the window

-----------------------------------------------------------------------------
(* AlertRoot renders its content as a new component type each time. *)

FreshUI == [view |-> "top-wallets", wallet |-> None, loading |-> FALSE, qr |-> NoCode,
            extra |-> FALSE, working |-> TRUE, other |-> "selection"]

\* The state of the content starts again, and handlers that run no longer reach it.
Rerendered ==
    IF <<isOpen, mount, config>>' = <<isOpen, mount, config>> THEN UNCHANGED <<ui, awaits>>
    ELSE /\ ui' = FreshUI
         /\ awaits' = {[h EXCEPT !.live = FALSE] : h \in awaits}

-----------------------------------------------------------------------------
(* useConnect. *)

Await(do, w, type) ==
    awaits' = awaits \cup {[do |-> do, wallet |-> w, code |-> <<config, type>>, live |-> TRUE]}

\* handleNewTab hands Kukai's web page the code of a Beacon wallet.
TabStandard(w) == IF MergeWallets(w).kukai THEN "p2p" ELSE Standard(w)

\* setInstallState: whether there is more to choose than the one thing a click does.
Installs(w) ==
    /\ \/ Len(MergeWallets(w).types) > 1
       \/ TypesOf(w) \cap {"ios", "desktop"} # {}
    /\ ~(device = "phone" /\ Only(w, "desktop"))
InstallView(u, w) == IF Installs(w) THEN [u EXCEPT !.view = "install"] ELSE u

\* Variant: the first list stays enabled.
ListEnabledAlways == ui.view \in {"top-wallets", "wallets"}

\* The lists of the first view are disabled while a handler runs, the long list is not.
ListEnabled == \/ ui.view = "top-wallets" /\ ~ui.loading
               \/ ui.view = "wallets"

ClickWallet(w) ==
    /\ Usable /\ ListEnabled
    /\ LET u == [ui EXCEPT !.wallet = w, !.loading = TRUE]
       IN  IF Only(w, "web") THEN ui' = u /\ Await("newtab", w, TabStandard(w))
           ELSE IF Standard(w) = "wc" THEN ui' = u /\ Await("click", w, "wc")
           ELSE IF device = "phone" /\ "ios" \in TypesOf(w)
           THEN ui' = [u EXCEPT !.qr = EmptyCode] /\ Await("link", w, "p2p")
           ELSE ui' = InstallView(u, w) /\ Await("click", w, "p2p")
    /\ UNCHANGED <<rootVars, codes, given, device, alerts>>

Closed(u) == [u EXCEPT !.loading = FALSE]

\* setIsWCWorking: what a handler learns of the WalletConnect code.
Checked(h) == [ui EXCEPT !.working = IF h.code[2] = "wc" THEN CodeReady(h.code) ELSE @]

\* The rest of handleClickWallet when the code of a WalletConnect wallet has come.
AfterURI(h) ==
    IF CodeReady(h.code) /\ ~(IsMobile /\ Only(h.wallet, "ios"))
    THEN InstallView([Checked(h) EXCEPT !.qr = h.code], h.wallet)
    ELSE IF ~CodeReady(h.code) /\ MergeWallets(h.wallet).kukai
    THEN InstallView([Checked(h) EXCEPT !.qr = ErrorCode], h.wallet)
    ELSE Checked(h)

\* The state a resumed handler sets.
AfterAwait(h) ==
    IF h.do = "click" /\ h.code[2] = "wc" THEN Closed(AfterURI(h))
    ELSE IF h.do = "click"
    THEN Closed([ui EXCEPT !.qr = IF CodeReady(h.code) THEN h.code ELSE EmptyCode])
    ELSE IF h.do = "link" THEN Closed(ui)
    ELSE IF h.do = "newtab" THEN Checked(h)
    ELSE IF h.do = "showqr" THEN [ui EXCEPT !.qr = h.code, !.view = "qr", !.extra = TRUE]
    ELSE ui

\* The code a resumed handler gives away: in a link it opens or in a posted message.
Opens(h) == \/ h.do \in {"newtab", "link", "deeplink", "extension", "desktop"}
            \/ h.do = "click" /\ h.code[2] = "wc" /\ IsMobile /\ Only(h.wallet, "ios")

Resume(h) ==
    /\ h \in awaits /\ CodeKnown(h.code)
    /\ awaits' = awaits \ {h}
    /\ ui' = IF h.live THEN AfterAwait(h) ELSE ui
    /\ given' = IF Opens(h) /\ CodeReady(h.code) THEN given \cup {h.code} ELSE given
    /\ UNCHANGED <<rootVars, codes, device, alerts>>

-----------------------------------------------------------------------------
(* The buttons of the views. *)

SetView(v) == ui' = [ui EXCEPT !.view = v, !.other = "selection"]

Button(view) == /\ Usable /\ ui.view = view
                /\ UNCHANGED <<rootVars, codes, device, alerts>>

\* "Use Browser": the alert is loading from now on.
HandleNewTab ==
    /\ Button("install") /\ "web" \in TypesOf(ui.wallet)
    /\ ui' = [ui EXCEPT !.loading = TRUE]
    /\ Await("newtab", ui.wallet, TabStandard(ui.wallet))
    /\ UNCHANGED given

HandleClickConnectExtension ==
    /\ Button("install") /\ ~IsMobile /\ "extension" \in TypesOf(ui.wallet)
    /\ MergeWallets(ui.wallet).firefox
    /\ Await("extension", ui.wallet, "pm")
    /\ UNCHANGED <<ui, given>>

HandleClickOpenDesktopApp ==
    /\ Button("install") /\ device # "phone" /\ "desktop" \in TypesOf(ui.wallet)
    /\ MergeWallets(ui.wallet).deep
    /\ Await("desktop", ui.wallet, "p2p")
    /\ UNCHANGED <<ui, given>>

\* The card of a mobile wallet: only wallets of a WalletConnect that works have it, so
\* its handlers find a code.
MobileCard == /\ device = "phone" /\ "ios" \in TypesOf(ui.wallet)
              /\ ui.working /\ Standard(ui.wallet) = "wc"

HandleDeepLinking ==
    /\ Button("install") /\ MobileCard
    /\ ui' = Closed(ui) /\ Await("deeplink", ui.wallet, "wc")
    /\ UNCHANGED given

ShowQRCode ==
    /\ Button("install") /\ MobileCard
    /\ ui' = Closed(ui) /\ Await("showqr", ui.wallet, "wc")
    /\ UNCHANGED given

HandleClickOther ==
    /\ \/ ~IsMobile /\ Button("top-wallets")
       \/ Button("wallets")
    /\ SetView("qr")
    /\ UNCHANGED <<awaits, given>>

\* PairOther offers the codes there are once both are known.
SelectOther(t) ==
    /\ Button("qr") /\ ~ui.extra /\ ui.other = "selection"
    /\ CodeKnown(<<config, "p2p">>) /\ CodeKnown(<<config, "wc">>)
    /\ CodeReady(<<config, t>>)
    /\ ui' = [ui EXCEPT !.other = t]
    /\ UNCHANGED <<awaits, given>>

OtherWallets ==
    /\ IsMobile /\ LongList /\ Button("top-wallets")
    /\ SetView("wallets")
    /\ UNCHANGED <<awaits, given>>

Back ==
    /\ \/ Button("install") \/ Button("qr") \/ Button("bug-report")
       \/ IsMobile /\ Button("wallets")
    /\ SetView("top-wallets")
    /\ UNCHANGED <<awaits, given>>

\* WCInitError stands where the mobile wallet's card or QR code would be.
InitError ==
    \/ /\ ui.view = "install" /\ "ios" \in TypesOf(ui.wallet)
       /\ IF device = "phone" THEN ~MobileCard
          ELSE ui.qr \notin {NoCode, EmptyCode} /\ Standard(ui.wallet) = "wc" /\ ~ui.working
    \/ ui.view = "qr" /\ ui.extra /\ Standard(ui.wallet) = "wc" /\ ~ui.working

\* The link to the bug report form.
LearnMore ==
    /\ \/ Button("top-wallets")
       \/ InitError /\ Button(ui.view)
    /\ SetView("bug-report")
    /\ UNCHANGED <<awaits, given>>

\* A wallet's own code, in the list of what it offers (not on a phone) or by itself.
ShowsOwnCode ==
    \/ /\ ui.view = "install" /\ device # "phone" /\ "ios" \in TypesOf(ui.wallet)
       /\ Standard(ui.wallet) = "wc" => ui.working
    \/ ui.view = "qr" /\ ui.extra

\* The QR codes to be seen, each with the standard of the wallet it is shown for.
Shown ==
    IF ~Usable THEN {}
    ELSE {[code |-> q, for |-> Standard(ui.wallet)] :
            q \in {c \in Codes : c = ui.qr /\ ShowsOwnCode}}
         \cup {[code |-> <<config, t>>, for |-> t] :
                t \in {type \in Types : type = ui.other /\ ui.view = "qr" /\ ~ui.extra}}

Scan(s) ==
    /\ s \in Shown
    /\ given' = given \cup {s.code}
    /\ UNCHANGED <<rootVars, codes, uiVars>>

-----------------------------------------------------------------------------
(* DAppClient and the user open and close the alert. *)

\* onCloseHandler: the close button, the backdrop, a bug report that is sent.
Close ==
    /\ mount /\ isOpen
    /\ CloseAlert /\ Rerendered
    /\ UNCHANGED <<codes, given, device, alerts>>

\* An alert for an attempt, once, or one that shows something else.
Open(c) ==
    /\ alerts < MaxAlerts /\ alerts' = alerts + 1
    /\ OpenFor(c) /\ Rerendered
    /\ UNCHANGED <<given, device>>

\* PAIR_SUCCESS or HIDE_UI, as a relay that is not reached does with its code.
Hide ==
    /\ isOpen
    /\ CloseAlert /\ Rerendered
    /\ UNCHANGED codes \/ CodeComes
    /\ UNCHANGED <<given, device, alerts>>

Provide == CodeComes /\ UNCHANGED <<rootVars, given, uiVars>>

Root == /\ Render \/ FadeOut
        /\ Rerendered
        /\ UNCHANGED <<device, alerts>>

AlertInit ==
    /\ RootInit
    /\ device \in Devices
    /\ ui = FreshUI /\ awaits = {} /\ alerts = 0

\* Handlers whose code is known are resumed before anything else happens.
AlertIdle == \A h \in awaits : ~CodeKnown(h.code)

DApp ==
    \/ Root \/ Hide
    \/ \E c \in (Attempts \ Opened) \cup {Info} : Open(c)
    \/ Provide

AlertUser ==
    \/ Close
    \/ \E w \in Wallets : ClickWallet(w)
    \/ HandleNewTab \/ HandleClickConnectExtension \/ HandleClickOpenDesktopApp
    \/ HandleDeepLinking \/ ShowQRCode \/ HandleClickOther \/ OtherWallets
    \/ Back \/ LearnMore
    \/ \E t \in {"p2p", "wc"} : SelectOther(t)
    \/ \E s \in Shown : Scan(s)

AlertNext ==
    \/ \E h \in awaits : Resume(h)
    \/ AlertIdle /\ DApp
    \/ AlertIdle /\ AlertUser

AlertSpec == AlertInit /\ [][AlertNext]_viewVars

-----------------------------------------------------------------------------
Views == {"top-wallets", "wallets", "install", "qr", "bug-report"}
Handlers == {"click", "link", "newtab", "deeplink", "showqr", "extension", "desktop"}

UI == [view : Views, wallet : Wallets \cup {None}, loading : BOOLEAN,
       qr : Codes \cup {NoCode, EmptyCode, ErrorCode}, extra : BOOLEAN, working : BOOLEAN,
       other : {"selection", "p2p", "wc"}]
Handler == [do : Handlers, wallet : Wallets, code : Codes, live : BOOLEAN]

AlertTypeOK ==
    /\ RootTypeOK
    /\ device \in Devices /\ alerts \in 0..MaxAlerts
    /\ ui \in UI
    /\ awaits \subseteq Handler

\* A QR code that is shown is one there is, and of the attempt whose alert is open.
\* Once no handler runs it is also of the standard of the wallet it is shown for, in
\* whatever order the codes came and the wallets were chosen; not so on a phone, where
\* the long list can be used while the handler of another wallet still runs.
ShownCodeFits ==
    \A s \in Shown :
        /\ s.code[1] = config /\ CodeReady(s.code)
        /\ s.for # s.code[2] => (IsMobile /\ LongList) \/ \E h \in awaits : h.live

\* An alert that is open is there to be seen: only closed ones are unmounted.
OpenAlertIsMounted == isOpen => mount

=============================================================================
