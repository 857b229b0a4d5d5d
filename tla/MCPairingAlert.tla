--------------------------- MODULE MCPairingAlert ---------------------------
(***************************************************************************)
(* Instances of PairingAlert for TLC.                                      *)
(***************************************************************************)
EXTENDS PairingAlert, TLC

CONSTANTS kukai, temple, umami, bitget

Entry(name, type, wc, deep, firefox) ==
    [name |-> name, type |-> type, wc |-> wc, deep |-> deep, firefox |-> firefox,
     kukai |-> name = kukai]

\* A WalletConnect wallet for phones and browsers, a Beacon wallet that is an extension
\* and a desktop app, one for phones, and a web page.
MCEntries == << Entry(kukai, "ios", TRUE, TRUE, FALSE),
                Entry(kukai, "web", FALSE, FALSE, FALSE),
                Entry(temple, "extension", FALSE, FALSE, TRUE),
                Entry(temple, "desktop", FALSE, TRUE, FALSE),
                Entry(umami, "ios", FALSE, TRUE, FALSE),
                Entry(bitget, "web", TRUE, FALSE, FALSE) >>

=============================================================================
