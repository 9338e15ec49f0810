-------------------------------- MODULE Portal --------------------------------
(***************************************************************************)
(* The pages that act for an address, in one browser tab                   *)
(* (src/frontend/src/main.tsx, router.ts).  The path decides which page is *)
(* mounted; leaving a page drops its state, and the same page opened again *)
(* starts over, so a behaviour here is one stay at one page.  The bridge   *)
(* page's lookup and one chain's card of it share no variable and are two  *)
(* parts, and so are the vault page's forms and its figures.                   *)
(***************************************************************************)
EXTENDS BridgeClaims, BridgeLookup, VaultPage, ConfirmPage, LedgerSession,
    VaultFigures, History

VARIABLE page  \* the part of the site the tab is at

Parts == {"card", "lookup", "vault", "confirm", "ledger", "figures", "history"}

portalVars == <<page, claimsVars, lookupVars, vaultVars, confirmPageVars, ledgerVars, figuresVars,
    historyVars>>

PortalTypeOK ==
    /\ page \in Parts
    /\ BridgeTypeOK
    /\ AddressTypeOK
    /\ VaultTypeOK
    /\ ConfirmPageTypeOK
    /\ LedgerTypeOK
    /\ FiguresTypeOK
    /\ HistoryTypeOK

\* The parts the tab is not at are in one state of theirs.
PortalInit ==
    /\ page \in Parts
    /\ ClaimsInit /\ LookupInit /\ VaultInit /\ ConfirmPageInit /\ LedgerInit /\ FiguresInit
    /\ HistoryInit
    /\ page # "card" => code = "ok" /\ \A a \in Assets : available[a] = 0
    /\ page # "lookup" => list = None /\ url = None
    /\ page # "figures" =>
          /\ cutoff = CHOOSE c \in Cutoffs : TRUE
          /\ Latest.governor = CHOOSE m \in Members : TRUE
    /\ page # "history" => location = Plain /\ loads[1] = CHOOSE a \in Archives : TRUE

\* A step of the page the tab is at, or the tab rests.
PortalNext ==
    /\ UNCHANGED page
    /\ \/ /\ page = "card"
          /\ ClaimsNext
          /\ UNCHANGED <<lookupVars, vaultVars, confirmPageVars, ledgerVars, figuresVars, historyVars>>
       \/ /\ page = "lookup"
          /\ LookupNext
          /\ UNCHANGED <<claimsVars, vaultVars, confirmPageVars, ledgerVars, figuresVars, historyVars>>
       \/ /\ page = "vault"
          /\ VaultNext
          /\ UNCHANGED <<claimsVars, lookupVars, confirmPageVars, ledgerVars, figuresVars, historyVars>>
       \/ /\ page = "confirm"
          /\ ConfirmPageNext
          /\ UNCHANGED <<claimsVars, lookupVars, vaultVars, ledgerVars, figuresVars, historyVars>>
       \/ /\ page = "ledger"
          /\ LedgerNext
          /\ UNCHANGED <<claimsVars, lookupVars, vaultVars, confirmPageVars, figuresVars, historyVars>>
       \/ /\ page = "figures"
          /\ FiguresNext
          /\ UNCHANGED <<claimsVars, lookupVars, vaultVars, confirmPageVars, ledgerVars, historyVars>>
       \/ /\ page = "history"
          /\ HistoryNext
          /\ UNCHANGED <<claimsVars, lookupVars, vaultVars, confirmPageVars, ledgerVars, figuresVars>>

PortalSpec == PortalInit /\ [][PortalNext]_portalVars

=============================================================================
