---------------------------- MODULE MCBackOffice ----------------------------
(***************************************************************************)
(* The services the back office and the customers' profile pages use, for  *)
(* TLC.  As in MCOrderServices, desk says which of them moves.             *)
(***************************************************************************)
EXTENDS CustomerAddresses, WorkerAdmin, LocationTree, LocationResolution, Ewallet, Accounts

VARIABLE desk

BackOfficeVars == <<desk, addressVars, workerVars, areaVars, poolVars, walletVars, accountVars>>

BackOfficeInit ==
  /\ desk \in {"addresses", "workers", "areas", "pool", "wallets", "accounts"}
  /\ AddressInit /\ WorkerInit /\ AreaInit /\ PoolInit /\ WalletInit /\ AccountInit

BackOfficeNext ==
  \/ /\ desk = "addresses"
     /\ AddressNext
     /\ UNCHANGED <<desk, workerVars, areaVars, poolVars, walletVars, accountVars>>
  \/ /\ desk = "workers"
     /\ WorkerNext
     /\ UNCHANGED <<desk, addressVars, areaVars, poolVars, walletVars, accountVars>>
  \/ /\ desk = "areas"
     /\ AreaNext
     /\ UNCHANGED <<desk, addressVars, workerVars, poolVars, walletVars, accountVars>>
  \/ /\ desk = "pool"
     /\ PoolNext
     /\ UNCHANGED <<desk, addressVars, workerVars, areaVars, walletVars, accountVars>>
  \/ /\ desk = "wallets"
     /\ WalletNext
     /\ UNCHANGED <<desk, addressVars, workerVars, areaVars, poolVars, accountVars>>
  \/ /\ desk = "accounts"
     /\ AccountNext
     /\ UNCHANGED <<desk, addressVars, workerVars, areaVars, poolVars, walletVars>>

BackOfficeSpec == BackOfficeInit /\ [][BackOfficeNext]_BackOfficeVars

\* Every variable keeps its type: the rows, requests and balances of the six services
\* (customers, workers, locations, finance, users) stay what their code writes.
BackOfficeTypeOK ==
  /\ AddressTypeOK /\ WorkerTypeOK /\ AreaTypeOK
  /\ PoolTypeOK /\ WalletTypeOK /\ AccountTypeOK
=============================================================================
