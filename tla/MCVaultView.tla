------------------------------ MODULE MCVaultView ------------------------------
EXTENDS VaultView
CONSTANTS a, b, ledger
=============================================================================
