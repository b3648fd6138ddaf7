-------------------------- MODULE MCReconciliation --------------------------
EXTENDS Reconciliation
=============================================================================
