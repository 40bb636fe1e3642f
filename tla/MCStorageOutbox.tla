-------------------------- MODULE MCStorageOutbox ---------------------------
(* StorageOutbox with an outbox of two entries and five requests.          *)
EXTENDS StorageOutbox
=============================================================================
