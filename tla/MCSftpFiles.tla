----------------------------- MODULE MCSftpFiles -----------------------------
(* Instances of SftpFiles: files of some length on one connection, folders and
   transfers that wait for each other, and all requests on several connections, one after the other *)
EXTENDS SftpFiles

Deep ==
    [requests |-> 1, kinds |-> {"download", "upload"}, overwrites |-> BOOLEAN, cancels |-> 1,
     workers |-> 1, items |-> 1, folders |-> {FALSE}, sources |-> 0..5, faults |-> Faults]

Folders ==
    [requests |-> 2, kinds |-> {"download", "upload"}, overwrites |-> {FALSE}, cancels |-> 1,
     workers |-> 1, items |-> 2, folders |-> {TRUE}, sources |-> {2}, faults |-> {"none", "open"}]

Wide ==
    [requests |-> 3, kinds |-> {"list", "operate", "upload"}, overwrites |-> {FALSE}, cancels |-> 0,
     workers |-> 2, items |-> 0, folders |-> {TRUE}, sources |-> {0}, faults |-> {"none"}]

Again ==
    [requests |-> 2, kinds |-> {"list", "upload"}, overwrites |-> {FALSE}, cancels |-> 0,
     workers |-> 3, items |-> 1, folders |-> {FALSE}, sources |-> {1}, faults |-> {"none"}]

MCScopes == {Deep, Folders, Wide, Again}
=============================================================================
