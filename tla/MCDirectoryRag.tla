---------------------------- MODULE MCDirectoryRag ----------------------------
(* A small instance of the directory index for TLC. *)
EXTENDS DirectoryRagProps

CONSTANTS alice, backend, ask1, ask2

MCPerson == {alice}
MCGroup == {backend}
MCCall == {ask1, ask2}
===============================================================================
