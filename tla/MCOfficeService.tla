-------------------------- MODULE MCOfficeService ---------------------------
(* Instances of OfficeService for TLC: one document, one new name, and     *)
(* every kind of call, or only those the desktop commands make.            *)
EXTENDS OfficeService, TLC

CONSTANTS Doc, New

Request(kind, path, target) == [kind |-> kind, path |-> path, target |-> target]

EditRequests == {Request("inspect", Doc, Doc), Request("apply", Doc, New)}

CommandRequests == EditRequests \cup {Request("create", New, New)}

MCRequests ==
  CommandRequests \cup {Request("open", Doc, Doc), Request("close", Doc, Doc)}

Interchangeable == Permutations(Operations)
=============================================================================
