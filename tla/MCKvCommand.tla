----------------------------- MODULE MCKvCommand -----------------------------
EXTENDS KvCommand, TLC

MCPut(v)       == [cmd |-> "put", key |-> "a", val |-> v]
MCDel(force)   == [cmd |-> "del", key |-> "a", force |-> force]
MCImport(rows) == [cmd |-> "import", rows |-> rows]
MCRows == <<<<"a", "x">>, <<"a", "y">>, <<"b", "x">>, <<"a", "z">>>>
MCBad  == <<<<"a", "">>, <<"a", "y">>, Malformed>>
MCRemote == {<<"a", None>>}
MCSymmetry == Permutations(Proc)

(* Keys, reads and files; writes; imports.                                 *)
MCSessions ==
    {{[cmd |-> "init"], [cmd |-> "pair", dev |-> [rk |-> 0, reg |-> "g"]],
      [cmd |-> "set-register-key", reg |-> "h"], [cmd |-> "pair-blob"], [cmd |-> "backup"]},
     {MCPut("x"), MCDel(FALSE)},
     {MCImport(MCRows), MCImport(MCBad)},
     {MCDel(TRUE), [cmd |-> "sync"], [cmd |-> "get", key |-> "a"], [cmd |-> "ls"], [cmd |-> "export"]}}
=============================================================================
