---- MODULE MCKvsTransaction ----
EXTENDS KvsTransaction

Load(forms, keys, phases, external, errors) ==
    [forms |-> forms, keys |-> keys, phases |-> phases, external |-> external, errors |-> errors]

\* Every kind of operation on one key in two phases, with another writer and a
\* failing request; and ranges over two keys.
AllWorkloads ==
    { Load({"write", "committed", "modify", "read", "delete_range"}, 1, 1, 1, 0),
      Load({"committed", "delete_range"}, 2, 0, 1, 0),
      Load({"modify", "delete_range"}, 2, 1, 1, 1),
      Load({"write", "dropped", "delete_range"}, 1, 0, 1, 1) }

\* Three clients that share a transaction, each with a key of its own, after the
\* transaction has deleted the first key: the kind and the condition of the
\* operations of each client.
Clients == {Load({"write", "read", "modify", "delete_range"}, 3, 0, 0, 0)}

Script == << << << "write", 1 >>, << "write", NoBase >> >>,
             << << "write", NoBase >>, << "read", NoBase >> >>,
             << << "write", NoBase >>, << "write", 1 >>, << "modify", NoBase >> >> >>

FollowsScript ==
    /\ nops' # nops =>
          IF nops = 0 THEN dels'[0] = {<< 1, 1 >>}
          ELSE /\ chain' # chain
               /\ LET o == ops'[nops']
                      n == Len(chain'[0][o.key])
                  IN /\ n <= Len(Script[o.key]) /\ Script[o.key][n] = << o.kind, o.cond >>
                     /\ o.kind = "write" => o.rr.val # Missing
                     /\ o.kind = "modify" => o.rr.st # "unspecified"
    /\ state = "open" /\ state' # "open" => nops = MaxOps

ScriptedSpec == Init /\ [][Next /\ FollowsScript]_vars
====
