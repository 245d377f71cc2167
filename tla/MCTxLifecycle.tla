--------------------------- MODULE MCTxLifecycle ---------------------------
(***************************************************************************)
(* Two accounts.  The first has transactions of rising and of falling      *)
(* priority, one that drains the account, and two for the same sequence    *)
(* number; the second co-signs one of the first's sequence numbers.        *)
(***************************************************************************)
EXTENDS TxLifecycle

By(signer, sequence) == [signer |-> signer, sequence |-> sequence]
Tx(signers, priority, gas, drains) ==
    [signers |-> signers, priority |-> priority, gas |-> gas, drains |-> drains]

MCTxs == {Tx(<<By(1, 0)>>, 1, 2, {1}), Tx(<<By(1, 0)>>, 1, 1, {}),
          Tx(<<By(1, 1)>>, 3, 1, {}), Tx(<<By(1, 1)>>, 1, 1, {}), Tx(<<By(1, 2)>>, 2, 1, {}),
          Tx(<<By(2, 0)>>, 2, 2, {}), Tx(<<By(2, 1)>>, 1, 1, {}),
          Tx(<<By(2, 1), By(1, 1)>>, 3, 1, {1})}
SamePriority == {<<p, p>> : p \in Priorities}
=============================================================================
