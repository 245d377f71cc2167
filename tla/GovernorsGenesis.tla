-------------------------- MODULE GovernorsGenesis --------------------------
(***************************************************************************)
(* Governors on a chain that is also exported and started again from the   *)
(* exported state.  ExportGenesis writes the governor records and the      *)
(* delegations of each governor; InitGenesis rebuilds the reverse mapping, *)
(* the shares and the index from them and from the stake, which x/staking  *)
(* has imported before.                                                    *)
(***************************************************************************)
EXTENDS Governors

\* Mutant: the active governors' own delegations are imported twice.
InitGenesisTwice ==
    LET blank == [gov EXCEPT !.delegation = [d \in Accounts |-> None],
                             !.byGovernor = {},
                             !.valShares = [a \in Accounts |-> [v \in Validators |-> 0]],
                             !.activeIndex = {}]
        own == {<<g, g>> : g \in {x \in Accounts : IsActive(gov, x)}}
        Import(p, stores) == DelegateToGovernor(stores, stk, p[2], p[1])
    IN  FoldSet(Import, FoldSet(Import, blank, own), gov.byGovernor)

\* Mutant: the delegations are imported and the index is not rebuilt.
InitGenesisUnindexed == [gov EXCEPT !.activeIndex = {}]

\* InitGenesis from the exported records: first the active governors' own
\* delegations, then all the others.  DelegateToGovernor is called as it is in
\* the messages, whether the governor is active or not.
InitGenesis ==
    LET blank == [gov EXCEPT !.delegation = [d \in Accounts |-> None],
                             !.byGovernor = {},
                             !.valShares = [a \in Accounts |-> [v \in Validators |-> 0]],
                             !.activeIndex = {}]
        own == {<<g, g>> : g \in {x \in Accounts : IsActive(gov, x)}}
        others == {p \in gov.byGovernor : gov.status[p[1]] # "none"} \ own
        Import(p, stores) == DelegateToGovernor(stores, stk, p[2], p[1])
    IN  IF \E p \in others : IsActive(gov, p[2])
        THEN Panic(gov)
        ELSE FoldSet(Import, FoldSet(Import, blank, own), others)

\* InitGenesis refuses an active governor below the minimum.
ExportAndRestart ==
    /\ ExportedStateImports
    /\ gov' = InitGenesis
    /\ UNCHANGED <<stk, minSelf, now>>

NextGenesis ==
    \/ Next
    \/ ExportAndRestart

SpecGenesis == Init /\ [][NextGenesis]_vars

-----------------------------------------------------------------------------
\* Every validator an active governor delegates to has its index entry, so no
\* slash and no begin of unbonding passes the governor by; and every entry has
\* a governor record and a staking delegation behind it.
IndexServesHooks ==
    /\ \A g \in Accounts : IsActive(gov, g) => DelegatedTo(stk, g) \X {g} \subseteq gov.activeIndex
    /\ \A e \in gov.activeIndex : gov.status[e[2]] # "none" /\ e[1] \in DelegatedTo(stk, e[2])

\* A restart from the exported state restores the delegations and the shares.
RestartPreserves ==
    [][ExportAndRestart =>
         /\ gov'.delegation = gov.delegation
         /\ gov'.valShares = gov.valShares
         /\ gov'.byGovernor = gov.byGovernor]_vars
=============================================================================
