---------------------------- MODULE MCDynamicFee ----------------------------
EXTENDS DynamicFee, TLC

\* The default AIMD parameters, on a short window and few units.
AIMD ==
    [Window |-> 3, Alpha |-> 4, Beta |-> 10, Gamma |-> 5,
     MinBaseGasPrice |-> 20, TargetBlockUtilization |-> 10,
     DefaultMaxBlockGas |-> 7, MinLearningRate |-> 2, MaxLearningRate |-> 10,
     Enabled |-> TRUE]

\* The fixed learning rate of EIP-1559; its target gas truncates to zero
\* under a small block limit.
EIP1559 ==
    [AIMD EXCEPT !.Window = 1, !.Alpha = 0, !.Beta = 20, !.Gamma = 0,
                 !.MinBaseGasPrice = 3, !.TargetBlockUtilization = 5,
                 !.MinLearningRate = 5, !.MaxLearningRate = 5]

\* A learning rate above one that would grow past MaxDec.
Steep ==
    [AIMD EXCEPT !.Window = 2, !.Alpha = 15, !.Gamma = 6, !.MinBaseGasPrice = 2,
                 !.TargetBlockUtilization = 6, !.MinLearningRate = 0,
                 !.MaxLearningRate = 50]

Disabled == [AIMD EXCEPT !.Enabled = FALSE]

MCParamSets == {AIMD, EIP1559, Steep, Disabled}
MCMaxGasValues == {-1, 3}
=============================================================================
