------------------------ MODULE MCReceiptDiagnostics ------------------------
EXTENDS ReceiptDiagnostics

PlanMC == <<"faultCategory", "warrantyStatus", "detectionResult">>
CascadeMC ==
    {<<"warrantyStatus", "faultCategory">>, <<"detectionResult", "warrantyStatus">>,
     <<"faultCategory", "detectionResult">>, <<"sn", "remark">>}
=============================================================================
