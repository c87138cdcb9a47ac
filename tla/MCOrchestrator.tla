--------------------------- MODULE MCOrchestrator ---------------------------
(* Orchestrator on small instances: one reason of each kind the run treats *)
(* differently -- restricted or not -- for every source of reasons.        *)
EXTENDS Orchestrator

MCScreening      == {"financial_authorization", "sensitive_data"}
MCClassification == {"low_confidence"}
MCWideTriage     == {"low_confidence", "account_compromise"}
MCQAReasons      == {"financial_authorization", "insufficient_evidence"}
MCOneQAReason    == {"insufficient_evidence"}
MCOperator       == BOOLEAN
=============================================================================
