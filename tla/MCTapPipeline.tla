--------------------------- MODULE MCTapPipeline ---------------------------
(***************************************************************************)
(* TapPipeline for TLC.  The queue has one place: of two exchanges that    *)
(* were answered one waits in it, or is persisted, while the other meets   *)
(* the full channel or the second worker.  A process exit may take either, *)
(* and the restarted process goes on with what is left.                    *)
(***************************************************************************)
EXTENDS TapPipeline

MCPayloads == {{"client_request"}, {"client_request", "response"}}
MCAllPayloads == {{"client_request"}, Role}
============================================================================
