--------------------------- MODULE MCAsrDialects ---------------------------
(* Every provider, one session each.                                       *)
EXTENDS AsrDialects
MCProviders == {"qwen", "deepgram", "assemblyai", "gladia", "openai"}
MCOpenAi == {"openai"}
=============================================================================
