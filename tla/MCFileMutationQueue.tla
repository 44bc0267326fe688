------------------------- MODULE MCFileMutationQueue -------------------------
\* Instances of FileMutationQueue: a file and a symbolic link to it.
EXTENDS FileMutationQueue

CONSTANTS target, alias

MCPaths     == {target, alias}
MCCanonical == [p \in MCPaths |-> target]
MCExisting  == {target}
MCNone      == {}

=============================================================================
