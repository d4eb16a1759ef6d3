------------------------------ MODULE MCCodec ------------------------------
\* The instance of the codec that is checked: names of a few bytes.
EXTENDS Codec

RootName == <<6>>
NativeName == <<7, 7>>
Sha2Name == <<8, 8>>
============================================================================
