\* Two fields and two sessions, one secret that begins with 'enc:'; a key is removed, and put back.
SPECIFICATION Spec
CONSTANTS
    Field = {f1, f2}
    Session = {u1, u2}
    Secret = {secret, prefixed}
    Prefixed = {prefixed}
    TokenText = TokenText
    NoSecret = NoSecret
    MaxKeys = 2
    MaxAdminActs = 2
SYMMETRY Symmetry
INVARIANTS
    IInv
    KeysAreStored
    ReadsWhatWasEntered
