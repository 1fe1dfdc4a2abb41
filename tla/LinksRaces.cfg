SPECIFICATION Spec
CONSTANTS
    Requests = {r1, r2, r3}
    Original = Original
    NoToken = NoToken
SYMMETRY Interchange
INVARIANTS
    TypeOK
    SpentLinksAreDead
    PasswordComesFromLink
    MailedWasStored
PROPERTY OneTimeUnlessOvertaken
