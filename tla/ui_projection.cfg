SPECIFICATION Spec
CONSTANTS
    field = field
    text = text
    checkbox = checkbox
    short = short
    other = other
    long = long
    yes = yes
    no = no
    odd = odd
    none = none
    Odd = odd
    None = none
    Fields = {field}
    Texts = {text}
    Checkboxes = {checkbox}
    Numbers = {0, 1, 2, 3}
    Single <- Nearest
    Shortest <- Decimal
    Words = {short, other, long}
    Refused = {long}
    Ticks = {yes, no}
INVARIANTS
    AskedIsMeant
    PendingIsShown
    ShowsWhatIsInEffect
