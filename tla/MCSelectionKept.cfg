CONSTANTS
    here = here
    there = there
    Pastes <- TwoPastes
    Tasks = {1, 2}
    InFolder <- Folder
    Places <- PastePlaces
    Source <- Sources
    Target <- Apart
    SameContext = {here}
    SizeOf <- SameSizes
    Limit = 2
SPECIFICATION PasteSpec
PROPERTIES SelectionKept
\* The clipboard is pasted twice.
CHECK_DEADLOCK FALSE
