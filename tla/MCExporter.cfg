\* The three exporters, each in its own directory, runs in any order with faults.
CONSTANTS
    Designs <- MCDesigns
    Names <- MCNames
SPECIFICATION ExpSpec
INVARIANTS ExpTypeOK NothingUnvalidated RejectionTouchesBlockOnly ReturnedFilesWhole ReturnedInterfacesFit 
