------------------------------- MODULE CellGrid -------------------------------
(***************************************************************************)
(* What a view of a matrix means: a grid whose fields name cells of the     *)
(* matrix, and operations that pick and rearrange fields.                  *)
(***************************************************************************)
EXTENDS Naturals

CONSTANTS MatrixRows, MatrixCols, Sizes

VARIABLES
  grid,     \* [rows, cols, cell]: cell[row][col] is the number of a cell
  result    \* what the latest operation did

vars == <<grid, result>>

Grid(rows, cols, Cell(_, _)) ==
  [rows |-> rows, cols |-> cols,
   cell |-> [r \in 0 .. rows - 1 |-> [c \in 0 .. cols - 1 |-> Cell(r, c)]]]

Whole == Grid(MatrixRows, MatrixCols, LAMBDA r, c : r * MatrixCols + c)

Init == grid = Whole /\ result = "view"

Become(g) == grid' = g

Refuse(error) == UNCHANGED grid /\ result' = error

View == Become(Whole) /\ result' = "view"

Subview(row, col, rows, cols) ==
  \/ /\ row + rows <= grid.rows /\ col + cols <= grid.cols
     /\ Become(Grid(rows, cols, LAMBDA r, c : grid.cell[row + r][col + c]))
     /\ result' = "subview"
  \/ /\ row + rows > grid.rows \/ col + cols > grid.cols
     /\ Refuse("out_of_range")

Crop(rows, cols) ==
  \/ /\ rows <= grid.rows /\ cols <= grid.cols
     /\ Become(Grid(rows, cols, LAMBDA r, c : grid.cell[r][c]))
     /\ result' = "crop"
  \/ (rows > grid.rows \/ cols > grid.cols) /\ Refuse("length_error")

\* The fields in the order of the rows, in rows of another length; the view may
\* refuse, which it does for one that lacks parts of the matrix's rows.
Reshape(rows, cols) ==
  \/ /\ rows * cols = grid.rows * grid.cols
     /\ Become(Grid(rows, cols, LAMBDA r, c :
                 grid.cell[(r * cols + c) \div grid.cols][(r * cols + c) % grid.cols]))
     /\ result' = "reshape"
  \/ rows * cols # grid.rows * grid.cols /\ Refuse("length_error")
  \/ Refuse("logic_error")

Transpose ==
  /\ Become(Grid(grid.cols, grid.rows, LAMBDA r, c : grid.cell[c][r]))
  /\ result' = "transpose"

\* The number of multiples of step below n.
Steps(n, step) == (n + step - 1) \div step

\* Every row_step-th row, and of them every col_step-th field.
Stride(row_step, col_step) ==
  \/ /\ row_step # 0 /\ col_step # 0
     /\ Become(Grid(Steps(grid.rows, row_step), Steps(grid.cols, col_step),
                    LAMBDA r, c : grid.cell[r * row_step][c * col_step]))
     /\ result' = "stride"
  \/ (row_step = 0 \/ col_step = 0) /\ Refuse("invalid_argument")

Next ==
  \/ View \/ Transpose
  \/ \E rows, cols \in Sizes :
       \/ Crop(rows, cols) \/ Reshape(rows, cols) \/ Stride(rows, cols)
       \/ \E row, col \in Sizes : Subview(row, col, rows, cols)

Spec == Init /\ [][Next]_vars

================================================================================
